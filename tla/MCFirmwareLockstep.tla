-------------------------- MODULE MCFirmwareLockstep --------------------------
(* Values of the constants of FirmwareLockstep for TLC.                    *)
EXTENDS FirmwareLockstep

Reading(over, sag, power) ==
    [over |-> over, sag |-> sag, power |-> power, hash |-> 0]
Healthy == Reading(FALSE, FALSE, 1)
Sagging == Reading(FALSE, TRUE, 1)
TooMuch == Reading(TRUE, FALSE, 1)

Shows(cp, safety) == [cp |-> cp, safety |-> safety]

\* No vehicle, plugged in, charging requested, safety trip.
MCReadings  == {Healthy, TooMuch, Sagging}
MCPinStates == {Shows(0, FALSE), Shows(1, FALSE), Shows(2, FALSE), Shows(2, TRUE)}
=============================================================================
