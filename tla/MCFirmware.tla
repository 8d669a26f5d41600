----------------------------- MODULE MCFirmware -----------------------------
(* Values of the constants of Firmware for TLC.                            *)
EXTENDS Firmware

Reading(over, sag) == [over |-> over, sag |-> sag, power |-> 1, hash |-> 0]
Healthy == Reading(FALSE, FALSE)
Sagging == Reading(FALSE, TRUE)

Shows(cp, safety) == [cp |-> cp, safety |-> safety]

\* No vehicle, plugged in, charging requested, safety trip.
MCReadings  == {Healthy, Sagging}
MCPinStates == {Shows(0, FALSE), Shows(1, FALSE), Shows(2, FALSE), Shows(2, TRUE)}
=============================================================================
