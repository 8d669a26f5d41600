--------------------------- MODULE MCMeterSession ---------------------------
(* Values of the constants of MeterSession for TLC.                        *)
EXTENDS MeterSession

MCPower == {1}
MCPilotCodes == {0, 1, 2}

Sample(over, sag, hash) ==
    [over |-> over, sag |-> sag, power |-> 1, hash |-> hash]
MCMeasurements == {Sample(FALSE, FALSE, 0), Sample(FALSE, TRUE, 0),
                   Sample(TRUE, FALSE, 0)}
=============================================================================
