----------------------------- MODULE MCCharger -----------------------------
(* Values of the constants of Charger for TLC.                             *)
EXTENDS Charger

MCPower == {1}

\* No vehicle, plugged in, charging requested, error.  D is treated as B is.
MCPilotCodes == {0, 1, 2, 4}
=============================================================================
