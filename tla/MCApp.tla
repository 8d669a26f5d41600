-------------------------------- MODULE MCApp --------------------------------
(***************************************************************************)
(* Small sessions of the visualiser.                                       *)
(***************************************************************************)
EXTENDS App

MCAddresses == {StationAddress("S4", 0), StationAddress("S6", 3), StationAddress("S99", 0),
                StationAddress("S9", 99), GridAddress}
=============================================================================
