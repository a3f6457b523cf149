---------------------------- MODULE MCStationLink ----------------------------
(* The executions of the station are model values of the configuration.     *)
EXTENDS StationLink
=============================================================================
