--------------------------- MODULE MCBeaconWriter ---------------------------
(* Instances of BeaconWriter for TLC.                                      *)
EXTENDS BeaconWriter

=============================================================================
