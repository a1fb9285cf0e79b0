--------------------------- MODULE MCCoordinator ---------------------------
(* Instances of Coordinator for TLC.  Time is in units of 300 s, with the  *)
(* default life scaled down from 12 units to 2 and the cap from 24 to 4,   *)
(* so that every branch of the TTL computations is still taken.            *)
EXTENDS Coordinator, TLC
=============================================================================
