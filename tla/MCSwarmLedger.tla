--------------------------- MODULE MCSwarmLedger ---------------------------
(* Instances of SwarmLedger for TLC. *)
EXTENDS SwarmLedger, TLC
=============================================================================
