------------------------------ MODULE MCHarness ------------------------------
(* A cluster of three, as in the smoke mode, for TLC. *)
EXTENDS Harness, TLC
=============================================================================
