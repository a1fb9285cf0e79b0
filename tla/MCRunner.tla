------------------------------ MODULE MCRunner ------------------------------
(* Two attempts of one run, for TLC. *)
EXTENDS Runner, TLC
CONSTANTS a1, a2, w1
MeshIds == (a1 :> "m1") @@ (a2 :> "m2")
=============================================================================
