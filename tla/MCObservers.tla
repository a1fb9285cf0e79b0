----------------------------- MODULE MCObservers -----------------------------
(* Instances of Observers for TLC. *)
EXTENDS Observers, TLC
CONSTANTS p1, p2, a1, a2, a3, bad
Symmetry == Permutations({p1, p2}) \cup Permutations({a1, a2, a3})
=============================================================================
