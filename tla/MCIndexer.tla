----------------------------- MODULE MCIndexer -----------------------------
(* Instances of Indexer for TLC. *)
EXTENDS Indexer, TLC
CONSTANTS p1, p2, n1, n2
\* Two nodes of different protocols, or two processes of one node, the second
\* being the restart of the first.
TwoOrOne == {(p1 :> n1) @@ (p2 :> n2), (p1 :> n2) @@ (p2 :> n2)}
BothProtocols == (n1 :> "vless") @@ (n2 :> "hysteria2")
=============================================================================
