----------------------------- MODULE MCMeshNode -----------------------------
(* The mesh node with small bounds, for TLC. *)
EXTENDS MeshNode
=============================================================================
