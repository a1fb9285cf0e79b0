---------------------------- MODULE MCCiPipeline ----------------------------
(* Instances of CiPipeline for TLC. *)
EXTENDS CiPipeline, TLC
CONSTANTS r1, r2
AllReachable == [reachable |-> 1, exit_code |-> 0]
NoneReachable == [reachable |-> 0, exit_code |-> 2]
NotConfigured == [reachable |-> 0, exit_code |-> 3]
FullMesh == [exit_code |-> 0, node_count |-> 3, mean |-> 2, empty |-> FALSE]
NoMesh == [exit_code |-> 1, node_count |-> 3, mean |-> 0, empty |-> FALSE]
NoNodes == [exit_code |-> 1, node_count |-> 3, mean |-> 0, empty |-> TRUE]
With(bootstraps, sims, ghosts, keyspaces, tunnels) ==
    [bootstrap : bootstraps, sim : sims, ghost : ghosts, keyspace : keyspaces,
     tunnel : tunnels]
Tunnels == [status : {"ready", "failed"}]
\* What the rules that fail a run read, some of it missing.
HardResults ==
    With({None, AllReachable, NoneReachable}, {None, FullMesh, NoMesh}, {None}, {None},
         {None} \cup Tunnels)
\* What the rules that only warn read.
SoftResults ==
    With({AllReachable}, {FullMesh}, [ghost : {0, 2}], [orphan_keys : {1}], {None})
    \cup With({NotConfigured}, {NoNodes}, [ghost : {0, 2}], [orphan_keys : {0, 1}], {None})
RunSymmetry == Permutations(Run)
AllResults == HardResults \cup SoftResults
=============================================================================
