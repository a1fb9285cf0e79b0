--------------------------- MODULE HarnessProofs ---------------------------
(***************************************************************************)
(* Proofs about Harness, for clusters of any size.                         *)
(***************************************************************************)
EXTENDS Harness, FiniteSetTheorems, TLAPS

(* The inductive invariant, in parts.                                      *)

\* Where the harness is, and the ranges of its loops.
StepsOK ==
    /\ pc \in Stages
    /\ at \in Nat
    /\ pc \in {"create", "dial", "announce", "waitPut"} => at \in Node
    /\ pc = "dial" => at # 0
    /\ pc = "discover" => at < N * N
    /\ pc # "discover" => at <= N
    /\ kill \in KillChoices
    /\ pc \in {"stopDoomed", "verify"} => kill # None

NodesOK ==
    /\ node \in [Node -> {"none", "null", "up", "down"}]
    /\ put \in [Node -> {"none", "pending", "over"}]
    /\ held \in [Node -> SUBSET {"config", "tombstone"}]
    /\ announced \subseteq Node

\* Only nodes that are up are connected.
LinksOK ==
    /\ link \subseteq Link
    /\ \A l \in link : l \subseteq Up

Gathering == {"create", "dial", "converge"}
Running == Stages \ (Gathering \cup {"returned"})

\* Node 0 is there while the others join, and everybody once they have.
ClusterOK ==
    /\ pc \in Gathering /\ (pc = "create" => at # 0) => node[0] = "up"
    /\ pc = "create" => \A i \in Node : i >= at => node[i] = "none"
    /\ pc = "dial" => node[at] = "up" /\ \A i \in Node : i > at => node[i] = "none"
    /\ pc \in Running => \A i \in Node : node[i] \in {"up", "down"}

\* What has been counted stays below the index of the loop that counts.
ReportOK ==
    /\ report \in [edges : 0..Cardinality(Link), isolated : 0..N, found : Nat,
                   absent : BOOLEAN, stale : Nat]
    /\ pc = "discover" => report.found < at
    /\ report.found <= N * N
    /\ pc \in Gathering \cup {"announce", "waitPut", "topology"} => report.found = 0
    /\ pc = "verify" => report.stale <= at
    /\ report.stale <= N
    /\ pc \notin {"verify", "stopAll", "returned"} => report.stale = 0
    /\ report.stale > 0 => report.absent = FALSE

VerdictOK ==
    /\ errors \subseteq {"spawn", "failed", "incomplete"}
    /\ pc # "returned" => verdict = None /\ "spawn" \notin errors
    /\ pc = "returned" => verdict \in {"RED", Health(report)}

HInv == /\ StepsOK /\ NodesOK /\ LinksOK /\ ClusterOK
        /\ ReportOK /\ VerdictOK

-----------------------------------------------------------------------------
(* Facts about the constants.                                              *)

LEMMA FiniteNode == IsFiniteSet(Node) /\ Cardinality(Node) = N
<1>1. 0 \in Int /\ N - 1 \in Int /\ ~(0 > N - 1) /\ (N - 1) - 0 + 1 = N
  BY HarnessAssumption
<1>2. QED
  BY <1>1, FS_Interval DEF Node

LEMMA FiniteLink ==
  /\ IsFiniteSet(Link) /\ Cardinality(Link) \in Nat
  /\ \A L \in SUBSET Link : Cardinality(L) \in 0..Cardinality(Link)
<1>1. IsFiniteSet(SUBSET Node)
  BY FiniteNode, FS_SUBSET
<1>2. IsFiniteSet(Link)
  BY <1>1, FS_Subset DEF Link
<1>3. Cardinality(Link) \in Nat
  BY <1>2, FS_CardinalityType
<1>4. ASSUME NEW L \in SUBSET Link PROVE Cardinality(L) \in 0..Cardinality(Link)
  <2>1. IsFiniteSet(L) /\ Cardinality(L) <= Cardinality(Link)
    BY <1>2, FS_Subset
  <2>2. Cardinality(L) \in Nat
    BY <2>1, FS_CardinalityType
  <2>3. QED  BY <1>3, <2>1, <2>2
<1>5. QED  BY <1>2, <1>3, <1>4

LEMMA CountNodes == \A S \in SUBSET Node : Cardinality(S) \in 0..N
<1>1. SUFFICES ASSUME NEW S \in SUBSET Node PROVE Cardinality(S) \in 0..N
  OBVIOUS
<1>2. IsFiniteSet(S) /\ Cardinality(S) <= N
  BY FiniteNode, FS_Subset
<1>3. Cardinality(S) \in Nat
  BY <1>2, FS_CardinalityType
<1>4. QED  BY <1>2, <1>3, HarnessAssumption

LEMMA Square == N * N \in Nat /\ N <= N * N /\ (N > 1 => 1 < N * N)
<1>1. N \in Nat /\ N >= 1  BY HarnessAssumption
<1>2. QED  BY <1>1, SMT

LEMMA NodeRange == 0 \in Node /\ \A i \in Node : i \in Nat /\ i <= N
                   /\ (i < N - 1 => i + 1 \in Node)
BY HarnessAssumption DEF Node

-----------------------------------------------------------------------------
(* The branches over nodes that did not start are never taken.             *)

\* A poll is satisfied only when the nodes that are up are all there are.
LEMMA ConvergedIsWhole ==
  ASSUME NodesOK, LinksOK, node[0] = "up", Converged
  PROVE  Up = Node
<1>1. 0 \in Up
  BY HarnessAssumption DEF Up, Node
<1>2. PICK i \in Up : Cardinality(Peers(i)) >= N - 1
  BY <1>1 DEF Converged, MinPeers
<1>3. Peers(i) \subseteq Up \ {i}
  BY DEF Peers, LinksOK
<1>4. IsFiniteSet(Up) /\ Up \in SUBSET Node /\ Cardinality(Up) \in 0..N
  BY FiniteNode, FS_Subset, CountNodes DEF Up
<1>5. IsFiniteSet(Up \ {i}) /\ Cardinality(Up \ {i}) = Cardinality(Up) - 1
  BY <1>4, FS_RemoveElement
<1>6. Cardinality(Peers(i)) <= Cardinality(Up) - 1
  BY <1>3, <1>5, FS_Subset
<1>7. Cardinality(Peers(i)) \in Nat
  BY <1>3, <1>5, FS_Subset, FS_CardinalityType
<1>8. Cardinality(Up) = N
  BY <1>2, <1>4, <1>6, <1>7, HarnessAssumption
<1>9. QED
  BY <1>4, <1>8, FiniteNode, FS_Subset

-----------------------------------------------------------------------------
(* The steps.                                                              *)

LEMMA InitHInv == Init => HInv
<1> SUFFICES ASSUME Init PROVE HInv
    OBVIOUS
<1> USE DEF Init
<1>1. StepsOK
  BY NodeRange, HarnessAssumption DEF StepsOK, Stages
<1>2. NodesOK /\ LinksOK /\ ClusterOK
  BY DEF NodesOK, LinksOK, ClusterOK, Gathering, Running
<1>3. ReportOK
  BY FiniteLink, Square, HarnessAssumption DEF ReportOK, EmptyReport
<1>4. VerdictOK
  BY DEF VerdictOK
<1>5. QED  BY <1>1, <1>2, <1>3, <1>4 DEF HInv

LEMMA SpawnHInv == HInv /\ Spawn => HInv'
<1> SUFFICES ASSUME HInv, Spawn PROVE HInv'
    OBVIOUS
<1> USE DEF HInv
<1>1. at < N - 1 \/ ~(at < N - 1)
  OBVIOUS
<1>2. ASSUME at \in Node PROVE Following \in Node /\ Following <= N
  BY <1>2, NodeRange, HarnessAssumption DEF Following
<1>3. CASE CreateNode
  <2> USE <1>3 DEF CreateNode
  <2>1. at \in Node /\ kill' = kill
    BY DEF StepsOK
  <2>2. StepsOK'
    BY <1>2, <2>1, NodeRange DEF StepsOK, Stages, AfterCreate, Following
  <2>3. NodesOK' /\ Up \subseteq Up'
    BY <2>1 DEF NodesOK, Up
  <2>4. LinksOK'
    BY <2>3 DEF LinksOK
  <2>5. node'[0] = "up"
    BY <2>1, NodeRange DEF ClusterOK, Gathering, NodesOK
  <2>6. ClusterOK'
    <3>1. ASSUME NEW i \in Node, i > at PROVE node'[i] = "none"
      <4>1. i >= at /\ i # at
        BY <2>1, <3>1, HarnessAssumption DEF Node
      <4>2. node[i] = "none"
        BY <4>1 DEF ClusterOK
      <4>3. QED  BY <2>1, <4>1, <4>2 DEF NodesOK
    <3>2. /\ pc' \in {"create", "dial", "converge"}
          /\ pc' = "create" => at' = at + 1
          /\ pc' = "dial" => at' = at
      BY DEF AfterCreate, Following
    <3>3. ASSUME NEW i \in Node, i >= at + 1 PROVE node'[i] = "none"
      <4>1. i > at  BY <2>1, <3>3, HarnessAssumption DEF Node
      <4>2. QED  BY <3>1, <4>1
    <3>4. node'[at] = "up"
      BY <2>1 DEF NodesOK
    <3>5. pc' \notin Running
      BY <3>2 DEF Gathering, Running
    <3>6. QED
      BY <2>5, <3>1, <3>2, <3>3, <3>4, <3>5 DEF ClusterOK
  <2>7. ReportOK' /\ VerdictOK'
    BY DEF ReportOK, VerdictOK, AfterCreate, Gathering
  <2>8. QED  BY <2>2, <2>3, <2>4, <2>6, <2>7
<1>4. CASE CreateFails
  <2> USE <1>4 DEF CreateFails
  <2>1. at \in Node /\ kill' = kill /\ at # 0
    BY DEF StepsOK
  <2>2. StepsOK'
    BY <1>2, <2>1, NodeRange DEF StepsOK, Stages, AfterCreate, Following
  <2>3. NodesOK' /\ Up \subseteq Up'
    <3>1. at >= at
      BY <2>1, HarnessAssumption DEF Node
    <3>2. node[at] = "none"
      BY <2>1, <3>1 DEF ClusterOK
    <3>3. QED  BY <2>1, <3>2 DEF NodesOK, Up
  <2>4. LinksOK'
    BY <2>3 DEF LinksOK
  <2>5. node'[0] = "up"
    BY <2>1, NodeRange DEF ClusterOK, Gathering, NodesOK
  <2>6. ClusterOK'
    <3>1. ASSUME NEW i \in Node, i > at PROVE node'[i] = "none"
      <4>1. i >= at /\ i # at
        BY <2>1, <3>1, HarnessAssumption DEF Node
      <4>2. node[i] = "none"
        BY <4>1 DEF ClusterOK
      <4>3. QED  BY <2>1, <4>1, <4>2 DEF NodesOK
    <3>2. pc' \in {"create", "converge"} /\ (pc' = "create" => at' = at + 1)
      BY DEF AfterCreate, Following
    <3>3. ASSUME NEW i \in Node, i >= at + 1 PROVE node'[i] = "none"
      <4>1. i > at  BY <2>1, <3>3, HarnessAssumption DEF Node
      <4>2. QED  BY <3>1, <4>1
    <3>4. pc' \notin Running
      BY <3>2 DEF Gathering, Running
    <3>5. QED
      BY <2>5, <3>2, <3>3, <3>4 DEF ClusterOK
  <2>7. ReportOK' /\ VerdictOK'
    BY DEF ReportOK, VerdictOK, AfterCreate, Gathering
  <2>8. QED  BY <2>2, <2>3, <2>4, <2>6, <2>7
<1>5. CASE Dial
  <2> USE <1>5 DEF Dial
  <2>1. at \in Node /\ kill' = kill /\ at # 0
    BY DEF StepsOK
  <2>2. StepsOK'
    BY <1>2, <2>1, NodeRange DEF StepsOK, Stages, AfterCreate, Following
  <2>3. NodesOK' /\ Up' = Up
    BY DEF NodesOK, Up
  <2>4. LinksOK'
    <3>1. {0, at} \in SUBSET Up
      BY <2>1, NodeRange DEF ClusterOK, Gathering, Up
    <3>2. {0, at} \in Link
      <4>1. 0 # at /\ {0, at} \in SUBSET Node  BY <2>1, NodeRange
      <4>2. Cardinality({0} \cup {at}) = 2
        <5>1. IsFiniteSet({0}) /\ Cardinality({0}) = 1 /\ at \notin {0}
          BY <4>1, FS_Singleton
        <5>2. QED  BY <5>1, FS_AddElement
      <4>3. {0} \cup {at} = {0, at}
        OBVIOUS
      <4>4. QED  BY <4>1, <4>2, <4>3 DEF Link
    <3>3. QED  BY <2>3, <3>1, <3>2 DEF LinksOK
  <2>5. ClusterOK'
    <3>1. pc' \in {"create", "converge"} /\ (pc' = "create" => at' = at + 1)
      BY DEF AfterCreate, Following
    <3>2. ASSUME NEW i \in Node, i >= at + 1 PROVE node'[i] = "none"
      <4>1. i > at  BY <2>1, <3>2, HarnessAssumption DEF Node
      <4>2. QED  BY <4>1 DEF ClusterOK
    <3>3. node'[0] = "up"
      BY DEF ClusterOK, Gathering
    <3>4. pc' \notin Running
      BY <3>1 DEF Gathering, Running
    <3>5. QED
      BY <3>1, <3>2, <3>3, <3>4 DEF ClusterOK
  <2>6. ReportOK' /\ VerdictOK'
    BY DEF ReportOK, VerdictOK, AfterCreate, Gathering
  <2>7. QED  BY <2>2, <2>3, <2>4, <2>5, <2>6
<1>6. CASE Converge
  <2> USE <1>6 DEF Converge, env
  <2>1. Up = Node
    BY ConvergedIsWhole DEF ClusterOK, Gathering
  <2>2. StepsOK'
    BY NodeRange, HarnessAssumption DEF StepsOK, Stages
  <2>3. NodesOK' /\ LinksOK' /\ ReportOK' /\ VerdictOK'
    BY DEF NodesOK, LinksOK, Up, ReportOK, VerdictOK, Gathering
  <2>4. ClusterOK'
    BY <2>1 DEF ClusterOK, Up, Gathering, Running
  <2>5. QED  BY <2>2, <2>3, <2>4
<1>7. CASE SpawnFails
  <2> USE <1>7 DEF SpawnFails, env
  <2>1. StepsOK'
    BY NodeRange DEF StepsOK, Stages
  <2>2. NodesOK' /\ LinksOK' /\ ClusterOK'
    BY DEF NodesOK, LinksOK, Up, ClusterOK, Gathering, Running
  <2>3. ReportOK' /\ VerdictOK'
    BY DEF ReportOK, VerdictOK, Gathering
  <2>4. QED  BY <2>1, <2>2, <2>3
<1>8. CASE Announce
  <2> USE <1>8 DEF Announce
  <2>1. at \in Node /\ kill' = kill
    BY DEF StepsOK
  <2>2. StepsOK'
    BY <1>2, <2>1, NodeRange DEF StepsOK, Stages, Following
  <2>3. NodesOK' /\ LinksOK'
    BY <2>1 DEF NodesOK, LinksOK, Up
  <2>4. ClusterOK' /\ ReportOK' /\ VerdictOK'
    BY DEF ClusterOK, ReportOK, VerdictOK, Gathering, Running, Stages
  <2>5. QED  BY <2>2, <2>3, <2>4
<1>9. CASE Announced
  <2> USE <1>9 DEF Announced
  <2>1. at \in Node /\ kill' = kill
    BY DEF StepsOK
  <2>2. StepsOK'
    BY <1>2, <2>1, NodeRange DEF StepsOK, Stages, Following
  <2>3. NodesOK' /\ LinksOK'
    BY <2>1 DEF NodesOK, LinksOK, Up
  <2>4. ClusterOK' /\ ReportOK' /\ VerdictOK'
    BY DEF ClusterOK, ReportOK, VerdictOK, Gathering, Running, Stages
  <2>5. QED  BY <2>2, <2>3, <2>4
<1>10. QED
  BY <1>3, <1>4, <1>5, <1>6, <1>7, <1>8, <1>9 DEF Spawn

LEMMA BuryHInv == HInv /\ Bury => HInv'
<1> SUFFICES ASSUME HInv, Bury PROVE HInv'
    OBVIOUS
<1> USE DEF HInv
<1>1. CASE SkipTombstone
  <2> USE <1>1 DEF SkipTombstone, env
  <2>1. StepsOK'
    BY DEF StepsOK, Stages
  <2>2. NodesOK' /\ LinksOK' /\ ClusterOK'
    BY DEF NodesOK, LinksOK, Up, ClusterOK, Gathering, Running, Stages
  <2>3. ReportOK' /\ VerdictOK'
    BY DEF ReportOK, VerdictOK, Gathering
  <2>4. QED  BY <2>1, <2>2, <2>3
<1>2. CASE PublishTombstone
  <2> USE <1>2 DEF PublishTombstone
  <2>1. StepsOK'
    BY DEF StepsOK, Stages
  <2>2. LinksOK' /\ ClusterOK'
    BY DEF LinksOK, Up, ClusterOK, Gathering, Running, Stages
  <2>3. ReportOK' /\ VerdictOK'
    BY DEF ReportOK, VerdictOK, Gathering
  <2>4. NodesOK'
    BY DEF NodesOK
  <2>5. QED  BY <2>1, <2>2, <2>3, <2>4
<1>3. CASE TombstoneFails
  <2> USE <1>3 DEF TombstoneFails, env
  <2>1. StepsOK'
    BY DEF StepsOK, Stages
  <2>2. kill \in Node /\ kill # None
    BY HarnessAssumption DEF StepsOK, Node
  <2>3. NodesOK'
    BY <2>2 DEF NodesOK
  <2>4. LinksOK' /\ ClusterOK'
    BY DEF LinksOK, Up, ClusterOK, Gathering, Running, Stages
  <2>5. ReportOK' /\ VerdictOK'
    BY DEF ReportOK, VerdictOK, Gathering
  <2>6. QED  BY <2>1, <2>3, <2>4, <2>5
<1>4. CASE StopDoomed
  <2> USE <1>4 DEF StopDoomed
  <2>1. kill \in Node /\ kill # None
    BY HarnessAssumption DEF StepsOK, Node
  <2>2. StepsOK'
    BY <2>1, NodeRange, HarnessAssumption DEF StepsOK, Stages
  <2>3. NodesOK'
    BY <2>1 DEF NodesOK
  <2>4. LinksOK'
    <3>1. ASSUME NEW l \in link' PROVE l \in link /\ l \subseteq Up'
      BY <3>1 DEF Without, LinksOK, NodesOK, Up
    <3>2. QED  BY <3>1 DEF LinksOK
  <2>5. ClusterOK'
    BY <2>1 DEF ClusterOK, Gathering, Running, Stages, NodesOK
  <2>6. ReportOK' /\ VerdictOK'
    BY DEF ReportOK, VerdictOK, Gathering
  <2>7. QED  BY <2>2, <2>3, <2>4, <2>5, <2>6
<1>5. QED
  BY <1>1, <1>2, <1>3, <1>4 DEF Bury

LEMMA NodesHInv == HInv /\ pc # "returned" /\ Nodes => HInv'
<1> SUFFICES ASSUME HInv, pc # "returned", Nodes PROVE HInv'
    OBVIOUS
<1> USE DEF HInv
<1>1. CASE \E l \in Link : Connect(l) \/ Disconnect(l)
  <2>1. PICK l \in Link : Connect(l) \/ Disconnect(l)
    BY <1>1
  <2> USE <2>1 DEF Connect, Disconnect
  <2>2. StepsOK' /\ NodesOK'
    BY DEF StepsOK, NodesOK
  <2>3. LinksOK'
    BY DEF LinksOK, Up
  <2>4. ClusterOK'
    BY DEF ClusterOK
  <2>5. ReportOK' /\ VerdictOK'
    BY DEF ReportOK, VerdictOK
  <2>6. QED  BY <2>2, <2>3, <2>4, <2>5
<1>2. CASE \E i \in Node : PutRecord(i)
  <2>1. PICK i \in Node : PutRecord(i)
    BY <1>2
  <2> USE <2>1 DEF PutRecord
  <2>2. StepsOK' /\ NodesOK'
    BY DEF StepsOK, NodesOK
  <2>3. LinksOK' /\ ClusterOK'
    BY DEF LinksOK, Up, ClusterOK
  <2>4. ReportOK' /\ VerdictOK'
    BY DEF ReportOK, VerdictOK
  <2>5. QED  BY <2>2, <2>3, <2>4
<1>3. QED  BY <1>1, <1>2 DEF Nodes

LEMMA StopAllHInv == HInv /\ StopAll => HInv'
<1> SUFFICES ASSUME HInv, StopAll PROVE HInv'
    OBVIOUS
<1> USE DEF HInv, StopAll
<1>1. StepsOK'
  BY DEF StepsOK, Stages
<1>2. NodesOK'
  BY DEF NodesOK, Stopped
<1>3. LinksOK'
  <2>1. ASSUME NEW l \in link' PROVE l \in link /\ l \subseteq Up'
    BY <2>1 DEF LinksOK, NodesOK, Up, Stopped
  <2>2. QED  BY <2>1 DEF LinksOK
<1>4. ClusterOK'
  BY DEF ClusterOK, Gathering, Running
<1>5. ReportOK'
  BY DEF ReportOK, Gathering
<1>6. VerdictOK'
  BY DEF VerdictOK, Health, Connectivity, Discovery, Tombstone
<1>7. QED  BY <1>1, <1>2, <1>3, <1>4, <1>5, <1>6

LEMMA VerifyHInv == HInv /\ Verify => HInv'
<1> SUFFICES ASSUME HInv, Verify PROVE HInv'
    OBVIOUS
<1> USE DEF HInv
<1>1. CASE VerifyTopology
  <2> USE <1>1 DEF VerifyTopology, env
  <2>1. StepsOK'
    BY Square, HarnessAssumption DEF StepsOK, Stages
  <2>2. NodesOK' /\ LinksOK' /\ ClusterOK'
    BY DEF NodesOK, LinksOK, Up, ClusterOK, Gathering, Running, Stages
  <2>3. Edges \in 0..Cardinality(Link)
    BY FiniteLink DEF Edges, LinksOK
  <2>4. Cardinality({i \in announced : Isolated(i)}) \in 0..N
    BY CountNodes DEF NodesOK
  <2> DEFINE count == Cardinality({i \in announced : Isolated(i)})
  <2>5. /\ report' = [report EXCEPT !.edges = Edges, !.isolated = count]
        /\ report.found = 0 /\ report.stale = 0
    BY DEF ReportOK
  <2> HIDE DEF count
  <2>6. count \in 0..N
    BY <2>4 DEF count
  <2>7. ReportOK'
    <3>1. /\ report' \in [edges : 0..Cardinality(Link), isolated : 0..N, found : Nat,
                          absent : BOOLEAN, stale : Nat]
          /\ report'.found = 0 /\ report'.stale = 0
      BY <2>3, <2>5, <2>6 DEF ReportOK
    <3>2. pc' \in {"discover", "publish"} /\ (pc' = "discover" => at' = 1)
      OBVIOUS
    <3>3. QED
      BY <3>1, <3>2, Square, HarnessAssumption DEF ReportOK, Gathering
  <2>8. VerdictOK'
    BY DEF VerdictOK
  <2>9. QED  BY <2>1, <2>2, <2>7, <2>8
<1>2. CASE VerifyCrossDiscovery
  <2> USE <1>2 DEF VerifyCrossDiscovery, env
  <2>1. NextPair \in Nat /\ NextPair > at /\ at \in Nat
    BY DEF NextPair, StepsOK
  <2>2. StepsOK'
    BY <2>1, HarnessAssumption DEF StepsOK, Stages
  <2>3. NodesOK' /\ LinksOK' /\ ClusterOK'
    BY DEF NodesOK, LinksOK, Up, ClusterOK, Gathering, Running, Stages
  <2>4. PICK d \in {0, 1} : report' = [report EXCEPT !.found = @ + d]
    BY DEF Discovered
  <2>5. /\ report' \in [edges : 0..Cardinality(Link), isolated : 0..N, found : Nat,
                        absent : BOOLEAN, stale : Nat]
        /\ report'.found = report.found + d
        /\ report'.stale = report.stale /\ report'.absent = report.absent
    BY <2>4 DEF ReportOK
  <2>6. report.found \in Nat /\ report.found < at /\ at < N * N
    BY DEF ReportOK, StepsOK
  <2>7. ReportOK'
    <3>1. report'.found <= at
      BY <2>1, <2>5, <2>6
    <3>2. pc' = "discover" => report'.found < at'
      BY <2>1, <2>5, <3>1
    <3>3. report'.found <= N * N
      BY <2>1, <2>5, <2>6, <3>1, Square
    <3>4. pc' \in {"discover", "publish"}
      OBVIOUS
    <3>5. QED
      BY <2>5, <3>2, <3>3, <3>4 DEF ReportOK, Gathering
  <2>8. VerdictOK'
    BY DEF VerdictOK
  <2>9. QED  BY <2>2, <2>3, <2>7, <2>8
<1>3. CASE VerifyTombstone
  <2> USE <1>3 DEF VerifyTombstone, env
  <2>1. StepsOK'
    BY HarnessAssumption DEF StepsOK, Stages
  <2>2. NodesOK' /\ LinksOK' /\ ClusterOK'
    BY DEF NodesOK, LinksOK, Up, ClusterOK, Gathering, Running, Stages
  <2>3. PICK v \in held[kill] \cup {None} :
            report' = [report EXCEPT !.absent = @ /\ v = None,
                                     !.stale = IF v = "config" THEN @ + 1 ELSE @]
    BY DEF Found
  <2>4. v = "config" => v # None
    BY HarnessAssumption
  <2> DEFINE absent == report.absent /\ v = None
             stale == IF v = "config" THEN report.stale + 1 ELSE report.stale
  <2>5. /\ report' = [report EXCEPT !.absent = absent, !.stale = stale]
        /\ stale \in Nat
    BY <2>3 DEF ReportOK
  <2>6. absent \in BOOLEAN
    OBVIOUS
  <2> HIDE DEF absent, stale
  <2>7. /\ report' \in [edges : 0..Cardinality(Link), isolated : 0..N, found : Nat,
                         absent : BOOLEAN, stale : Nat]
         /\ report'.found = report.found
         /\ report'.stale = stale /\ report'.absent = absent
    BY <2>5, <2>6 DEF ReportOK
  <2>8. /\ report' \in [edges : 0..Cardinality(Link), isolated : 0..N, found : Nat,
                        absent : BOOLEAN, stale : Nat]
        /\ report'.found = report.found
        /\ report'.stale = (IF v = "config" THEN report.stale + 1 ELSE report.stale)
    BY <2>7 DEF stale
  <2>9. report'.absent = (report.absent /\ v = None)
    BY <2>7 DEF absent
  <2>10. report'.stale > 0 => report'.absent = FALSE
    <3>1. CASE v = "config"
      BY <2>4, <2>9, <3>1
    <3>2. CASE v # "config"
      <4>1. report'.stale = report.stale
        BY <2>8, <3>2
      <4>2. report.stale > 0 => report.absent = FALSE
        BY DEF ReportOK
      <4>3. QED  BY <2>9, <4>1, <4>2
    <3>3. QED  BY <3>1, <3>2
  <2>11. ReportOK'
    <3>1. report.stale <= at /\ report.stale \in Nat /\ at \in Nat /\ at < N
      BY DEF ReportOK, StepsOK
    <3>2. report'.stale <= at' /\ report'.stale <= N
      BY <2>8, <3>1, HarnessAssumption
    <3>3. report.found <= N * N
      BY DEF ReportOK
    <3>4. QED
      BY <2>8, <2>10, <3>2, <3>3 DEF ReportOK, Gathering
  <2>12. VerdictOK'
    BY DEF VerdictOK
  <2>13. QED  BY <2>1, <2>2, <2>11, <2>12
<1>4. CASE TombstoneVerified
  <2> USE <1>4 DEF TombstoneVerified, env
  <2>1. StepsOK'
    BY DEF StepsOK, Stages
  <2>2. NodesOK' /\ LinksOK' /\ ClusterOK'
    BY DEF NodesOK, LinksOK, Up, ClusterOK, Gathering, Running, Stages
  <2>3. ReportOK' /\ VerdictOK'
    BY DEF ReportOK, VerdictOK, Gathering
  <2>4. QED  BY <2>1, <2>2, <2>3
<1>5. QED
  BY <1>1, <1>2, <1>3, <1>4 DEF Verify

LEMMA NextHInv == HInv /\ [Next]_vars => HInv'
<1>1. ASSUME HInv, UNCHANGED vars PROVE HInv'
  <2> USE <1>1 DEF HInv, vars, env
  <2>1. StepsOK' /\ NodesOK'
    BY DEF StepsOK, NodesOK
  <2>2. LinksOK' /\ ClusterOK'
    BY DEF LinksOK, Up, ClusterOK
  <2>3. ReportOK' /\ VerdictOK'
    BY DEF ReportOK, VerdictOK
  <2>4. QED  BY <2>1, <2>2, <2>3
<1>2. QED
  BY <1>1, SpawnHInv, VerifyHInv, BuryHInv, StopAllHInv, NodesHInv DEF Next, RunHarness

\* The invariant holds in clusters of any size.
THEOREM HarnessInvariant == Spec => []HInv
<1>1. QED  BY InitHInv, NextHInv, PTL DEF Spec

-----------------------------------------------------------------------------
(* What follows from it.                                                   *)

\* Every variable keeps its range; the counts of the report never pass the number
\* of the connections, of the nodes and of the pairs of nodes.
THEOREM TypeCorrect == Spec => []TypeOK
<1>1. ASSUME HInv PROVE TypeOK
  <2> USE <1>1 DEF HInv
  <2>1. at \in 0..(N * N)
    <3>1. at \in Nat /\ (at < N * N \/ at <= N)
      BY DEF StepsOK
    <3>2. QED  BY <3>1, Square, HarnessAssumption
  <2>2. report \in Report
    <3>1. /\ report \in [edges : 0..Cardinality(Link), isolated : 0..N, found : Nat,
                         absent : BOOLEAN, stale : Nat]
          /\ report.found <= N * N /\ report.stale <= N
      BY DEF ReportOK
    <3>2. report.found \in 0..(N * N) /\ report.stale \in 0..N
      BY <3>1, Square, HarnessAssumption
    <3>3. QED  BY <3>1, <3>2 DEF Report
  <2>3. verdict \in {"GREEN", "YELLOW", "RED", None}
    BY DEF VerdictOK, StepsOK, Health
  <2>4. QED
    BY <2>1, <2>2, <2>3 DEF TypeOK, StepsOK, NodesOK, LinksOK, VerdictOK
<1>2. QED  BY <1>1, HarnessInvariant, PTL

\* A cluster that has converged is the whole one, so that what is verified is
\* verified of every node.
THEOREM WholeCluster == Spec => []VerifiesWholeCluster
<1>1. HInv => VerifiesWholeCluster
  BY DEF HInv, StepsOK, ClusterOK, VerifiesWholeCluster, Running, Gathering
<1>2. QED  BY <1>1, HarnessInvariant, PTL

\* One survivor with a stale record makes the verdict RED, however large the
\* cluster: the tombstone score is below one half and no other score outweighs it.
THEOREM StaleFails == Spec => []StaleRecordFails
<1>1. ASSUME HInv PROVE StaleRecordFails
  <2> USE <1>1 DEF HInv
  <2>1. SUFFICES ASSUME report.stale > 0 PROVE verdict \notin {"GREEN", "YELLOW"}
    BY DEF StaleRecordFails, Success
  <2>2. report.stale \in Nat /\ report.absent = FALSE
    BY <2>1 DEF ReportOK
  <2>3. Tombstone(report) = <<NonNegative(5 - report.stale), 10>>
    BY <2>2 DEF Tombstone
  <2>4. NonNegative(5 - report.stale) \in 0..4
    BY <2>1, <2>2 DEF NonNegative
  <2>5. Below50(Tombstone(report)) /\ ~Above80(Tombstone(report))
    BY <2>3, <2>4 DEF Below50, Above80
  <2>6. Health(report) = "RED"
    BY <2>5 DEF Health
  <2>7. verdict \in {"RED", None}
    BY <2>6 DEF VerdictOK
  <2>8. QED  BY <2>7, HarnessAssumption
<1>2. QED  BY <1>1, HarnessInvariant, PTL
-----------------------------------------------------------------------------
(* What the discovery score counts.                                        *)

\* The nodes under whose key the DHT holds something.
Published == {i \in Node : held[i] # {}}

\* The queries with an index below k whose target is in P.
Asked(P, k) == {p \in Node \X P : p[1] # p[2] /\ N * p[1] + p[2] < k}

\* The loop is never at a pair of equal nodes, and every record found has been
\* found of a node that has published one.
CountOK ==
    /\ pc = "discover" => /\ at % (N + 1) # 0
                          /\ report.found <= Cardinality(Asked(Published, at))
    /\ pc # "discover" => report.found <= (N - 1) * Cardinality(Published)

\* The index of the loop, taken apart: a querier and a target, which differ.
LEMMA Pairs ==
  ASSUME NEW k \in Nat, k < N * N, k % (N + 1) # 0
  PROVE  \E q, t \in Node : /\ q = k \div N /\ t = k % N
                           /\ k = N * q + t /\ q # t
<1>1. N \in Int /\ N > 0 /\ N \in Nat \ {0}
  BY HarnessAssumption
<1>2. PICK q \in Int : q = k \div N
  BY <1>1
<1>3. PICK t \in Int : t = k % N
  BY <1>1
<1>4. k = N * q + t
  BY <1>1, <1>2, <1>3
<1>5. t >= 0 /\ t < N
  BY <1>1, <1>3
<1>6. q >= 0
  BY <1>1, <1>2
<1>7. q < N
  BY <1>1, <1>4, <1>5, <1>6
<1>8. q # t
  <2>1. SUFFICES ASSUME q = t PROVE FALSE
    OBVIOUS
  <2>2. k = (N + 1) * q
    BY <1>1, <1>4, <2>1
  <2>3. \A m \in Nat \ {0}, x \in Nat : (m * x) % m = 0
    OBVIOUS
  <2>4. N + 1 \in Nat \ {0} /\ q \in Nat
    BY <1>1, <1>6
  <2>5. ((N + 1) * q) % (N + 1) = 0
    BY <2>3, <2>4
  <2>6. QED
    BY <2>2, <2>5
<1>9. q \in Node /\ t \in Node
  BY <1>1, <1>5, <1>6, <1>7 DEF Node
<1>10. QED
  BY <1>2, <1>3, <1>4, <1>8, <1>9

\* More nodes and more queries only add to those counted.
LEMMA AskedGrows ==
  ASSUME NEW Q \in SUBSET Node, NEW P \in SUBSET Q, NEW m \in Nat,
         NEW k \in Nat, k <= m
  PROVE  /\ IsFiniteSet(Asked(Q, m)) /\ Cardinality(Asked(Q, m)) \in Nat
         /\ Cardinality(Asked(P, k)) \in Nat
         /\ Cardinality(Asked(P, k)) <= Cardinality(Asked(Q, m))
<1>1. IsFiniteSet(Q)
  BY FiniteNode, FS_Subset
<1>2. IsFiniteSet(Node \X Q)
  BY <1>1, FiniteNode, FS_Product
<1>3. Asked(Q, m) \subseteq Node \X Q
  BY DEF Asked
<1>4. IsFiniteSet(Asked(Q, m))
  BY <1>2, <1>3, FS_Subset
<1>5. Asked(P, k) \subseteq Asked(Q, m)
  <2> SUFFICES ASSUME NEW p \in Node \X P, N * p[1] + p[2] < k
               PROVE  p \in Node \X Q /\ N * p[1] + p[2] < m
    BY DEF Asked
  <2>1. p[1] \in Nat /\ p[2] \in Nat
    BY NodeRange
  <2>2. N * p[1] + p[2] \in Nat
    BY <2>1, HarnessAssumption
  <2>3. QED
    BY <2>2
<1>6. QED
  BY <1>4, <1>5, FS_Subset, FS_CardinalityType

\* Of each node that is asked for, all but itself ask.
LEMMA AskedBound ==
  ASSUME NEW P \in SUBSET Node, NEW k \in Nat
  PROVE  /\ Cardinality(P) \in 0..N
         /\ Cardinality(Asked(P, k)) <= (N - 1) * Cardinality(P)
<1> DEFINE same == {<<t, t>> : t \in P}
           f == [t \in P |-> <<t, t>>]
           A == Asked(P, k)
<1>1. IsFiniteSet(P) /\ Cardinality(P) \in 0..N
  BY FiniteNode, FS_Subset, CountNodes
<1>2. /\ IsFiniteSet(Node \X P)
      /\ Cardinality(Node \X P) = N * Cardinality(P)
  BY <1>1, FiniteNode, FS_Product
<1>3. A \subseteq Node \X P /\ same \subseteq Node \X P /\ A \cap same = {}
  BY DEF Asked
<1>4. IsFiniteSet(A) /\ IsFiniteSet(same)
  BY <1>2, <1>3, FS_Subset
<1>5. f \in Injection(P, same)
  <2>1. f \in [P -> same]
    OBVIOUS
  <2>2. \A s, t \in P : f[s] = f[t] => s = t
    OBVIOUS
  <2>3. QED
    BY <2>1, <2>2 DEF Injection, IsInjective
<1> HIDE DEF same, f, A
<1>6. Cardinality(P) <= Cardinality(same)
  BY <1>4, <1>5, FS_Injection
<1>7. Cardinality(A \cup same) = Cardinality(A) + Cardinality(same)
  <2>1. Cardinality(A \cap same) = 0
    BY <1>3, FS_EmptySet
  <2>2. Cardinality(A) \in Nat /\ Cardinality(same) \in Nat
    BY <1>4, FS_CardinalityType
  <2>3. Cardinality(A \cup same)
          = Cardinality(A) + Cardinality(same) - Cardinality(A \cap same)
    BY <1>4, FS_Union
  <2>4. QED
    BY <2>1, <2>2, <2>3
<1>8. Cardinality(A \cup same) <= N * Cardinality(P)
  <2>1. A \cup same \subseteq Node \X P
    BY <1>3
  <2>2. Cardinality(A \cup same) <= Cardinality(Node \X P)
    BY <1>2, <2>1, FS_Subset
  <2>3. QED
    BY <1>2, <2>2
<1>9. Cardinality(A) \in Nat /\ Cardinality(same) \in Nat
  BY <1>4, FS_CardinalityType
<1>10. Cardinality(A) <= N * Cardinality(P) - Cardinality(P)
  <2>1. N * Cardinality(P) \in Nat
    BY <1>1, HarnessAssumption
  <2>2. QED
    BY <1>1, <1>6, <1>7, <1>8, <1>9, <2>1
<1>11. N * Cardinality(P) - Cardinality(P) = (N - 1) * Cardinality(P)
  BY <1>1, HarnessAssumption
<1>12. QED
  BY <1>1, <1>10, <1>11 DEF A

\* A record under a key stays, or gives way to a tombstone.
LEMMA PublishedStays ==
  ASSUME HInv, [Next]_vars
  PROVE  Published \subseteq Published' /\ Published' \subseteq Node
<1> SUFFICES ASSUME NEW i \in Node, held[i] # {} PROVE held'[i] # {}
  BY DEF Published
<1>1. held \in [Node -> SUBSET {"config", "tombstone"}]
  BY DEF HInv, NodesOK
<1>2. CASE PublishTombstone
  BY <1>1, <1>2 DEF PublishTombstone
<1>3. ASSUME NEW j \in Node, PutRecord(j) PROVE held'[i] # {}
  BY <1>1, <1>3 DEF PutRecord
<1>4. held' = held => held'[i] # {}
  OBVIOUS
<1>5. Spawn \/ Verify \/ StopAll \/ UNCHANGED vars => held' = held
  BY DEF Spawn, CreateNode, CreateFails, Dial, Converge, SpawnFails, Announce,
         Announced, Verify, VerifyTopology, VerifyCrossDiscovery, VerifyTombstone,
         TombstoneVerified, StopAll, vars, env
<1>6. SkipTombstone \/ TombstoneFails \/ StopDoomed => held' = held
  BY DEF SkipTombstone, TombstoneFails, StopDoomed, env
<1>7. ASSUME NEW l, Connect(l) \/ Disconnect(l) PROVE held' = held
  BY <1>7 DEF Connect, Disconnect
<1>8. QED
  BY <1>2, <1>3, <1>4, <1>5, <1>6, <1>7 DEF Next, RunHarness, Bury, Nodes

\* One query counts at most one record, of a node that it has not counted it of.
LEMMA QueryCounts ==
  ASSUME HInv, HInv', CountOK, VerifyCrossDiscovery
  PROVE  CountOK'
<1> DEFINE P == Published
<1>1. /\ pc = "discover" /\ at \in Nat /\ at < N * N /\ at % (N + 1) # 0
      /\ report.found \in Nat /\ report.found <= Cardinality(Asked(P, at))
  BY DEF VerifyCrossDiscovery, HInv, StepsOK, ReportOK, CountOK
<1>2. Published' = P /\ P \in SUBSET Node
  BY DEF VerifyCrossDiscovery, env, Published
<1>3. PICK q, t \in Node : /\ q = at \div N /\ t = at % N
                          /\ at = N * q + t /\ q # t
  BY <1>1, Pairs
<1>4. PICK d \in {0, 1} : /\ report'.found = report.found + d
                          /\ d = 1 => held[t] # {}
  <2>1. PICK v \in (IF node[Querier] = "up" THEN Found(Target) ELSE {None}) :
             report' = [report EXCEPT !.found = @ + Discovered(v)]
    BY DEF VerifyCrossDiscovery
  <2>2. Discovered(v) \in {0, 1} /\ (Discovered(v) = 1 => held[t] # {})
    BY <1>3, <2>1 DEF Discovered, Found, Target
  <2>3. report'.found = report.found + Discovered(v)
    BY <2>1 DEF HInv, ReportOK
  <2>4. QED
    BY <2>2, <2>3
<1>5. NextPair \in Nat /\ NextPair > at
  BY <1>1 DEF NextPair
<1> HIDE DEF P
<1>6. report'.found <= Cardinality(Asked(P, NextPair))
  <2>1. /\ Cardinality(Asked(P, at)) <= Cardinality(Asked(P, NextPair))
        /\ Cardinality(Asked(P, at)) \in Nat
        /\ Cardinality(Asked(P, NextPair)) \in Nat
        /\ IsFiniteSet(Asked(P, NextPair)) /\ IsFiniteSet(Asked(P, at))
    BY <1>1, <1>2, <1>5, AskedGrows
  <2>2. CASE d = 0
    BY <1>1, <1>4, <2>1, <2>2
  <2>3. CASE d = 1
    <3>1. t \in P
      BY <1>3, <1>4, <2>3 DEF P, Published
    <3>2. <<q, t>> \notin Asked(P, at)
      BY <1>1, <1>3 DEF Asked
    <3>3. <<q, t>> \in Asked(P, NextPair)
      BY <1>1, <1>3, <1>5, <3>1 DEF Asked
    <3>4. Asked(P, at) \subseteq Asked(P, NextPair)
      <4> SUFFICES ASSUME NEW p \in Node \X P, N * p[1] + p[2] < at
                   PROVE  N * p[1] + p[2] < NextPair
        BY DEF Asked
      <4>1. p[1] \in Nat /\ p[2] \in Nat
        BY <1>2, NodeRange
      <4>2. N * p[1] + p[2] \in Nat
        BY <4>1, HarnessAssumption
      <4>3. QED
        BY <1>1, <1>5, <4>2
    <3>5. Cardinality(Asked(P, at) \cup {<<q, t>>}) = Cardinality(Asked(P, at)) + 1
      BY <2>1, <3>2, FS_AddElement
    <3>6. Cardinality(Asked(P, at) \cup {<<q, t>>}) <= Cardinality(Asked(P, NextPair))
      BY <2>1, <3>3, <3>4, FS_Subset
    <3>7. QED
      BY <1>1, <1>4, <2>1, <2>3, <3>5, <3>6
  <2>4. QED
    BY <2>2, <2>3
<1>7. NextPair % (N + 1) # 0
  <2>1. N + 1 \in Nat \ {0} /\ N + 1 > 1 /\ at + 1 \in Nat
    BY <1>1, HarnessAssumption
  <2>2. \A m \in Nat \ {0}, a \in Nat : a % m = 0 /\ m > 1 => (a + 1) % m # 0
    OBVIOUS
  <2>3. at + 2 = (at + 1) + 1
    BY <1>1
  <2>4. QED
    BY <2>1, <2>2, <2>3 DEF NextPair
<1>8. CASE pc' = "discover" /\ at' = NextPair
  BY <1>2, <1>6, <1>7, <1>8 DEF CountOK
<1>9. CASE pc' = "publish"
  <2>1. /\ Cardinality(P) \in 0..N
        /\ Cardinality(Asked(P, NextPair)) <= (N - 1) * Cardinality(P)
    BY <1>2, <1>5, AskedBound
  <2>2. Cardinality(Asked(P, NextPair)) \in Nat /\ report'.found \in Nat
    BY <1>1, <1>2, <1>4, <1>5, AskedGrows
  <2>3. (N - 1) * Cardinality(P) \in Nat
    BY <2>1, HarnessAssumption
  <2>4. report'.found <= (N - 1) * Cardinality(P)
    BY <1>6, <2>1, <2>2, <2>3
  <2>5. QED
    BY <1>2, <1>9, <2>4 DEF CountOK
<1>10. QED
  BY <1>1, <1>8, <1>9 DEF VerifyCrossDiscovery

\* No other step counts anything.
LEMMA CountStill ==
  ASSUME HInv, HInv', CountOK, [Next]_vars, report'.found = report.found,
         \/ pc = "discover" /\ pc' = "discover" /\ at' = at
         \/ pc # "discover" /\ pc' # "discover"
  PROVE  CountOK'
<1>1. Published \subseteq Published' /\ Published' \subseteq Node
  BY PublishedStays
<1> DEFINE P == Published
           Q == Published'
<1>2. P \in SUBSET Q /\ Q \in SUBSET Node /\ P \in SUBSET Node
  BY <1>1
<1>3. report.found \in Nat /\ at \in Nat
  BY DEF HInv, ReportOK, StepsOK
<1> HIDE DEF P, Q
<1>4. CASE pc = "discover" /\ pc' = "discover" /\ at' = at
  <2>1. /\ Cardinality(Asked(P, at)) \in Nat /\ Cardinality(Asked(Q, at)) \in Nat
        /\ Cardinality(Asked(P, at)) <= Cardinality(Asked(Q, at))
    BY <1>2, <1>3, AskedGrows
  <2>2. at % (N + 1) # 0 /\ report.found <= Cardinality(Asked(P, at))
    BY <1>4 DEF CountOK, P
  <2>3. report.found <= Cardinality(Asked(Q, at))
    BY <1>3, <2>1, <2>2
  <2>4. at' % (N + 1) # 0 /\ report'.found <= Cardinality(Asked(Q, at'))
    BY <1>4, <2>2, <2>3
  <2>5. QED
    BY <1>4, <2>4 DEF CountOK, Q, Asked
<1>5. CASE pc # "discover" /\ pc' # "discover"
  <2>1. report.found <= (N - 1) * Cardinality(P)
    BY <1>5 DEF CountOK, P
  <2>2. /\ Cardinality(P) \in 0..N /\ Cardinality(Q) \in 0..N
        /\ Cardinality(P) <= Cardinality(Q)
    BY <1>2, CountNodes, FiniteNode, FS_Subset
  <2>3. (N - 1) * Cardinality(P) <= (N - 1) * Cardinality(Q)
    BY <2>2, HarnessAssumption
  <2>4. (N - 1) * Cardinality(P) \in Nat /\ (N - 1) * Cardinality(Q) \in Nat
    BY <2>2, HarnessAssumption
  <2>5. report.found <= (N - 1) * Cardinality(Q)
    BY <1>3, <2>1, <2>3, <2>4
  <2>6. QED
    BY <1>5, <2>5 DEF CountOK, Q
<1>6. QED
  BY <1>4, <1>5

LEMMA InitCount == Init => CountOK
<1> SUFFICES ASSUME Init PROVE CountOK
  OBVIOUS
<1>1. report.found = 0 /\ pc # "discover" /\ Published \in SUBSET Node
  BY DEF Init, EmptyReport, Published
<1>2. Cardinality(Published) \in 0..N
  BY <1>1, CountNodes
<1>3. 0 <= (N - 1) * Cardinality(Published)
  BY <1>2, HarnessAssumption
<1>4. QED
  BY <1>1, <1>3 DEF CountOK

\* The loop starts at the first pair, and not at all in a cluster of one.
LEMMA TopologyCounts ==
  ASSUME HInv, HInv', CountOK, VerifyTopology
  PROVE  CountOK'
<1>1. report.found = 0 /\ report'.found = 0
  BY DEF HInv, ReportOK, VerifyTopology
<1>2. /\ pc' = (IF N > 1 THEN "discover" ELSE "publish")
      /\ at' = (IF N > 1 THEN 1 ELSE 0)
      /\ Published' = Published /\ Published \in SUBSET Node
  BY DEF VerifyTopology, env, Published
<1>3. CASE N > 1
  <2>1. 1 % (N + 1) # 0
    BY <1>3, HarnessAssumption
  <2>2. Cardinality(Asked(Published, 1)) \in Nat
    BY <1>2, AskedGrows
  <2>3. 0 <= Cardinality(Asked(Published, 1))
    BY <2>2
  <2>4. QED
    BY <1>1, <1>2, <1>3, <2>1, <2>3 DEF CountOK
<1>4. CASE ~(N > 1)
  <2>1. Cardinality(Published) \in 0..N
    BY <1>2, CountNodes
  <2>2. 0 <= (N - 1) * Cardinality(Published)
    BY <2>1, HarnessAssumption
  <2>3. QED
    BY <1>1, <1>2, <1>4, <2>2 DEF CountOK
<1>5. QED
  BY <1>3, <1>4

LEMMA NextCount == HInv /\ CountOK /\ [Next]_vars => CountOK'
<1> SUFFICES ASSUME HInv, CountOK, [Next]_vars PROVE CountOK'
  OBVIOUS
<1>1. HInv'
  BY NextHInv
<1>2. CASE VerifyCrossDiscovery
  BY <1>1, <1>2, QueryCounts
<1>3. CASE VerifyTopology
  BY <1>1, <1>3, TopologyCounts
<1>4. CASE Nodes \/ UNCHANGED vars
  <2>1. UNCHANGED <<pc, at, report>>
    BY <1>4 DEF Nodes, Connect, Disconnect, PutRecord, vars
  <2>2. report'.found = report.found
    BY <2>1
  <2>3. CASE pc = "discover"
    <3>1. pc' = "discover" /\ at' = at
      BY <2>1, <2>3
    <3>2. QED
      BY <1>1, <2>2, <2>3, <3>1, CountStill
  <2>4. CASE pc # "discover"
    <3>1. pc' # "discover"
      BY <2>1, <2>4
    <3>2. QED
      BY <1>1, <2>2, <2>4, <3>1, CountStill
  <2>5. QED
    BY <2>3, <2>4
<1>5. CASE Spawn \/ Bury \/ StopAll \/ TombstoneVerified
  <2>1. pc # "discover" /\ pc' # "discover" /\ report' = report
    BY <1>5
    DEF Spawn, CreateNode, CreateFails, Dial, Converge, SpawnFails, Announce,
        Announced, AfterCreate, Bury, SkipTombstone, PublishTombstone,
        TombstoneFails, StopDoomed, StopAll, TombstoneVerified
  <2>2. QED
    BY <1>1, <2>1, CountStill
<1>6. CASE VerifyTombstone
  <2>1. pc # "discover" /\ pc' # "discover"
    BY <1>6 DEF VerifyTombstone
  <2>2. report'.found = report.found
    BY <1>6 DEF VerifyTombstone, HInv, ReportOK
  <2>3. QED
    BY <1>1, <2>1, <2>2, CountStill
<1>7. QED
  BY <1>2, <1>3, <1>4, <1>5, <1>6 DEF Next, RunHarness, Verify

\* The discovery score of a cluster that succeeds is at least one half, and a
\* query finds only what was put: in clusters of any size half of the nodes have
\* put their record, and every node of a GREEN cluster of up to five.
THEOREM SuccessRecords == Spec => []SuccessNeedsRecords
<1>1. ASSUME HInv, CountOK PROVE SuccessNeedsRecords
  <2> DEFINE h == Cardinality(Published)
             f == report.found
  <2>1. h \in 0..N
    BY <1>1, CountNodes DEF Published
  <2>2. f \in Nat
    BY <1>1 DEF HInv, ReportOK
  <2>3. ASSUME Success PROVE f <= (N - 1) * h /\ verdict = Health(report)
    <3>1. pc = "returned"
      BY <1>1, <2>3, HarnessAssumption DEF HInv, VerdictOK, Success
    <3>2. QED
      BY <1>1, <2>3, <3>1 DEF HInv, VerdictOK, Success, CountOK
  <2>4. ASSUME Success
        PROVE  ~Below50(Discovery(report)) \/ Above80(Discovery(report))
    BY <2>3, <2>4 DEF Health, Success
  <2>5. ASSUME verdict = "GREEN" PROVE Above80(Discovery(report))
    BY <2>3, <2>5 DEF Health, Success
  <2>6. N > 1 => Discovery(report) = <<f, N * (N - 1)>>
    BY DEF Discovery
  <2>7. Success => N > 1
    BY <2>4, HarnessAssumption DEF Discovery, Below50, Above80
  <2> HIDE DEF h, f
  <2>8. ASSUME Success PROVE 2 * h >= N
    <3>1. f <= (N - 1) * h /\ N > 1 /\ N * (N - 1) \in Nat
      BY <2>3, <2>7, <2>8, HarnessAssumption DEF h, f
    <3>2. 2 * f >= N * (N - 1)
      BY <2>2, <2>4, <2>6, <2>8, <3>1 DEF Below50, Above80
    <3>3. h \in Nat /\ N \in Nat
      BY <2>1, HarnessAssumption
    <3>4. QED
      BY <2>2, <3>1, <3>2, <3>3
  <2>9. ASSUME verdict = "GREEN", N <= 5 PROVE h = N
    <3>1. Success
      BY <2>9 DEF Success
    <3>2. f <= (N - 1) * h /\ N > 1 /\ N * (N - 1) \in Nat
      BY <2>3, <2>7, <3>1, HarnessAssumption DEF h, f
    <3>3. 5 * f > 4 * (N * (N - 1))
      BY <2>2, <2>5, <2>6, <2>9, <3>2 DEF Above80
    <3>4. h \in Nat /\ N \in Nat
      BY <2>1, HarnessAssumption
    <3>5. 5 * h > 4 * N
      BY <2>2, <3>2, <3>3, <3>4
    <3>6. QED
      BY <2>1, <2>9, <3>4, <3>5
  <2>10. QED
    BY <2>8, <2>9 DEF SuccessNeedsRecords, h, Published
<1>2. QED
  BY <1>1, InitCount, NextCount, HarnessInvariant, PTL DEF Spec

=============================================================================
