--------------------------- MODULE ClusterSimProofs ---------------------------
(***************************************************************************)
(* Proofs about ClusterSim, for simulations of any number of nodes.        *)
(***************************************************************************)
EXTENDS ClusterSim, FiniteSetTheorems, TLAPS

(* The inductive invariant, in parts.                                      *)

StagesOK ==
    /\ pc = "create" => todo = {} /\ busy = {}
    /\ pc = "bootstrap" => 0 \notin todo \cup busy

\* A node that has never had a connection has found nobody.
FoundOK ==
    /\ \A l \in link : l \subseteq met
    /\ \A i \in Node \ met : found[i] = {} /\ count[i] \in {0, None}

\* Who has been dealt with has been counted.
CountOK == pc = "discover" => \A i \in Node \ (todo \cup busy) : count[i] # None

CInv == TypeOK /\ StagesOK /\ FoundOK /\ CountOK /\ IsolatedNodeFails

-----------------------------------------------------------------------------

LEMMA FiniteNode == IsFiniteSet(Node) /\ Cardinality(Node) = N
<1>1. 0 \in Int /\ N - 1 \in Int /\ ~(0 > N - 1) /\ (N - 1) - 0 + 1 = N
  BY ClusterSimAssumption
<1>2. QED
  BY <1>1, FS_Interval DEF Node

\* No node has more peers than there are others.
LEMMA OthersBound ==
  ASSUME NEW i \in Node, NEW S \in SUBSET (Node \ {i})
  PROVE  Cardinality(S) \in 0..(N - 1)
<1>1. IsFiniteSet(Node \ {i}) /\ Cardinality(Node \ {i}) = N - 1
  BY FiniteNode, FS_RemoveElement
<1>2. IsFiniteSet(S) /\ Cardinality(S) <= N - 1
  BY <1>1, FS_Subset
<1>3. Cardinality(S) \in Nat
  BY <1>2, FS_CardinalityType
<1>4. QED
  BY <1>2, <1>3, ClusterSimAssumption

LEMMA Pair == ASSUME NEW i \in Node, NEW j \in Node, i # j PROVE {i, j} \in Link
<1>1. IsFiniteSet({i}) /\ Cardinality({i}) = 1
  BY FS_Singleton
<1>2. Cardinality({i} \cup {j}) = 2
  BY <1>1, FS_AddElement
<1>3. {i} \cup {j} = {i, j}
  OBVIOUS
<1>4. QED
  BY <1>2, <1>3 DEF Link

LEMMA ZeroNode == 0 \in Node
BY ClusterSimAssumption DEF Node

LEMMA InitCInv == Init => CInv
<1> SUFFICES ASSUME Init PROVE CInv
  OBVIOUS
<1>1. TypeOK
  <2>1. link \subseteq Link /\ success \in BOOLEAN /\ program \in Programs
    BY DEF Init
  <2>2. call \in [Node -> 1..3] /\ count \in [Node -> 0..(N - 1) \cup {None}]
    BY DEF Init
  <2>3. found \in [Node -> SUBSET Node] /\ \A i \in Node : i \notin found[i]
    BY DEF Init
  <2>4. QED
    BY <2>1, <2>2, <2>3 DEF Init, TypeOK, Stages
<1>2. StagesOK /\ FoundOK /\ CountOK /\ IsolatedNodeFails
  BY DEF Init, StagesOK, FoundOK, CountOK, IsolatedNodeFails
<1>3. QED
  BY <1>1, <1>2 DEF CInv

-----------------------------------------------------------------------------
(* One lemma per group of actions.                                         *)

LEMMA MainSteps ==
  ASSUME CInv, \/ \E i \in Node : Create(i)
               \/ NextStage
               \/ \E nodes \in SUBSET Node : Begin(nodes)
               \/ Throw
               \/ StopAll
  PROVE  CInv'
<1> USE DEF CInv
<1>1. CASE \E i \in Node : Create(i)
  <2> PICK i \in Node : Create(i)
    BY <1>1
  <2>1. TypeOK'
    BY DEF Create, TypeOK
  <2>2. (StagesOK /\ FoundOK /\ CountOK /\ IsolatedNodeFails)'
    BY DEF Create, StagesOK, FoundOK, CountOK, IsolatedNodeFails
  <2>3. QED  BY <2>1, <2>2
<1>2. CASE NextStage
  <2>1. TypeOK'
    BY <1>2 DEF NextStage, Enter, Concerned, mesh, TypeOK, Stages
  <2>2. (StagesOK /\ CountOK)'
    BY <1>2 DEF NextStage, Enter, Concerned, Over, mesh, StagesOK, CountOK
  <2>3. (FoundOK /\ IsolatedNodeFails)'
    BY <1>2 DEF NextStage, mesh, FoundOK, IsolatedNodeFails
  <2>4. QED  BY <2>1, <2>2, <2>3
<1>3. CASE \E nodes \in SUBSET Node : Begin(nodes)
  <2> PICK nodes \in SUBSET Node : Begin(nodes)
    BY <1>3
  <2>1. TypeOK'
    BY DEF Begin, TypeOK
  <2>2. (StagesOK /\ CountOK)'
    BY DEF Begin, StagesOK, CountOK
  <2>3. (FoundOK /\ IsolatedNodeFails)'
    BY DEF Begin, FoundOK, IsolatedNodeFails
  <2>4. QED  BY <2>1, <2>2, <2>3
<1>4. CASE Throw
  <2>1. TypeOK'
    BY <1>4 DEF Throw, mesh, TypeOK, Stages
  <2>2. (StagesOK /\ FoundOK /\ CountOK /\ IsolatedNodeFails)'
    BY <1>4 DEF Throw, mesh, StagesOK, FoundOK, CountOK, IsolatedNodeFails
  <2>3. QED  BY <2>1, <2>2
<1>5. CASE StopAll
  <2>1. TypeOK'
    BY <1>5 DEF StopAll, TypeOK, Stages
  <2>2. (StagesOK /\ FoundOK /\ CountOK /\ IsolatedNodeFails)'
    BY <1>5 DEF StopAll, StagesOK, FoundOK, CountOK, IsolatedNodeFails
  <2>3. QED  BY <2>1, <2>2
<1>6. QED
  BY <1>1, <1>2, <1>3, <1>4, <1>5

\* A connection is between two nodes, both of which have then met somebody.
LEMMA LinkSteps ==
  ASSUME CInv, \/ \E i \in Node : Dialed(i)
               \/ \E i, j \in Node : Connect(i, j)
               \/ \E l \in link : Disconnect(l)
               \/ \E i \in Node : Spread(i)
  PROVE  CInv'
<1> USE DEF CInv
<1>1. CASE \E i \in Node : Dialed(i)
  <2> PICK i \in Node : Dialed(i)
    BY <1>1
  <2>1. {0, i} \in Link
    BY ZeroNode, Pair DEF Dialed, StagesOK
  <2>2. TypeOK'
    BY <2>1, ZeroNode DEF Dialed, TypeOK
  <2>3. (StagesOK /\ CountOK)'
    BY DEF Dialed, StagesOK, CountOK
  <2>4. (FoundOK /\ IsolatedNodeFails)'
    BY DEF Dialed, FoundOK, IsolatedNodeFails
  <2>5. QED  BY <2>2, <2>3, <2>4
<1>2. CASE \E i, j \in Node : Connect(i, j)
  <2> PICK i \in Node, j \in Node : Connect(i, j)
    BY <1>2
  <2>1. {i, j} \in Link
    BY Pair DEF Connect
  <2>2. TypeOK'
    BY <2>1 DEF Connect, TypeOK
  <2>3. (StagesOK /\ CountOK)'
    BY DEF Connect, StagesOK, CountOK
  <2>4. (FoundOK /\ IsolatedNodeFails)'
    BY DEF Connect, FoundOK, IsolatedNodeFails
  <2>5. QED  BY <2>2, <2>3, <2>4
<1>3. CASE \E l \in link : Disconnect(l)
  <2>1. TypeOK'
    BY <1>3 DEF Disconnect, TypeOK
  <2>2. (StagesOK /\ FoundOK /\ CountOK /\ IsolatedNodeFails)'
    BY <1>3 DEF Disconnect, StagesOK, FoundOK, CountOK, IsolatedNodeFails
  <2>3. QED  BY <2>1, <2>2
<1>4. CASE \E i \in Node : Spread(i)
  <2>1. TypeOK'
    BY <1>4 DEF Spread, TypeOK
  <2>2. (StagesOK /\ FoundOK /\ CountOK /\ IsolatedNodeFails)'
    BY <1>4 DEF Spread, StagesOK, FoundOK, CountOK, IsolatedNodeFails
  <2>3. QED  BY <2>1, <2>2
<1>5. QED
  BY <1>1, <1>2, <1>3, <1>4

LEMMA CallSteps ==
  ASSUME CInv, NEW i \in Node, CallOver(i)
  PROVE  CInv'
<1> USE DEF CInv
<1>1. call' \in [Node -> 1..3] /\ busy' \subseteq busy
  BY DEF CallOver, TypeOK
<1>2. TypeOK'
  BY <1>1 DEF CallOver, mesh, TypeOK
<1>3. (StagesOK /\ FoundOK /\ CountOK /\ IsolatedNodeFails)'
  BY <1>1 DEF CallOver, mesh, StagesOK, FoundOK, CountOK, IsolatedNodeFails
<1>4. QED  BY <1>2, <1>3

\* Only a node with a peer is told of another.
LEMMA ProviderStep ==
  ASSUME CInv, NEW i \in Node, NEW j \in Node, Provider(i, j)
  PROVE  CInv'
<1> USE DEF CInv
<1>1. TypeOK'
  BY DEF Provider, Others, mesh, TypeOK
<1>2. (StagesOK /\ CountOK /\ IsolatedNodeFails)'
  BY DEF Provider, mesh, StagesOK, CountOK, IsolatedNodeFails
<1>3. i \notin met => Peers(i) = {}
  BY DEF FoundOK, Peers
<1>4. i \notin met => Others(i, j) = {}
  BY <1>3 DEF Provider, Others
<1>5. FoundOK'
  BY <1>4 DEF Provider, mesh, FoundOK, TypeOK
<1>6. QED  BY <1>1, <1>2, <1>5

LEMMA SearchStep ==
  ASSUME CInv, NEW i \in Node, SearchOver(i)
  PROVE  CInv'
<1> USE DEF CInv
<1>1. Counted(i) \in SUBSET (Node \ {i})
  BY DEF Counted, Peers, TypeOK
<1>2. Cardinality(Counted(i)) \in 0..(N - 1)
  BY <1>1, OthersBound
<1>3. i \notin met => Counted(i) = {}
  BY DEF Counted, FoundOK, Peers
<1>4. i \notin met => Cardinality(Counted(i)) = 0
  BY <1>3, FS_EmptySet
<1>5. TypeOK'
  BY <1>2 DEF SearchOver, mesh, TypeOK
<1>6. Cardinality(Counted(i)) # None
  BY <1>2, ClusterSimAssumption
<1>7. CountOK'
  BY <1>6 DEF SearchOver, CountOK, TypeOK
<1>8. FoundOK'
  BY <1>4 DEF SearchOver, mesh, FoundOK, TypeOK
<1>9. (StagesOK /\ IsolatedNodeFails)'
  BY DEF SearchOver, mesh, StagesOK, IsolatedNodeFails
<1>10. QED  BY <1>5, <1>7, <1>8, <1>9

\* A node that has met nobody counts none, and N - 1 is none for N = 1 only.
LEMMA VerdictStep ==
  ASSUME CInv, Verdict
  PROVE  CInv'
<1> USE DEF CInv
<1>1. ASSUME NEW i \in Node, i \notin met PROVE count[i] = 0
  BY <1>1 DEF Verdict, Over, CountOK, FoundOK
<1>2. ASSUME NEW i \in Node, i \notin met, FullMesh PROVE N = 1
  <2>1. 0 >= N - 1
    BY <1>1, <1>2 DEF FullMesh
  <2>2. QED  BY <2>1, ClusterSimAssumption
<1>3. ASSUME NEW i \in Node, i \notin met, AllDiscovered PROVE FALSE
  <2>1. 0 >= 1
    BY <1>1, <1>3 DEF AllDiscovered
  <2>2. QED  BY <2>1
<1>4. FullMesh \/ AllDiscovered => N = 1 \/ Node \subseteq met
  BY <1>2, <1>3
<1>5. IsolatedNodeFails'
  BY <1>4 DEF Verdict, mesh, IsolatedNodeFails
<1>6. success' \in BOOLEAN
  BY DEF Verdict
<1>7. TypeOK'
  BY <1>6 DEF Verdict, mesh, TypeOK, Stages
<1>8. (StagesOK /\ FoundOK /\ CountOK)'
  BY DEF Verdict, mesh, StagesOK, FoundOK, CountOK
<1>9. QED  BY <1>5, <1>7, <1>8

LEMMA NextCInv == CInv /\ [Next]_vars => CInv'
<1> SUFFICES ASSUME CInv, [Next]_vars PROVE CInv'
  OBVIOUS
<1>1. CASE UNCHANGED vars
  BY <1>1 DEF vars, mesh, CInv, TypeOK, StagesOK, FoundOK, CountOK, IsolatedNodeFails
<1>2. CASE \E i \in Node : CallReturns(i) \/ WithTimeout(i)
  BY <1>2, CallSteps, SearchStep DEF CallReturns, WithTimeout
<1>3. CASE \E i, j \in Node : Provider(i, j)
  BY <1>3, ProviderStep
<1>4. CASE Verdict
  BY <1>4, VerdictStep
<1>5. QED
  BY <1>1, <1>2, <1>3, <1>4, MainSteps, LinkSteps DEF Next

LEMMA Inductive == Spec => []CInv
<1>1. QED  BY InitCInv, NextCInv, PTL DEF Spec

-----------------------------------------------------------------------------

\* Type correctness for any number of nodes: no node ever counts more peers than
\* there are others, and never itself.
THEOREM TypeCorrect == Spec => []TypeOK
<1>1. CInv => TypeOK  BY DEF CInv
<1>2. QED  BY <1>1, Inductive, PTL

\* Neither simulator passes with a node that has never had a connection, for any
\* number of nodes.
THEOREM IsolatedFails == Spec => []IsolatedNodeFails
<1>1. CInv => IsolatedNodeFails  BY DEF CInv
<1>2. QED  BY <1>1, Inductive, PTL
=============================================================================
