----------------------------- MODULE ClusterSim -----------------------------
(***************************************************************************)
(* The two simulators of tools/sim.  dht-cluster-sim.ts and                *)
(* peer-flood-test.ts start N libp2p nodes in their own process, connect   *)
(* them to node 0, announce every node in the DHT, ask every node whom it  *)
(* can find, and exit 0 if each of them has found somebody.                *)
(*                                                                         *)
(* The simulation works on one node after the other and races every DHT    *)
(* call against a timer; a call that has lost the race goes on by itself.  *)
(* The flood test works on all nodes at once and waits as long as it takes.*)
(* Meanwhile connections come and go.  The DHT is modelled by what the two *)
(* programs rely on: a node that provides a key finds itself under it, and *)
(* is found by others once it has had a peer to tell.                      *)
(***************************************************************************)
EXTENDS Integers, FiniteSets

CONSTANTS
    N,      \* --nodes, or --count
    None    \* no result yet

ASSUME ClusterSimAssumption == N \in Nat \ {0} /\ None \notin Nat

Node == 0..(N - 1)

\* Unordered pairs of nodes.
Link == {l \in SUBSET Node : Cardinality(l) = 2}

VARIABLES
    program,  \* which of the two runs
    pc,       \* how far main has come
    todo,     \* the nodes that main has still to begin with
    busy,     \* the nodes whose dial, announcement or discovery it awaits
    call,     \* which of its three calls announceNode awaits, for each node
    up,       \* the nodes that have started
    link,     \* external: the connections there are
    listed,   \* external: the nodes that have called provide
    spread,   \* external: the nodes that others can find as providers
    found,    \* the providers each node has been told of
    count,    \* discoveryResults
    success,  \* success
    met       \* history: the nodes that have ever had a connection

mesh == <<up, link, listed, spread, met>>
vars == <<program, pc, todo, busy, call, mesh, found, count, success>>

Programs == {"dht-cluster-sim", "peer-flood-test"}
Stages == {"create", "bootstrap", "announce", "discover", "stop", "exited"}

TypeOK ==
    /\ program \in Programs
    /\ pc \in Stages
    /\ todo \subseteq Node /\ busy \subseteq Node
    /\ call \in [Node -> 1..3]
    /\ up \subseteq Node
    /\ link \subseteq Link
    /\ listed \subseteq Node /\ spread \subseteq listed
    /\ found \in [Node -> SUBSET Node] /\ \A i \in Node : i \notin found[i]
    /\ count \in [Node -> 0..(N - 1) \cup {None}]
    /\ success \in BOOLEAN
    /\ met \subseteq Node

Peers(i) == {j \in Node : {i, j} \in link /\ j # i}

-----------------------------------------------------------------------------
(* main                                                                    *)

\* Node i is created.
Create(i) ==
    /\ pc = "create"
    /\ i \notin up /\ \A j \in Node : j < i => j \in up
    /\ up' = up \cup {i}
    /\ UNCHANGED <<program, pc, todo, busy, call, link, listed, spread, found,
                   count, success, met>>

\* The nodes that a stage works on.
Concerned(stage) == IF stage = "bootstrap" THEN Node \ {0} ELSE Node

Enter(stage) == pc' = stage /\ todo' = Concerned(stage)

Over == todo = {} /\ busy = {}

\* One await of main is over, and the next one begins.
NextStage ==
    /\ \/ pc = "create" /\ up = Node /\ Enter("bootstrap")
       \/ pc = "bootstrap" /\ Over /\ Enter("announce")
       \/ pc = "announce" /\ Over /\ Enter("discover")
    /\ UNCHANGED <<program, busy, call, mesh, found, count, success>>

\* The simulation takes one node, in order, and the flood test all of them.
Begin(nodes) ==
    /\ nodes \subseteq todo
    /\ IF program = "dht-cluster-sim"
       THEN /\ busy = {}
            /\ \E i \in todo : (\A j \in todo : i <= j) /\ nodes = {i}
       ELSE nodes = todo /\ todo # {}
    /\ todo' = todo \ nodes
    /\ busy' = busy \cup nodes
    /\ listed' = IF pc = "announce" THEN listed \cup nodes ELSE listed
    /\ UNCHANGED <<program, pc, call, up, link, spread, met, found, count, success>>

\* A dial is over; one that fails is only logged.
Dialed(i) ==
    /\ pc = "bootstrap"
    /\ i \in busy
    /\ \/ link' = link \cup {{0, i}} /\ met' = met \cup {0, i}
       \/ UNCHANGED <<link, met>>
    /\ busy' = busy \ {i}
    /\ UNCHANGED <<program, pc, todo, call, up, listed, spread, found, count, success>>

\* One of the three calls of an announcement is over: provide under the key of
\* the network, provide under that of the peer, put.
CallOver(i) ==
    /\ pc = "announce"
    /\ i \in busy
    /\ IF call[i] < 3
       THEN call' = [call EXCEPT ![i] = call[i] + 1] /\ UNCHANGED busy
       ELSE busy' = busy \ {i} /\ UNCHANGED call
    /\ UNCHANGED <<program, pc, todo, mesh, found, count, success>>

\* Mutant: a node counts itself.
MutOthers(i, j) == {j}
Others(i, j) == {j} \ {i}

\* findProviders tells node i of a provider: itself, or whoever its peers know.
Provider(i, j) ==
    /\ pc = "discover"
    /\ i \in busy
    /\ j \in listed /\ (j = i \/ (j \in spread /\ Peers(i) # {}))
    /\ found' = [found EXCEPT ![i] = found[i] \cup Others(i, j)]
    /\ UNCHANGED <<program, pc, todo, busy, call, mesh, count, success>>

\* What is counted for node i when its search ends.  The simulation counts the
\* peers it is connected to if it was told of none.
Counted(i) == IF program = "dht-cluster-sim" /\ found[i] = {} THEN Peers(i) ELSE found[i]

SearchOver(i) ==
    /\ pc = "discover"
    /\ i \in busy
    /\ count' = [count EXCEPT ![i] = Cardinality(Counted(i))]
    /\ busy' = busy \ {i}
    /\ UNCHANGED <<program, pc, todo, call, mesh, found, success>>

\* A call of the DHT has ended.
CallReturns(i) == CallOver(i) \/ SearchOver(i)

\* Mutant: the put is not raced.
MutWithTimeout(i) ==
    program = "dht-cluster-sim" /\ call[i] < 3 /\ (CallOver(i) \/ SearchOver(i))
\* withTimeout: the simulation goes on after five seconds at the latest.
WithTimeout(i) == program = "dht-cluster-sim" /\ (CallOver(i) \/ SearchOver(i))

\* Something that is awaited throws: a port is taken, or a call of the DHT fails.
\* What else is under way goes on by itself.
Throw ==
    /\ \/ pc = "create" /\ up # Node
       \/ pc \in {"announce", "discover"} /\ busy # {}
    /\ pc' = "stop"
    /\ success' = FALSE
    /\ UNCHANGED <<program, todo, busy, call, mesh, found, count>>

AllDiscovered == \A i \in Node : count[i] >= 1
FullMesh == \A i \in Node : count[i] >= N - 1

Verdict ==
    /\ pc = "discover" /\ Over
    /\ pc' = "stop"
    /\ success' = (FullMesh \/ AllDiscovered)
    /\ UNCHANGED <<program, todo, busy, call, mesh, found, count>>

\* Mutant: a flood test that has failed does not exit.
MutStopAll ==
    /\ pc = "stop"
    /\ program = "peer-flood-test" => success
    /\ pc' = "exited"
    /\ up' = {} /\ link' = {}
    /\ UNCHANGED <<program, todo, busy, call, listed, spread, met, found, count, success>>
\* Every node is stopped, and the process exits.
StopAll ==
    /\ pc = "stop"
    /\ pc' = "exited"
    /\ up' = {} /\ link' = {}
    /\ UNCHANGED <<program, todo, busy, call, listed, spread, met, found, count, success>>

-----------------------------------------------------------------------------
(* The nodes by themselves.                                                *)

Connect(i, j) ==
    /\ {i, j} \subseteq up /\ i # j
    /\ link' = link \cup {{i, j}}
    /\ met' = met \cup {i, j}
    /\ UNCHANGED <<program, pc, todo, busy, call, up, listed, spread, found, count,
                   success>>

Disconnect(l) ==
    /\ l \in link
    /\ link' = link \ {l}
    /\ UNCHANGED <<program, pc, todo, busy, call, up, listed, spread, met, found, count,
                   success>>

\* A provide reaches others, perhaps long after main has stopped waiting for it.
Spread(i) ==
    /\ i \in listed /\ Peers(i) # {}
    /\ spread' = spread \cup {i}
    /\ UNCHANGED <<program, pc, todo, busy, call, up, link, listed, met, found, count,
                   success>>

-----------------------------------------------------------------------------

Init ==
    /\ program \in Programs
    /\ program = "peer-flood-test" => N >= 2
    /\ pc = "create"
    /\ todo = {} /\ busy = {}
    /\ call = [i \in Node |-> 1]
    /\ up = {} /\ link = {} /\ listed = {} /\ spread = {} /\ met = {}
    /\ found = [i \in Node |-> {}]
    /\ count = [i \in Node |-> None]
    /\ success = FALSE

Next ==
    \/ \E i \in Node : Create(i)
    \/ NextStage
    \/ \E nodes \in SUBSET Node : Begin(nodes)
    \/ \E i \in Node : Dialed(i)
    \/ \E i \in Node : CallReturns(i)
    \/ \E i \in Node : WithTimeout(i)
    \/ \E i, j \in Node : Provider(i, j)
    \/ Throw
    \/ Verdict
    \/ StopAll
    \/ \E i, j \in Node : Connect(i, j)
    \/ \E l \in link : Disconnect(l)
    \/ \E i \in Node : Spread(i)

Spec == Init /\ [][Next]_vars

\* Creating a node and dialing end, well or not, and timers fire; nothing is
\* assumed of the calls of the DHT.
Fairness ==
    /\ WF_vars(\E i \in Node : Create(i))
    /\ WF_vars(NextStage)
    /\ WF_vars(\E nodes \in SUBSET Node : Begin(nodes))
    /\ WF_vars(\E i \in Node : Dialed(i))
    /\ WF_vars(\E i \in Node : WithTimeout(i))
    /\ WF_vars(Verdict)
    /\ WF_vars(StopAll)

FairSpec == Spec /\ Fairness

-----------------------------------------------------------------------------

\* Neither program passes when one of its nodes has never had a connection: such a
\* node finds nobody, itself excepted, which does not count.
IsolatedNodeFails ==
    success => N = 1 \/ Node \subseteq met

\* Node i stays for ever in one of the two stages whose calls the flood test awaits
\* without a timer.
HangsFor(i) ==
    \E stage \in {"announce", "discover"} :
        <>[](program = "peer-flood-test" /\ pc = stage /\ i \in busy)

\* The process of either program exits in the end, whatever the DHT does, with one
\* exception: a call of the DHT that the flood test awaits for some node never returns.
Ends == <>(pc = "exited") \/ \E i \in Node : HangsFor(i)
=============================================================================
