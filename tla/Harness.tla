------------------------------- MODULE Harness -------------------------------
(***************************************************************************)
(* The swarm truth harness, tools/harness: runHarness starts a cluster of  *)
(* libp2p nodes in its own process, has each of them put its record in the *)
(* DHT, looks at what they see of each other, buries one of them under a   *)
(* tombstone and gives a verdict.                                          *)
(*                                                                         *)
(* The harness is one sequence of awaits.  Meanwhile the nodes connect and *)
(* lose each other, and a put that the harness has stopped waiting for     *)
(* goes on by itself.  The library and publishTombstone are modelled by    *)
(* what the harness says of them: a put takes a connected peer, and hangs  *)
(* without one.                                                            *)
(***************************************************************************)
EXTENDS Integers, FiniteSets

CONSTANTS
    N,            \* opts.nodeCount
    KillChoices,  \* the nodes that may be buried
    None          \* no tombstone is to be verified, or the node is not there

ASSUME HarnessAssumption ==
    /\ N \in Nat \ {0}
    /\ None \notin Nat /\ None \notin {"config", "tombstone", "GREEN", "YELLOW"}
    /\ KillChoices \subseteq 0..(N - 1) \cup {None}

Node == 0..(N - 1)

\* Unordered pairs of nodes.
Link == {l \in SUBSET Node : Cardinality(l) = 2}

VARIABLES
    pc,         \* what the harness is waiting for
    at,         \* the index of the loop it is in
    kill,       \* the node to bury
    node,       \* libp2pNode of each node
    link,       \* the connections there are
    put,        \* the put of each node's record
    held,       \* the values the DHT holds under the key of each node
    announced,  \* the nodes that are known to have put their record
    report,     \* topology, discoveryResults and tombstoneResult
    errors,     \* the errors of the result
    verdict     \* metrics.health, None while there is no result

env == <<node, link, put, held>>
vars == <<pc, at, kill, env, announced, report, errors, verdict>>

Stages == {"create", "dial", "converge", "announce", "waitPut", "topology",
           "discover", "publish", "stopDoomed", "verify", "stopAll", "returned"}

\* Edges and isolated nodes at the time of verifyTopology, how many queries of
\* verifyCrossDiscovery found a record, and what verifyTombstone came across.
Report == [edges : 0..Cardinality(Link), isolated : 0..N, found : 0..(N * N),
           absent : BOOLEAN, stale : 0..N]
EmptyReport == [edges |-> 0, isolated |-> 0, found |-> 0, absent |-> TRUE, stale |-> 0]

TypeOK ==
    /\ pc \in Stages
    /\ at \in 0..(N * N)
    /\ kill \in KillChoices
    /\ node \in [Node -> {"none", "null", "up", "down"}]
    /\ link \subseteq Link
    /\ put \in [Node -> {"none", "pending", "over"}]
    /\ held \in [Node -> SUBSET {"config", "tombstone"}]
    /\ announced \subseteq Node
    /\ report \in Report
    /\ errors \subseteq {"spawn", "failed", "incomplete"}
    /\ verdict \in {"GREEN", "YELLOW", "RED", None}

Up == {i \in Node : node[i] = "up"}
Peers(i) == {j \in Node : {i, j} \in link /\ j # i}

-----------------------------------------------------------------------------
(* spawnCluster                                                            *)

\* All nodes are created, one after the other, and dial node 0.
AfterCreate == IF at < N - 1 THEN "create" ELSE "converge"
Following == IF at < N - 1 THEN at + 1 ELSE 0

CreateNode ==
    /\ pc = "create"
    /\ node' = [node EXCEPT ![at] = "up"]
    /\ IF at = 0 THEN pc' = AfterCreate /\ at' = Following
                 ELSE pc' = "dial" /\ UNCHANGED at
    /\ UNCHANGED <<kill, link, put, held, announced, report, errors, verdict>>

\* The node stays in the list without its libp2p instance, unless it is node 0.
CreateFails ==
    /\ pc = "create" /\ at > 0
    /\ node' = [node EXCEPT ![at] = "null"]
    /\ pc' = AfterCreate /\ at' = Following
    /\ UNCHANGED <<kill, link, put, held, announced, report, errors, verdict>>

\* A dial that fails only adds to a warning.
Dial ==
    /\ pc = "dial"
    /\ link' \in {link, link \cup {{0, at}}}
    /\ pc' = AfterCreate /\ at' = Following
    /\ UNCHANGED <<kill, node, put, held, announced, report, errors, verdict>>

\* Mutant: counts the nodes that are there.
MutMinPeers == Cardinality(Up) - 1
MinPeers == N - 1

Converged ==
    LET count(i) == Cardinality(Peers(i))
    IN  \/ \A i \in Up : count(i) >= MinPeers
        \/ (\A i \in Up : count(i) >= 1) /\ (\E i \in Up : count(i) >= MinPeers)

\* A poll that finds the nodes connected.
Converge ==
    /\ pc = "converge"
    /\ Converged
    /\ pc' = "announce" /\ at' = 0
    /\ UNCHANGED <<kill, env, announced, report, errors, verdict>>

\* spawnCluster throws, because node 0 did not start or because no poll before
\* the deadline found the nodes connected.  runHarness has no handle by which it
\* could stop the nodes that did start.
SpawnFails ==
    /\ \/ pc = "create" /\ at = 0
       \/ pc = "converge"
    /\ pc' = "returned" /\ verdict' = "RED" /\ errors' = {"spawn"}
    /\ UNCHANGED <<at, kill, env, announced, report>>

\* The records are put one after the other; nodes that are null are passed over.
Announce ==
    /\ pc = "announce"
    /\ IF node[at] = "up"
       THEN /\ pc' = "waitPut" /\ put' = [put EXCEPT ![at] = "pending"] /\ UNCHANGED at
       ELSE /\ pc' = (IF at < N - 1 THEN "announce" ELSE "topology") /\ at' = Following
            /\ UNCHANGED put
    /\ UNCHANGED <<kill, node, link, held, announced, report, errors, verdict>>

\* Mutant: waits for the put.
MutAnnounced ==
    /\ pc = "waitPut"
    /\ put[at] = "over"
    /\ announced' = announced \cup {at}
    /\ pc' = (IF at < N - 1 THEN "announce" ELSE "topology") /\ at' = Following
    /\ UNCHANGED <<kill, env, report, errors, verdict>>
\* The race of the put with ten seconds: it has been carried out, or it was
\* refused or is late.  The error only adds to a warning.
Announced ==
    /\ pc = "waitPut"
    /\ \/ /\ put[at] = "over" /\ "config" \in held[at]
          /\ announced' = announced \cup {at}
          /\ UNCHANGED put
       \/ /\ put[at] = "pending"
          /\ put' \in {put, [put EXCEPT ![at] = "over"]}
          /\ UNCHANGED announced
    /\ pc' = (IF at < N - 1 THEN "announce" ELSE "topology") /\ at' = Following
    /\ UNCHANGED <<kill, node, link, held, report, errors, verdict>>

-----------------------------------------------------------------------------
(* verifyTopology and verifyCrossDiscovery                                 *)

Isolated(i) == Peers(i) = {}

\* Mutant: a connection counts once for each of its ends.
MutEdges == 2 * Cardinality(link)
Edges == Cardinality(link)

VerifyTopology ==
    /\ pc = "topology"
    /\ report' = [report EXCEPT !.edges = Edges,
                                !.isolated = Cardinality({i \in announced : Isolated(i)})]
    /\ pc' = (IF N > 1 THEN "discover" ELSE "publish") /\ at' = (IF N > 1 THEN 1 ELSE 0)
    /\ UNCHANGED <<kill, env, announced, errors, verdict>>

\* The two nested loops count in one, so that a querier is at \div N and a
\* target at % N, without the steps at which they are the same node.
Querier == at \div N
Target == at % N
NextPair == IF (at + 1) % (N + 1) = 0 THEN at + 2 ELSE at + 1

\* A query returns what some peer holds, or nothing, be it that it fails.
Found(k) == held[k] \cup {None}

\* Mutant: an error counts as a record.
MutDiscover(v) == 1
Discovered(v) == IF v # None THEN 1 ELSE 0

VerifyCrossDiscovery ==
    /\ pc = "discover"
    /\ \E v \in (IF node[Querier] = "up" THEN Found(Target) ELSE {None}) :
           report' = [report EXCEPT !.found = @ + Discovered(v)]
    /\ IF NextPair < N * N THEN pc' = pc /\ at' = NextPair
       ELSE pc' = "publish" /\ at' = 0
    /\ UNCHANGED <<kill, env, announced, errors, verdict>>

-----------------------------------------------------------------------------
(* The tombstone                                                           *)

\* verifyTombstones is off, or killNodeIndex is the index of no node.
SkipTombstone ==
    /\ pc = "publish" /\ kill = None
    /\ pc' = "stopAll"
    /\ UNCHANGED <<at, kill, env, announced, report, errors, verdict>>

PublishTombstone ==
    /\ pc = "publish" /\ kill # None
    /\ node[kill] = "up" /\ ~Isolated(kill)
    /\ held' \in {held, [held EXCEPT ![kill] = {"tombstone"}],
                  [held EXCEPT ![kill] = @ \cup {"tombstone"}]}
    /\ pc' = "stopDoomed"
    /\ UNCHANGED <<at, kill, node, link, put, announced, report, errors, verdict>>

\* Anything that is thrown on the way leaves tombstoneResult as it was.
TombstoneFails ==
    /\ \/ pc = "publish" /\ kill # None /\ (node[kill] = "up" => ~Isolated(kill))
       \/ pc = "stopDoomed"
    /\ errors' = errors \cup {"failed"}
    /\ pc' = "stopAll"
    /\ UNCHANGED <<at, kill, env, announced, report, verdict>>

Without(i) == {l \in link : i \notin l}

StopDoomed ==
    /\ pc = "stopDoomed"
    /\ node' = [node EXCEPT ![kill] = "down"]
    /\ link' = Without(kill)
    /\ pc' = "verify" /\ at' = 0
    /\ UNCHANGED <<kill, put, held, announced, report, errors, verdict>>

\* Each survivor in turn looks the record of the dead node up.
VerifyTombstone ==
    /\ pc = "verify" /\ at < N
    /\ \E v \in (IF at # kill /\ node[at] = "up" THEN Found(kill) ELSE {None}) :
           report' = [report EXCEPT !.absent = @ /\ v = None,
                                    !.stale = IF v = "config" THEN @ + 1 ELSE @]
    /\ at' = at + 1
    /\ UNCHANGED <<pc, kill, env, announced, errors, verdict>>

TombstoneVerified ==
    /\ pc = "verify" /\ at = N
    /\ errors' = IF report.absent THEN errors ELSE errors \cup {"incomplete"}
    /\ pc' = "stopAll"
    /\ UNCHANGED <<at, kill, env, announced, report, verdict>>

-----------------------------------------------------------------------------
(* computeMetrics.  A score is a fraction, a pair of integers.             *)

Above80(s) == 5 * s[1] > 4 * s[2]
Below50(s) == 2 * s[1] < s[2]
NonNegative(n) == IF n < 0 THEN 0 ELSE n

Connectivity(r) ==
    LET most == IF N > 1 THEN (N * (N - 1)) \div 2 ELSE 1
    IN  <<NonNegative(20 * r.edges - 3 * r.isolated * most), 20 * most>>

Discovery(r) == IF N > 1 THEN <<r.found, N * (N - 1)>> ELSE <<0, 1>>

Tombstone(r) ==
    IF r.absent THEN <<10 - r.stale, 10>> ELSE <<NonNegative(5 - r.stale), 10>>

Health(r) ==
    LET scores == {Connectivity(r), Discovery(r), Tombstone(r)}
    IN  IF \A s \in scores : Above80(s) THEN "GREEN"
        ELSE IF \E s \in scores : Below50(s) THEN "RED"
        ELSE "YELLOW"

Success == verdict \in {"GREEN", "YELLOW"}

\* The nodes with an instance, the one that was buried included.
Stopped == {i \in Node : node[i] \in {"up", "down"}}

\* computeMetrics, then stopAll, which waits for every stop() and takes no notice
\* of those that fail.
StopAll ==
    /\ pc = "stopAll"
    /\ node' = [i \in Node |-> IF i \in Stopped THEN "down" ELSE node[i]]
    /\ link' = {l \in link : l \cap Stopped = {}}
    /\ verdict' = Health(report)
    /\ pc' = "returned"
    /\ UNCHANGED <<at, kill, put, held, announced, report, errors>>

-----------------------------------------------------------------------------
(* The nodes                                                               *)

Connect(l) ==
    /\ l \subseteq Up
    /\ link' = link \cup {l}
    /\ UNCHANGED <<pc, at, kill, node, put, held, announced, report, errors, verdict>>

Disconnect(l) ==
    /\ l \in link
    /\ link' = link \ {l}
    /\ UNCHANGED <<pc, at, kill, node, put, held, announced, report, errors, verdict>>

\* A put reaches a peer, whether or not the harness still waits for it.
PutRecord(i) ==
    /\ put[i] = "pending" /\ node[i] = "up" /\ ~Isolated(i)
    /\ put' = [put EXCEPT ![i] = "over"]
    /\ held' = [held EXCEPT ![i] = @ \cup {"config"}]
    /\ UNCHANGED <<pc, at, kill, node, link, announced, report, errors, verdict>>

Init ==
    /\ pc = "create" /\ at = 0
    /\ kill \in KillChoices
    /\ node = [i \in Node |-> "none"]
    /\ link = {}
    /\ put = [i \in Node |-> "none"]
    /\ held = [i \in Node |-> {}]
    /\ announced = {}
    /\ report = EmptyReport
    /\ errors = {} /\ verdict = None

Spawn == CreateNode \/ CreateFails \/ Dial \/ Converge \/ SpawnFails
         \/ Announce \/ Announced
Verify == VerifyTopology \/ VerifyCrossDiscovery \/ VerifyTombstone \/ TombstoneVerified
Bury == SkipTombstone \/ PublishTombstone \/ TombstoneFails \/ StopDoomed

RunHarness == Spawn \/ Verify \/ Bury \/ StopAll

Nodes ==
    \/ \E l \in Link : Connect(l) \/ Disconnect(l)
    \/ \E i \in Node : PutRecord(i)

Next == RunHarness \/ (pc # "returned" /\ Nodes)

\* What the harness awaits comes, by its timer if not otherwise.  Nothing is
\* assumed of the nodes.
Spec == Init /\ [][Next]_vars /\ WF_vars(RunHarness)

-----------------------------------------------------------------------------

\* The verdict is about the whole cluster: a node that did not start leaves the
\* others short of the peers they wait for, so that none of the branches that
\* pass over nodes without an instance is taken once the cluster has converged.
VerifiesWholeCluster ==
    pc \notin {"create", "dial", "converge", "returned"} =>
        \A i \in Node : node[i] \in {"up", "down"}

\* A success means that at least half of the nodes have put their record in the
\* DHT, and a GREEN one, in a cluster of up to five, that all of them have, also
\* those whose put was late.
SuccessNeedsRecords ==
    LET published == Cardinality({i \in Node : held[i] # {}})
    IN  /\ Success => 2 * published >= N
        /\ verdict = "GREEN" /\ N <= 5 => published = N

\* A survivor that still finds the record of the dead node fails the harness,
\* whatever the other scores: also when a late put restores the record after the
\* tombstone has replaced it.
StaleRecordFails == report.stale > 0 => ~Success

\* runHarness returns, with one exception: the put of the tombstone is awaited
\* without the timeout the announcements have, and a node that has lost its peers
\* by then does not complete it.
Returns ==
    <>(pc = "returned") \/ []<>(pc = "publish" /\ kill # None /\ Isolated(kill))
=============================================================================
