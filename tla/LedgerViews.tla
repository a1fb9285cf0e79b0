---------------------------- MODULE LedgerViews ----------------------------
(***************************************************************************)
(* The read side of the ledger, tools/ledger/src: clockFromExisting,       *)
(* projections.ts, replay.ts and causal.ts.  Every view is a function of   *)
(* the sequence of events as it stands in the file; logical_time orders    *)
(* the events and their place in the file breaks ties, as the stable sort  *)
(* of the code does.                                                       *)
(***************************************************************************)
EXTENDS Integers, Sequences

\* Event i comes before event j once the events are sorted by logical_time.
Before(events, i, j) ==
    \/ events[i].logical_time < events[j].logical_time
    \/ events[i].logical_time = events[j].logical_time /\ i < j

\* The last of the events in I, and j as the one that follows i in I.
IsLast(events, I, i) == i \in I /\ \A j \in I : j # i => Before(events, j, i)
Follows(events, I, i, j) ==
    /\ i \in I /\ j \in I /\ Before(events, i, j)
    /\ ~ \E k \in I : Before(events, i, k) /\ Before(events, k, j)

-----------------------------------------------------------------------------
(* clockFromExisting: where the logical clock of a new SwarmLedger starts. *)

\* Mutant: the clock starts from nothing.
MutIsClockOf(events, t) == t = 0
\* Math.max over the logical times of the events, 0 when there are none.
IsClockOf(events, t) ==
    IF events = <<>> THEN t = 0
    ELSE /\ \E i \in DOMAIN events : events[i].logical_time = t
         /\ \A i \in DOMAIN events : events[i].logical_time <= t

-----------------------------------------------------------------------------
(* latestByKey, which the projections and the contradiction engine read    *)
(* from, as the set of the events the map holds.                           *)

WithKey(events, key) == {i \in DOMAIN events : events[i].key = key}

LatestByKey(events) ==
    {events[i] : i \in {i \in DOMAIN events :
                            IsLast(events, WithKey(events, events[i].key), i)}}

\* latestByKey(events).get(key), as a set of one event or none.
LatestOf(events, key) ==
    {events[i] : i \in {i \in DOMAIN events : IsLast(events, WithKey(events, key), i)}}

-----------------------------------------------------------------------------
(* replayAt: the events up to a logical time, "state as it was".           *)

ReplayAt(events, t) == {e \in {events[i] : i \in DOMAIN events} : e.logical_time <= t}

-----------------------------------------------------------------------------
(* buildCausalEdges, without the kind of an edge: each set below holds the *)
(* pairs of places in the file that one of its loops joins.                *)

Places(events) == (DOMAIN events) \X (DOMAIN events)
Ids(events, pairs) == {<<events[p[1]].id, events[p[2]].id>> : p \in pairs}

Explicit(events) ==
    {p \in Places(events) : events[p[2]].parent_id = events[p[1]].id}

SameNode(events, None) ==
    {p \in Places(events) :
        LET node == events[p[1]].node_id
        IN  /\ node # None
            /\ Follows(events, {i \in DOMAIN events : events[i].node_id = node},
                       p[1], p[2])}

\* Consecutive events of a run, when they come from different tools.
SameRun(events) ==
    {p \in Places(events) :
        LET run == events[p[1]].run_id
        IN  /\ events[p[1]].tool # events[p[2]].tool
            /\ Follows(events, {i \in DOMAIN events : events[i].run_id = run},
                       p[1], p[2])}

BuildCausalEdges(events, None) ==
    Ids(events, Explicit(events) \cup SameNode(events, None) \cup SameRun(events))

\* Every set of events has one that no other event of the set leads to.
Acyclic(events, edges) ==
    \A S \in (SUBSET {events[i].id : i \in DOMAIN events}) \ {{}} :
        \E v \in S : \A u \in S : <<u, v>> \notin edges
=============================================================================
