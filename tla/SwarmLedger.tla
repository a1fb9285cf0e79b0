---------------------------- MODULE SwarmLedger ----------------------------
(***************************************************************************)
(* The append-only event store, tools/ledger/src/ledger.ts.                *)
(*                                                                         *)
(* The ledger is one file of JSON lines.  A process opens it by making a   *)
(* SwarmLedger: it takes its logical clock from the events that are in the *)
(* file at that moment and counts on from there by itself.  Every method   *)
(* is synchronous, so one call is one step of its process; the steps of    *)
(* processes that have the same file open interleave.                      *)
(***************************************************************************)
EXTENDS Integers, Sequences, FiniteSets, LedgerViews

CONSTANTS
    Process,       \* the processes that open the ledger file, each a run_id
    Key,           \* canonical keys
    Tool,          \* the tools whose output is recorded
    Node,          \* node ids that events are about
    None,          \* an absent value
    MaxEvents,     \* bound of the model: calls of append
    WriteMayFail   \* appendFileSync may throw, having written part of a line

ASSUME SwarmLedgerAssumption ==
    /\ MaxEvents \in Nat
    /\ None \notin Nat /\ None \notin Node
    /\ WriteMayFail \in BOOLEAN

VARIABLES
    exists,   \* the file is there
    file,     \* the events on its complete lines
    torn,     \* it ends in part of a line, which no reader can parse
    ledger,   \* the SwarmLedger of each process, None when it has none
    acked,    \* history: the events whose append has returned
    issued,   \* history: the number of event ids drawn so far
    alone     \* history: no two processes have had the file open at a time

vars == <<exists, file, torn, ledger, acked, issued, alone>>

EventId == 1..MaxEvents

Event == [id : EventId, logical_time : Nat, run_id : Process,
          parent_id : EventId \cup {None}, key : Key, tool : Tool,
          node_id : Node \cup {None}]

Ledger == [logicalClock : Nat, cache : Seq(Event) \cup {None}]

TypeOK ==
    /\ exists \in BOOLEAN
    /\ file \in Seq(Event)
    /\ torn \in BOOLEAN
    /\ ledger \in [Process -> Ledger \cup {None}]
    /\ acked \subseteq EventId
    /\ issued \in 0..MaxEvents
    /\ alone \in BOOLEAN

Open(p) == ledger[p] # None

-----------------------------------------------------------------------------

\* The constructor.  It creates the file, or loads it for the clock and drops
\* what it loaded, unless there was nothing in it: then the empty cache stays.
\* It throws when a line does not parse.
Construct(p) ==
    /\ ~Open(p)
    /\ ~torn
    /\ \E t \in {0} \cup {file[i].logical_time : i \in DOMAIN file} :
           /\ IsClockOf(file, t)
           /\ ledger' = [ledger EXCEPT ![p] =
                [logicalClock |-> t,
                 cache |-> IF exists /\ file = <<>> THEN <<>> ELSE None]]
    /\ exists' = TRUE
    /\ alone' = (alone /\ \A q \in Process : ~Open(q))
    /\ UNCHANGED <<file, torn, acked, issued>>

\* Mutant: counts down.
MutNewEvent(p, parent, key, tool, node) ==
    [id |-> issued + 1, logical_time |-> ledger[p].logicalClock - 1,
     run_id |-> p, parent_id |-> parent, key |-> key, tool |-> tool,
     node_id |-> node]
NewEvent(p, parent, key, tool, node) ==
    [id |-> issued + 1, logical_time |-> ledger[p].logicalClock + 1,
     run_id |-> p, parent_id |-> parent, key |-> key, tool |-> tool,
     node_id |-> node]

\* Mutant: the clock is not advanced.
MutAdvanced(p) ==
    [ledger EXCEPT ![p] = [logicalClock |-> ledger[p].logicalClock, cache |-> None]]
\* Mutant: the read cache is kept.
MutAdvancedCache(p) ==
    [ledger EXCEPT ![p] = [logicalClock |-> ledger[p].logicalClock + 1,
                           cache |-> ledger[p].cache]]
\* The ledgers once p has appended: ++logicalClock, and no read cache.
Advanced(p) ==
    [ledger EXCEPT ![p] = [logicalClock |-> ledger[p].logicalClock + 1,
                           cache |-> None]]

\* append and, with a parent, correct.  After part of a line the new line is
\* not a line of its own, and nobody can parse it.
AppendEvent(p, parent, key, tool, node) ==
    /\ Open(p)
    /\ issued < MaxEvents
    /\ file' = IF torn THEN file
               ELSE Append(file, NewEvent(p, parent, key, tool, node))
    /\ ledger' = Advanced(p)
    /\ issued' = issued + 1
    /\ acked' = acked \cup {issued + 1}
    /\ UNCHANGED <<exists, torn, alone>>

\* Mutant: the caller carries on.
MutAppendFails(p) ==
    /\ WriteMayFail /\ Open(p) /\ issued < MaxEvents
    /\ torn' \in {torn, TRUE}
    /\ ledger' = [ledger EXCEPT ![p] =
                    [logicalClock |-> ledger[p].logicalClock + 1,
                     cache |-> ledger[p].cache]]
    /\ issued' = issued + 1
    /\ UNCHANGED <<exists, file, acked, alone>>
\* appendFileSync throws, the disk being full.  The caller does not catch it:
\* tools/ci/ci-pipeline.ts ends the process.
AppendFails(p) ==
    /\ WriteMayFail
    /\ Open(p)
    /\ issued < MaxEvents
    /\ torn' \in {torn, TRUE}
    /\ ledger' = [ledger EXCEPT ![p] = None]
    /\ issued' = issued + 1
    /\ UNCHANGED <<exists, file, acked, alone>>

\* loadAll, which every read goes through: it throws on a line that does not
\* parse, unless the events are cached.
LoadAll(p) ==
    /\ Open(p)
    /\ ledger[p].cache = None
    /\ ~torn
    /\ ledger' = [ledger EXCEPT ![p] = [logicalClock |-> ledger[p].logicalClock,
                                        cache |-> file]]
    /\ UNCHANGED <<exists, file, torn, acked, issued, alone>>

\* The process ends, or is killed between two calls.
Exit(p) ==
    /\ Open(p)
    /\ ledger' = [ledger EXCEPT ![p] = None]
    /\ UNCHANGED <<exists, file, torn, acked, issued, alone>>

Init ==
    /\ exists \in BOOLEAN
    /\ file = <<>>
    /\ torn = FALSE
    /\ ledger = [p \in Process |-> None]
    /\ acked = {}
    /\ issued = 0
    /\ alone = TRUE

\* A process knows the ids of the events it has appended or loaded.
KnownTo(p) ==
    {file[i].id : i \in {i \in DOMAIN file : file[i].run_id = p}} \cup
    (IF ledger[p].cache = None THEN {}
     ELSE {ledger[p].cache[i].id : i \in DOMAIN ledger[p].cache})

Next == \E p \in Process :
    \/ Construct(p)
    \/ /\ Open(p)
       /\ \E key \in Key, tool \in Tool, node \in Node \cup {None},
             parent \in KnownTo(p) \cup {None} :
              AppendEvent(p, parent, key, tool, node)
    \/ AppendFails(p)
    \/ LoadAll(p)
    \/ Exit(p)

Spec == Init /\ [][Next]_vars

-----------------------------------------------------------------------------
(* What holds for any number of processes.                                 *)

\* What a process has cached is the file up to some line, and every event the
\* process has written is in it: an append is never missing from the reads of
\* its own process.
CachesArePrefixes ==
    \A p \in Process : Open(p) /\ ledger[p].cache # None =>
        LET cache == ledger[p].cache
        IN  /\ Len(cache) <= Len(file)
            /\ \A i \in 1..Len(cache) : cache[i] = file[i]
            /\ \A i \in DOMAIN file : file[i].run_id = p => i <= Len(cache)

\* The part of the file that the next read of p returns.
View(p) == IF Open(p) /\ ledger[p].cache # None THEN Len(ledger[p].cache)
           ELSE Len(file)

\* The ledger is a log that only grows, seen by each process up to some entry,
\* its own entries included and never going back.
Log == INSTANCE AppendLog WITH
    Entry <- Event, log <- file, view <- [p \in Process |-> View(p)]
ImplementsAppendLog == Log!Spec

(* What holds as long as one process at a time has had the file open.      *)

\* Appending never changes what replayAt reconstructs for a logical time that
\* has been reached.
ReplayStable ==
    [][alone' =>
           \A i \in DOMAIN file :
               LET t == file[i].logical_time
               IN  ReplayAt(file', t) = ReplayAt(file, t)]_vars

\* The causal edges form a DAG.
CausalDag == alone => Acyclic(file, BuildCausalEdges(file, None))

\* The latest event of a key, which every projection shows, is the one that was
\* appended last.
LatestIsLastAppended ==
    alone =>
        \A i \in DOMAIN file :
            (\A j \in DOMAIN file : j > i => file[j].key # file[i].key)
                => file[i] \in LatestByKey(file)

\* No event whose append returned is lost, even if writes fail half way.
AckedEventsStay == alone => acked \subseteq {file[i].id : i \in DOMAIN file}
=============================================================================
