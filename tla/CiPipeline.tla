----------------------------- MODULE CiPipeline -----------------------------
(***************************************************************************)
(* The truth pipeline, tools/ci/ci-pipeline.ts, with the adapters and the  *)
(* contradiction engine of tools/ledger/src.  A run opens the ledger that  *)
(* earlier runs have written, and that another run may be writing too,     *)
(* appends what the tools of its own build have found, and then judges the *)
(* whole ledger: its exit code says whether the tools contradict.          *)
(*                                                                         *)
(* Only the keys that the rules read have events here.  The ledger is that *)
(* of SwarmLedger, without its read cache and its failures.                *)
(***************************************************************************)
EXTENDS Integers, Sequences, LedgerViews

CONSTANTS
    Run,           \* the runs of the pipeline, each a process of its own
    None,          \* an absent value
    Results,       \* what the tools may report to a run
    HardSkew,      \* hard_skew_ms
    SoftSkew,      \* soft_skew_ms
    MaxRunTime,    \* bound: how long a run takes
    MaxTime,       \* bound of the model: the clock stops there
    OneAtATime     \* no two runs at a time

\* The tools' JSON files, each of them None when it is not there.  The reading
\* of sim is the mean of peers_discovered, which may be empty.
ToolResults == [
    bootstrap : [reachable : Nat, exit_code : 0..3] \cup {None},
    sim : [exit_code : 0..1, node_count : Nat, mean : Nat, empty : BOOLEAN] \cup {None},
    ghost : [ghost : Nat] \cup {None},
    keyspace : [orphan_keys : Nat] \cup {None},
    tunnel : [status : {"ready", "failed"}] \cup {None}]

ASSUME CiPipelineAssumption ==
    /\ Results \subseteq ToolResults
    /\ None \notin Nat
    /\ HardSkew \in Nat /\ SoftSkew \in Nat /\ HardSkew <= SoftSkew
    /\ MaxRunTime \in Nat /\ MaxTime \in Nat
    /\ OneAtATime \in BOOLEAN

VARIABLES
    now,       \* the clock of the machine
    file,      \* the events of the ledger, oldest first
    stage,     \* how far each run has come
    clock,     \* the logical clock of its SwarmLedger
    results,   \* what its tools report
    pending,   \* the readings it has still to append
    begun,     \* when it has started
    exitCode   \* what it has exited with, or None

vars == <<now, file, stage, clock, results, pending, begun, exitCode>>

NoResults == [bootstrap |-> None, sim |-> None, ghost |-> None, keyspace |-> None,
              tunnel |-> None]

Keys == {"dht.peer.count.bootstrap", "dht.state.clean", "dht.peer.count.sim",
         "dht.announced", "dht.peer.count", "ghost.count", "keyspace.orphan.keys",
         "tunnel.status"}

IsReading(e) ==
    /\ e.tool \in {"bootstrap", "sim", "ghost", "keyspace", "tunnel"}
    /\ e.key \in Keys
    /\ e.value \in (IF e.key \in {"dht.state.clean", "dht.announced"} THEN BOOLEAN
                    ELSE IF e.key = "tunnel.status" THEN {"ready", "failed"} ELSE Nat)

TypeOK ==
    /\ now \in 0..MaxTime
    /\ \A i \in DOMAIN file : /\ IsReading(file[i])
                              /\ file[i].timestamp \in 0..now
                              /\ file[i].logical_time \in 1..Len(file)
    /\ stage \in [Run -> {"off", "ingest", "done", "dead"}]
    /\ \A r \in Run : /\ clock[r] \in 0..Len(file)
                      /\ results[r] \in ToolResults
                      /\ \A i \in DOMAIN pending[r] : IsReading(pending[r][i])
                      /\ begun[r] \in 0..now
                      /\ exitCode[r] \in (0..3) \cup {None}
                      /\ exitCode[r] # None <=> stage[r] = "done"

-----------------------------------------------------------------------------
(* adapters.ts: the readings of each tool, in the order of their events    *)

Reading(tool, key, value) == [tool |-> tool, key |-> key, value |-> value]

NormalizeBootstrap(output) ==
    <<Reading("bootstrap", "dht.peer.count.bootstrap", output.reachable)>> \o
    (IF output.exit_code = 3
     THEN <<Reading("bootstrap", "dht.state.clean", TRUE)>> ELSE <<>>)

\* Mutant: a failed announcement is not reported.
MutNormalizeSim(output) ==
    <<Reading("sim", "dht.peer.count.sim", output.mean)>> \o
    (IF output.exit_code # 0 THEN <<>> ELSE <<Reading("sim", "dht.announced", TRUE)>>) \o
    (IF output.empty THEN <<>>
     ELSE <<Reading("sim", "dht.peer.count", output.node_count)>>)
NormalizeSim(output) ==
    <<Reading("sim", "dht.peer.count.sim", output.mean),
      Reading("sim", "dht.announced", output.exit_code = 0)>> \o
    (IF output.empty THEN <<>>
     ELSE <<Reading("sim", "dht.peer.count", output.node_count)>>)

NormalizeGhost(output) == <<Reading("ghost", "ghost.count", output.ghost)>>

NormalizeKeyspace(output) ==
    <<Reading("keyspace", "keyspace.orphan.keys", output.orphan_keys)>>

NormalizeTunnel(output) == <<Reading("tunnel", "tunnel.status", output.status)>>

\* ingestResults: the tools that have reported, one after the other.
IngestResults(res) ==
    (IF res.bootstrap = None THEN <<>> ELSE NormalizeBootstrap(res.bootstrap)) \o
    (IF res.sim = None THEN <<>> ELSE NormalizeSim(res.sim)) \o
    (IF res.ghost = None THEN <<>> ELSE NormalizeGhost(res.ghost)) \o
    (IF res.keyspace = None THEN <<>> ELSE NormalizeKeyspace(res.keyspace)) \o
    (IF res.tunnel = None THEN <<>> ELSE NormalizeTunnel(res.tunnel))

-----------------------------------------------------------------------------
(* contradictions.ts: each rule gives the severities that it reports       *)

Skew(e, other) == IF e.timestamp < other.timestamp THEN other.timestamp - e.timestamp
                  ELSE e.timestamp - other.timestamp

PeerCountSeverity(skew) ==
    IF skew < HardSkew THEN {"HARD"} ELSE IF skew < SoftSkew THEN {"SOFT"} ELSE {}

Severity == {"HARD", "SOFT", "DRIFT"}

PeerCountRule(events) ==
    {severity \in Severity :
        \E b \in LatestOf(events, "dht.peer.count.bootstrap"),
           s \in LatestOf(events, "dht.peer.count.sim") :
            b.value = 0 /\ s.value > 0 /\ severity \in PeerCountSeverity(Skew(b, s))}

OrphanRule(events) ==
    {severity \in {"DRIFT"} :
        \E orphans \in LatestOf(events, "keyspace.orphan.keys"),
           cleanState \in LatestOf(events, "dht.state.clean") :
            orphans.value > 0 /\ cleanState.value}

TunnelRule(events) ==
    {severity \in {"HARD"} :
        \E tunnelStatus \in LatestOf(events, "tunnel.status"),
           announce \in LatestOf(events, "dht.announced") :
            tunnelStatus.value = "failed" /\ announce.value}

\* ghost_ratio_threshold is one half.
GhostRule(events) ==
    {severity \in {"SOFT"} :
        \E ghostCount \in LatestOf(events, "ghost.count"),
           peerCount \in LatestOf(events, "dht.peer.count") :
            peerCount.value > 0 /\ 2 * ghostCount.value > peerCount.value}

DetectContradictions(events) ==
    PeerCountRule(events) \cup OrphanRule(events) \cup TunnelRule(events)
        \cup GhostRule(events)

CiExitCode(report) ==
    IF "HARD" \in report THEN 3 ELSE IF "SOFT" \in report THEN 2
    ELSE IF "DRIFT" \in report THEN 1 ELSE 0

-----------------------------------------------------------------------------
(* main                                                                    *)

\* A run opens the ledger and loads the files of its tools.
Start(r, res) ==
    /\ stage[r] = "off"
    /\ OneAtATime => \A other \in Run : stage[other] # "ingest"
    /\ \E t \in {0} \cup {file[i].logical_time : i \in DOMAIN file} :
           IsClockOf(file, t) /\ clock' = [clock EXCEPT ![r] = t]
    /\ stage' = [stage EXCEPT ![r] = "ingest"]
    /\ results' = [results EXCEPT ![r] = res]
    /\ pending' = [pending EXCEPT ![r] = IngestResults(res)]
    /\ begun' = [begun EXCEPT ![r] = now]
    /\ UNCHANGED <<now, file, exitCode>>

NewEvent(r, reading) ==
    [tool |-> reading.tool, key |-> reading.key, value |-> reading.value,
     timestamp |-> now, logical_time |-> clock[r] + 1]

AppendNext(r) ==
    /\ stage[r] = "ingest"
    /\ pending[r] # <<>>
    /\ file' = Append(file, NewEvent(r, Head(pending[r])))
    /\ clock' = [clock EXCEPT ![r] = @ + 1]
    /\ pending' = [pending EXCEPT ![r] = Tail(@)]
    /\ UNCHANGED <<now, stage, results, begun, exitCode>>

\* Everything is in the ledger: it is loaded, and the run exits.
Judge(r) ==
    /\ stage[r] = "ingest"
    /\ pending[r] = <<>>
    /\ exitCode' = [exitCode EXCEPT ![r] = CiExitCode(DetectContradictions(file))]
    /\ stage' = [stage EXCEPT ![r] = "done"]
    /\ UNCHANGED <<now, file, clock, results, pending, begun>>

\* The job is cancelled, or a tool's file is not what its adapter expects: what
\* has been appended stays.
Abort(r) ==
    /\ stage[r] = "ingest"
    /\ stage' = [stage EXCEPT ![r] = "dead"]
    /\ results' = [results EXCEPT ![r] = NoResults]
    /\ pending' = [pending EXCEPT ![r] = <<>>]
    /\ UNCHANGED <<now, file, clock, begun, exitCode>>

Tick ==
    /\ now < MaxTime
    /\ \A r \in Run : stage[r] = "ingest" => now < begun[r] + MaxRunTime
    /\ now' = now + 1
    /\ UNCHANGED <<file, stage, clock, results, pending, begun, exitCode>>

Init ==
    /\ now = 0
    /\ file = <<>>
    /\ stage = [r \in Run |-> "off"]
    /\ clock = [r \in Run |-> 0]
    /\ results = [r \in Run |-> NoResults]
    /\ pending = [r \in Run |-> <<>>]
    /\ begun = [r \in Run |-> 0]
    /\ exitCode = [r \in Run |-> None]

RunNext(r) ==
    \/ \E res \in Results : Start(r, res)
    \/ AppendNext(r)
    \/ Judge(r)
    \/ Abort(r)

Next == Tick \/ \E r \in Run : RunNext(r)

Spec == Init /\ [][Next]_vars

-----------------------------------------------------------------------------
(* What an exit code can be relied on for.                                 *)

\* The readings of a build that the engine is there to catch.
Contradicts(res) ==
    /\ res.sim # None
    /\ \/ /\ res.bootstrap # None
          /\ res.bootstrap.reachable = 0 /\ res.sim.mean > 0
       \/ /\ res.tunnel # None
          /\ res.tunnel.status = "failed" /\ res.sim.exit_code = 0

\* A run whose own tools contradict each other fails, whatever the ledger holds
\* from earlier runs, those that were aborted included.
OwnContradictionFails ==
    \A r \in Run : stage[r] = "done" /\ Contradicts(results[r]) => exitCode[r] = 3

\* A run that all of bootstrap, sim and tunnel have reported to fails for no
\* contradiction but its own.
CompleteRunFailsForItsOwn ==
    \A r \in Run :
        /\ stage[r] = "done" /\ exitCode[r] = 3
        /\ results[r].bootstrap # None /\ results[r].sim # None /\ results[r].tunnel # None
        => Contradicts(results[r])
=============================================================================
