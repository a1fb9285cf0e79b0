------------------------------- MODULE Runner -------------------------------
(***************************************************************************)
(* The job of .github/workflows/proxy.yml, and the coordinator that it     *)
(* registers with.  An attempt of the job sets a tunnel up, registers the  *)
(* proxy and a signed record of it, repeats heartbeats while the proxy     *)
(* runs, registers again when the coordinator no longer knows it, and      *)
(* takes the record back at the end, if the job lives that long: it is     *)
(* cancelled when it has lasted as long as the proxy was to live.          *)
(*                                                                         *)
(* The secrets are set: COORDINATOR_URL, AUTH_TOKEN and the signing key.   *)
(* Time is counted in parts of the heartbeat period.  Calls are answered   *)
(* before time goes on, or fail.                                           *)
(***************************************************************************)
EXTENDS Integers, FiniteSets

CONSTANTS
    Attempt,         \* the attempts of one run, each of which is a job
    RunId,           \* "gha-$GITHUB_RUN_ID", which the attempts share
    MeshId,          \* the nodeId of each attempt
    Net, None, MinTtl, Grace, DefaultTtl, MaxTtl, MaxAhead, MaxNow,
    JobLimit,        \* timeout-minutes
    Life,            \* from the calculation of EXPIRES_AT to it
    Period,          \* ten iterations of the loop
    Beats,           \* as many heartbeats as the loop makes
    MaxSetup,        \* bound: how long the steps before the registration take
    MaxLosses        \* bound: how often calls fail or the store is emptied

Node == {RunId} \cup {MeshId[a] : a \in Attempt}

ASSUME RunnerAssumption ==
    /\ Net # {} /\ None \notin Net \cup Node \cup Nat
    /\ MinTtl \in Nat /\ Grace \in Nat /\ DefaultTtl \in Nat
    /\ MaxTtl \in Nat /\ MaxAhead \in Nat /\ MaxNow \in Nat
    /\ MinTtl <= MaxTtl /\ MaxAhead <= MaxTtl
    /\ MeshId \in [Attempt -> STRING]
    /\ \A a, b \in Attempt : MeshId[a] = MeshId[b] => a = b
    /\ \A a \in Attempt : MeshId[a] # RunId
    /\ JobLimit \in Nat /\ Life \in Nat /\ Period \in Nat \ {0} /\ Beats \in Nat
    /\ JobLimit <= Life /\ Life <= MaxAhead
    /\ MaxSetup \in Nat /\ MaxLosses \in Nat

VARIABLES now, mesh, proxy, req, reader, gone, hidden

VARIABLES
    stage,      \* the step of the job
    started,    \* when the job started
    expires,    \* EXPIRES_AT
    createdAt,  \* CREATED_AT, of the signed record
    looping,    \* when the keep-alive loop was entered
    beats,      \* how many heartbeats the loop has made
    disturbed,  \* history: a call of this round of heartbeats has failed
    halved,     \* history: a call failed between the record and its proxy
    closed,     \* history: the attempts whose deregistration was answered
    losses      \* bookkeeping of the bound

storeVars == <<mesh, proxy, req, reader, gone, hidden>>
jobVars == <<started, expires, createdAt, looping, beats>>
vars == <<now, storeVars, stage, jobVars, disturbed, halved, closed, losses>>

\* Each attempt makes its calls one after the other.
Worker == INSTANCE Coordinator WITH
    Req <- Attempt, EnvNet <- None, ExpTimes <- 0..(MaxNow + Life),
    HeartbeatExps <- 0..(MaxNow + Life), HbTimes <- 0..MaxNow,
    SerialClients <- FALSE, PromptHandlers <- TRUE, StoreMayFail <- TRUE,
    Ops <- {"register", "heartbeat", "meshRegister", "meshHeartbeat", "meshDeregister"}

\* An absent key is told apart from every entry.
ASSUME EntryAssumption ==
    None \notin Worker!Entry(Worker!Record) /\ None \notin Worker!Entry(Worker!Config)

Stages == {"off", "setup", "register", "registering", "mesh", "loop", "heartbeat",
           "reregister", "meshReregister", "round", "deregister",
           "deregistering", "ended"}

TypeOK ==
    /\ Worker!TypeOK
    /\ stage \in [Attempt -> Stages]
    /\ started \in [Attempt -> 0..MaxNow]
    /\ expires \in [Attempt -> 0..(MaxNow + Life)]
    /\ createdAt \in [Attempt -> 0..MaxNow]
    /\ looping \in [Attempt -> 0..MaxNow]
    /\ beats \in [Attempt -> 0..Beats]
    /\ disturbed \subseteq Attempt /\ halved \subseteq Attempt
    /\ closed \subseteq Attempt
    /\ losses \in 0..MaxLosses

Active(a) == stage[a] \notin {"off", "ended"}
Answered(a) == req[a] = Worker!Idle
Goto(a, s) == stage' = [stage EXCEPT ![a] = s]

-----------------------------------------------------------------------------
(* The steps of the job up to the registration                             *)

\* A run is attempted again only when its last attempt has ended.  A machine
\* does not start before the calls of the last one are over.
StartJob(a) ==
    /\ stage[a] = "off"
    /\ \A b \in Attempt : ~Active(b) /\ Answered(b)
    /\ Goto(a, "setup")
    /\ started' = [started EXCEPT ![a] = now]
    /\ UNCHANGED <<now, storeVars, expires, createdAt, looping, beats, disturbed, halved,
                   closed, losses>>

\* Mutant: counted from when the job will have ended.
MutExpiresAt == now + JobLimit + Life
ExpiresAt == now + Life

CalculateExpiry(a) ==
    /\ stage[a] = "setup"
    /\ Goto(a, "register")
    /\ expires' = [expires EXCEPT ![a] = ExpiresAt]
    /\ UNCHANGED <<now, storeVars, started, createdAt, looping, beats, disturbed, halved,
                   closed, losses>>

RegisterProxy(a) ==
    /\ stage[a] = "register"
    /\ Worker!Register(a, RunId, expires[a])
    /\ Goto(a, "registering")
    /\ createdAt' = [createdAt EXCEPT ![a] = now]
    /\ UNCHANGED <<started, expires, looping, beats, disturbed, halved, closed, losses>>

Signed(a) ==
    [networkId |-> CHOOSE w \in Net : TRUE, nodeId |-> MeshId[a],
     heartbeatAt |-> createdAt[a], expiresAt |-> expires[a], signed |-> TRUE]

RegisterMesh(a) ==
    /\ stage[a] = "registering"
    /\ Answered(a)
    /\ Worker!MeshRegister(a, Signed(a))
    /\ Goto(a, "mesh")
    /\ UNCHANGED <<jobVars, disturbed, halved, closed, losses>>

EnterLoop(a) ==
    /\ stage[a] = "mesh"
    /\ Answered(a)
    /\ Goto(a, "loop")
    /\ looping' = [looping EXCEPT ![a] = now]
    /\ UNCHANGED <<now, storeVars, started, expires, createdAt, beats, disturbed, halved,
                   closed, losses>>

-----------------------------------------------------------------------------
(* The keep-alive loop: every tenth iteration makes a heartbeat, before it *)
(* sleeps.                                                                 *)

Wake(a) ==
    IF beats[a] < Beats THEN looping[a] + Period * (beats[a] + 1) - 1
    ELSE looping[a] + Period * Beats

\* Mutant: the heartbeat does not say until when the proxy lives.
MutHeartbeatExpiry(a) == None
HeartbeatExpiry(a) == expires[a]

Heartbeat(a) ==
    /\ stage[a] = "loop" /\ beats[a] < Beats /\ now = Wake(a)
    /\ Worker!Heartbeat(a, RunId, HeartbeatExpiry(a))
    /\ Goto(a, IF Worker!Live(proxy[RunId]) THEN "heartbeat" ELSE "reregister")
    /\ disturbed' = disturbed \ {a}
    /\ UNCHANGED <<jobVars, halved, closed, losses>>

\* 404: the proxy is registered again, with the EXPIRES_AT of the first time.
Reregister(a) ==
    /\ stage[a] = "reregister"
    /\ Worker!Register(a, RunId, expires[a])
    /\ Goto(a, "heartbeat")
    /\ UNCHANGED <<jobVars, disturbed, halved, closed, losses>>

MeshKey(a) == <<Signed(a).networkId, MeshId[a]>>

\* Mutant: a lost mesh record is not noticed.
MutAfterMeshHeartbeat(a) == "round"
AfterMeshHeartbeat(a) ==
    IF Worker!Live(mesh[MeshKey(a)]) THEN "round" ELSE "meshReregister"

MeshHeartbeat(a) ==
    /\ stage[a] = "heartbeat"
    /\ Answered(a)
    /\ Worker!MeshHeartbeat(a, Signed(a).networkId, MeshId[a], expires[a])
    /\ Goto(a, AfterMeshHeartbeat(a))
    /\ UNCHANGED <<jobVars, disturbed, halved, closed, losses>>

\* 404: the file that was posted first is posted again; the coordinator refuses
\* it when it has expired.
MeshReregister(a) ==
    /\ stage[a] = "meshReregister"
    /\ Worker!MeshRegister(a, Signed(a))
    /\ Goto(a, "round")
    /\ UNCHANGED <<jobVars, disturbed, halved, closed, losses>>

EndRound(a) ==
    /\ stage[a] = "round"
    /\ Answered(a)
    /\ Goto(a, "loop")
    /\ beats' = [beats EXCEPT ![a] = @ + 1]
    /\ UNCHANGED <<now, storeVars, started, expires, createdAt, looping, disturbed, halved,
                   closed, losses>>

-----------------------------------------------------------------------------
(* The end of the job                                                      *)

LeaveLoop(a) ==
    /\ stage[a] = "loop" /\ beats[a] = Beats /\ now = Wake(a)
    /\ Goto(a, "deregister")
    /\ UNCHANGED <<now, storeVars, jobVars, disturbed, halved, closed, losses>>

MeshDeregister(a) ==
    /\ stage[a] = "deregister"
    /\ Worker!MeshDeregister(a, Signed(a).networkId, MeshId[a])
    /\ Goto(a, "deregistering")
    /\ UNCHANGED <<jobVars, disturbed, halved, closed, losses>>

Finish(a) ==
    /\ stage[a] = "deregistering"
    /\ Answered(a)
    /\ Goto(a, "ended")
    /\ closed' = closed \cup {a}
    /\ UNCHANGED <<now, storeVars, jobVars, disturbed, halved, losses>>

\* The job is cancelled, by its user, by its timeout or with its machine.  The
\* coordinator carries out what it has been asked.
Cancel(a) ==
    /\ Active(a)
    /\ Goto(a, "ended")
    /\ UNCHANGED <<now, storeVars, jobVars, disturbed, halved, closed, losses>>

-----------------------------------------------------------------------------
(* What goes wrong on the way                                              *)

Loss == losses < MaxLosses /\ losses' = losses + 1

\* What follows a call that was answered with neither 200 nor 404, or not at all.
\* Only the first registration has to succeed.
AfterFailure(s) ==
    CASE s \in {"register", "registering", "deregister", "deregistering"} -> "ended"
      [] s \in {"loop", "reregister"} -> "heartbeat"
      [] s \in {"heartbeat", "meshReregister"} -> "round"
      [] OTHER -> s

\* The call does not get through.
CallFails(a) ==
    /\ Loss
    /\ \/ stage[a] \in {"register", "reregister", "meshReregister", "deregister"}
       \/ stage[a] = "heartbeat" /\ Answered(a)
       \/ stage[a] = "loop" /\ beats[a] < Beats /\ now = Wake(a)
    /\ Goto(a, AfterFailure(stage[a]))
    /\ disturbed' = disturbed \cup {a}
    /\ UNCHANGED <<now, storeVars, jobVars, halved, closed>>

\* The first registration is carried out, and its answer lost.
AnswerLost(a) ==
    /\ Loss
    /\ stage[a] = "registering" /\ Answered(a)
    /\ Goto(a, "ended")
    /\ UNCHANGED <<now, storeVars, jobVars, disturbed, halved, closed>>

\* The record is not posted, and the job goes on.
MeshRegistrationFails(a) ==
    /\ Loss
    /\ stage[a] = "registering" /\ Answered(a)
    /\ Goto(a, "mesh")
    /\ UNCHANGED <<now, storeVars, jobVars, disturbed, halved, closed>>

\* The record is stored, and the proxy that is derived from it is not.
Halfway(a) == req[a].op \in {"meshRegister", "meshHeartbeat"}
              /\ req[a].pc \in {"getProxy", "putProxy"}

\* A store operation throws while the coordinator serves the call: 500.
CoordinatorFails(a) ==
    /\ Loss
    /\ Worker!InternalError(a)
    /\ Goto(a, IF stage[a] \in {"registering", "deregistering"} THEN "ended" ELSE stage[a])
    /\ disturbed' = disturbed \cup {a}
    /\ halved' = IF Halfway(a) THEN halved \cup {a} ELSE halved
    /\ UNCHANGED <<jobVars, closed>>

\* Without KV the store is a Map in the memory of an isolate, which is replaced
\* between two requests.
StoreIsEmptied ==
    /\ Loss
    /\ \A a \in Attempt : Answered(a)
    /\ mesh' = [k \in DOMAIN mesh |-> None]
    /\ proxy' = [n \in DOMAIN proxy |-> None]
    /\ disturbed' = Attempt
    /\ UNCHANGED <<now, req, reader, gone, hidden, stage, jobVars, halved, closed>>

-----------------------------------------------------------------------------

Serve(a) ==
    /\ \/ Worker!PutProxy(a) \/ Worker!PutMesh(a) \/ Worker!MeshRegisterCheck(a)
       \/ Worker!MeshHeartbeatGetProxy(a) \/ Worker!DeleteProxy(a)
    /\ halved' = IF req[a].op = "meshRegister" /\ req[a].pc = "putProxy"
                 THEN halved \ {a} ELSE halved
    /\ UNCHANGED <<stage, jobVars, disturbed, closed, losses>>

TimedOut(a) == now - started[a] >= JobLimit

\* A job that has timed out is cancelled at once.  Only the setup and the sleeps
\* of the loop take time, the sleeps as long as they say.
Tick ==
    /\ Worker!Tick
    /\ \A a \in Attempt : Active(a) =>
           /\ ~TimedOut(a)
           /\ \/ stage[a] = "setup" /\ now - started[a] < MaxSetup
              \/ stage[a] = "loop" /\ now < Wake(a)
    /\ UNCHANGED <<stage, jobVars, disturbed, halved, closed, losses>>

Init ==
    /\ Worker!Init
    /\ stage = [a \in Attempt |-> "off"]
    /\ started = [a \in Attempt |-> 0] /\ expires = [a \in Attempt |-> 0]
    /\ createdAt = [a \in Attempt |-> 0] /\ looping = [a \in Attempt |-> 0]
    /\ beats = [a \in Attempt |-> 0]
    /\ disturbed = {} /\ halved = {} /\ closed = {} /\ losses = 0

Job(a) ==
    \/ StartJob(a) \/ CalculateExpiry(a) \/ RegisterProxy(a) \/ RegisterMesh(a)
    \/ EnterLoop(a) \/ Heartbeat(a) \/ Reregister(a) \/ MeshHeartbeat(a)
    \/ MeshReregister(a) \/ EndRound(a) \/ LeaveLoop(a) \/ MeshDeregister(a)
    \/ Finish(a) \/ Cancel(a)

Failure(a) ==
    CallFails(a) \/ AnswerLost(a) \/ MeshRegistrationFails(a) \/ CoordinatorFails(a)

Next ==
    \/ \E a \in Attempt : Job(a) \/ Serve(a) \/ Failure(a)
    \/ StoreIsEmptied
    \/ Tick

Spec == Init /\ [][Next]_vars

-----------------------------------------------------------------------------

\* Nothing that a run has registered is served for longer than the grace period
\* after its EXPIRES_AT, however its job has ended and whatever was registered
\* again: no heartbeat finds EXPIRES_AT lapsed and is given the default life.
EntriesLapse ==
    /\ \A a \in Attempt :
           Worker!Live(mesh[MeshKey(a)]) \/ Worker!Live(proxy[MeshId[a]])
               => now <= expires[a] + Grace
    /\ Worker!Live(proxy[RunId]) => \E a \in Attempt : now <= expires[a] + Grace

\* A round of heartbeats whose calls were all carried out leaves the run listed,
\* with its proxy and with its record, whatever was lost before.
RoundRestores ==
    \A a \in Attempt :
        stage[a] = "round" /\ Answered(a) /\ a \notin disturbed
        => /\ Worker!Live(proxy[RunId]) /\ proxy[RunId].val.expiresAt = expires[a]
           /\ Worker!Live(mesh[MeshKey(a)])

\* While no call about it is being served, a node that /mesh/status counts has its
\* link in /sub/all: both entries are put with one time to live, and lapse, are
\* emptied and are deleted together.  The exception is a call that failed between
\* its two puts, which no heartbeat mends, only the next registration.
MeshNodeSubscribable ==
    \A a \in Attempt :
        Answered(a) /\ a \notin halved /\ Worker!Live(mesh[MeshKey(a)])
        => Worker!Live(proxy[MeshId[a]])

\* Nothing of an attempt comes back after its deregistration was answered, but
\* the proxy under the id of the run.
ClosedStaysGone ==
    \A a \in closed :
        ~Worker!Live(mesh[MeshKey(a)]) /\ ~Worker!Live(proxy[MeshId[a]])
=============================================================================
