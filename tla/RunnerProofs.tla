---------------------------- MODULE RunnerProofs ----------------------------
(***************************************************************************)
(* Proofs about Runner, for any number of attempts, lives and periods,     *)
(* with calls and answers lost, an emptied store and cancellation          *)
(* anywhere.                                                               *)
(***************************************************************************)
EXTENDS Runner, TLAPS

USE RunnerAssumption

-----------------------------------------------------------------------------
(* The inductive invariant, in parts.                                      *)

Network == CHOOSE w \in Net : TRUE
Key(a) == <<Network, MeshId[a]>>

\* Where the entries of an attempt are, and those of the run.
Mine(a) == mesh[Key(a)]
Derived(a) == proxy[MeshId[a]]
Runs == proxy[RunId]
RunConfig(a) == [id |-> RunId, expiresAt |-> expires[a], publicRecord |-> None]

InLoop == {"loop", "heartbeat", "reregister", "meshReregister", "round"}
InRound == {"heartbeat", "reregister", "meshReregister", "round"}

\* One attempt at a time works, or is waited for.
Busy(a) == Active(a) \/ ~Answered(a)
Alone == \A a, b \in Attempt : Busy(a) /\ Busy(b) => a = b

\* The call that the coordinator serves is the one that the job has made.
Serves(a, ops, pcs, stages) ==
    req[a].op \in ops /\ req[a].pc \in pcs /\ stage[a] \in stages \cup {"ended"}
OfRun(a) == req[a].node = RunId
OfNode(a) == req[a].net = Network /\ req[a].node = MeshId[a]
CallOK(a) ==
    \/ req[a] = Worker!Idle
    \/ /\ \/ Serves(a, {"register"}, {"putProxy"}, {"registering", "heartbeat"})
          \/ Serves(a, {"heartbeat"}, {"putProxy"}, {"heartbeat"})
       /\ OfRun(a) /\ req[a].cfg = RunConfig(a)
    \/ /\ Serves(a, {"meshRegister"}, {"getMesh", "putMesh", "putProxy"}, {"mesh", "round"})
       /\ OfNode(a) /\ req[a].rec = Signed(a)
    \/ /\ Serves(a, {"meshHeartbeat"}, {"putMesh", "getProxy", "putProxy"}, {"round"})
       /\ OfNode(a)
    \/ /\ Serves(a, {"meshDeregister"}, {"delProxy"}, {"deregistering"})
       /\ OfNode(a)

\* What it carries can be stored.
CarriedOK(a) ==
    /\ req[a].pc = "putMesh" => req[a].rec \in Worker!Record
    /\ req[a].pc = "putProxy" => req[a].cfg \in Worker!Config

\* A job that has been registered finds no other config than its own.
Owns(a) == stage[a] \in {"mesh"} \cup InLoop \/ (stage[a] = "registering" /\ Answered(a))
OwnedOK(a) == Owns(a) /\ Runs # None => Runs.val = RunConfig(a)

BeatsOK(a) == stage[a] \in InRound => beats[a] < Beats

\* What the calls of an undisturbed round have put is there when they are answered.
RoundOK(a) ==
    a \notin disturbed =>
        /\ stage[a] \in {"heartbeat", "meshReregister", "round"} =>
               req[a].op \in {"register", "heartbeat"} \/ Worker!Live(Runs)
        /\ stage[a] = "round" =>
               req[a].pc \in {"getMesh", "putMesh"} \/ Worker!Live(Mine(a))

\* The entries that are put together lapse together.
Storing(a) ==
    /\ req[a].op \in {"meshRegister", "meshHeartbeat"}
    /\ req[a].pc \in {"getProxy", "putProxy"}
PairOK(a) ==
    /\ ~Storing(a) /\ a \notin halved /\ Worker!Live(Mine(a)) =>
           Derived(a) # None /\ Mine(a).expires <= Derived(a).expires
    /\ Storing(a) => Mine(a) # None /\ Mine(a).expires = now + req[a].ttl
    /\ req[a].pc = "getProxy" /\ a \notin halved => Worker!Live(Derived(a))
    /\ req[a].op = "meshHeartbeat" /\ req[a].pc = "putMesh" => Worker!Live(Mine(a))

\* Nobody puts what has been deregistered.
GoneOK(a) ==
    /\ a \in closed => stage[a] = "ended" /\ Answered(a)
    /\ a \in closed \/ stage[a] = "deregistering" \/ req[a].pc = "delProxy"
           => Mine(a) = None
    /\ a \in closed \/ (stage[a] = "deregistering" /\ Answered(a)) => Derived(a) = None

LocalInv(a) ==
    /\ CallOK(a) /\ CarriedOK(a) /\ OwnedOK(a) /\ BeatsOK(a) /\ RoundOK(a)
    /\ PairOK(a) /\ GoneOK(a)

IInv == TypeOK /\ Alone /\ \A a \in Attempt : LocalInv(a)

-----------------------------------------------------------------------------
(* The constants.                                                          *)

LEMMA NodeFacts ==
  /\ Network \in Net /\ Network # None /\ RunId \in Node
  /\ \A a \in Attempt : /\ MeshId[a] \in Node /\ MeshId[a] # RunId
                        /\ Key(a) \in Worker!MeshKey
                        /\ \A b \in Attempt : MeshId[a] = MeshId[b] => a = b
<1>1. Network \in Net /\ Network # None
  BY DEF Network
<1>2. \A a \in Attempt : MeshId[a] \in Node
  BY DEF Node
<1>3. \A a \in Attempt : Key(a) \in Worker!MeshKey
  BY <1>1, <1>2 DEF Key, Worker!MeshKey
<1>4. QED
  BY <1>1, <1>2, <1>3 DEF Node

LEMMA KeysDiffer ==
  /\ \A a \in Attempt : MeshKey(a) = Key(a) /\ Signed(a).networkId = Network
                        /\ MeshKey(a)' = Key(a) /\ Signed(a).nodeId = MeshId[a]
  /\ \A a, b \in Attempt : a # b => Key(a) # Key(b)
<1>1. \A a \in Attempt : MeshKey(a) = Key(a) /\ Signed(a).networkId = Network
                        /\ MeshKey(a)' = Key(a) /\ Signed(a).nodeId = MeshId[a]
  BY DEF MeshKey, Signed, Network, Key
<1>2. \A a, b \in Attempt : a # b => Key(a) # Key(b)
  BY NodeFacts DEF Key
<1>3. QED
  BY <1>1, <1>2

LEMMA Ttls ==
  ASSUME now \in Nat, NEW e \in Nat
  PROVE  /\ Worker!TtlFromExpiresAt(e) \in Nat
         /\ Worker!RegisterTtl(e) \in Nat /\ Worker!HeartbeatTtl(e) \in Nat
BY DEF Worker!TtlFromExpiresAt, Worker!RegisterTtl, Worker!HeartbeatTtl, Worker!Greater,
       Worker!Lesser, Worker!Remaining

LEMMA Derives ==
  ASSUME NEW rec \in Worker!Record
  PROVE  Worker!DeriveProxyConfig(rec) \in Worker!Config
BY DEF Worker!Record, Worker!DeriveProxyConfig, Worker!Config

LEMMA Entries ==
  /\ \A v \in Worker!Record, t \in Nat : [val |-> v, expires |-> t] # None
  /\ \A v \in Worker!Config, t \in Nat : [val |-> v, expires |-> t] # None
BY EntryAssumption DEF Worker!Entry

LEMMA SignedRecord ==
  ASSUME TypeOK, NEW a \in Attempt
  PROVE  /\ Signed(a) \in Worker!Record
         /\ RunConfig(a) \in Worker!Config
         /\ expires[a] \in Nat
<1>1. expires[a] \in 0..(MaxNow + Life) /\ createdAt[a] \in 0..MaxNow
  BY DEF TypeOK
<1>2. Signed(a) \in Worker!Record
  BY <1>1, NodeFacts DEF Signed, Network, Worker!Record
<1>3. RunConfig(a) \in Worker!Config
  BY <1>1, NodeFacts DEF RunConfig, Worker!Config
<1>4. QED
  BY <1>1, <1>2, <1>3

-----------------------------------------------------------------------------
(* A step of one attempt: the others neither work nor wait.                *)

Apart(a) ==
    /\ now' = now
    /\ \A b \in Attempt \ {a} :
           /\ ~Active(b) /\ req[b] = Worker!Idle
           /\ stage'[b] = stage[b] /\ req'[b] = req[b] /\ expires'[b] = expires[b]
           /\ mesh'[Key(b)] = mesh[Key(b)] /\ proxy'[MeshId[b]] = proxy[MeshId[b]]
           /\ (b \in disturbed' <=> b \in disturbed) /\ (b \in halved' <=> b \in halved)
           /\ (b \in closed' <=> b \in closed)

\* What holds of an attempt that rests holds as long as nobody touches its entries.
LEMMA Resting ==
  ASSUME NEW b \in Attempt, LocalInv(b), ~Active(b), req[b] = Worker!Idle, now' = now,
         stage'[b] = stage[b], req'[b] = req[b],
         mesh'[Key(b)] = mesh[Key(b)], proxy'[MeshId[b]] = proxy[MeshId[b]],
         b \in halved' <=> b \in halved, b \in closed' <=> b \in closed
  PROVE  LocalInv(b)'
<1> USE DEF LocalInv
<1>1. /\ stage'[b] \in {"off", "ended"} /\ req'[b] = Worker!Idle
      /\ req'[b].op = "none" /\ req'[b].pc = "idle"
  BY DEF Active, Worker!Idle
<1>2. CallOK(b)' /\ CarriedOK(b)'
  BY <1>1 DEF CallOK, CarriedOK, Worker!Idle
<1>3. OwnedOK(b)' /\ BeatsOK(b)' /\ RoundOK(b)'
  BY <1>1 DEF OwnedOK, Owns, InLoop, BeatsOK, InRound, RoundOK
<1>4. PairOK(b)'
  BY <1>1 DEF PairOK, Storing, Mine, Derived, Worker!Live, Worker!Idle
<1>5. GoneOK(b)'
  BY <1>1 DEF GoneOK, Mine, Derived, Answered, Worker!Idle
<1>6. QED
  BY <1>2, <1>3, <1>4, <1>5

LEMMA OneSteps ==
  ASSUME NEW a \in Attempt, IInv, TypeOK', Apart(a), LocalInv(a)'
  PROVE  IInv'
<1>1. ASSUME NEW b \in Attempt, b # a PROVE LocalInv(b)' /\ ~Busy(b)'
  <2>1. b \in Attempt \ {a}
    BY <1>1
  <2>2. LocalInv(b)'
    BY <2>1, Resting DEF IInv, Apart
  <2>3. ~Busy(b)'
    BY <2>1 DEF Apart, Busy, Active, Answered, Worker!Idle
  <2>4. QED
    BY <2>2, <2>3
<1>2. Alone'
  BY <1>1 DEF Alone
<1>3. QED
  BY <1>1, <1>2 DEF IInv

\* An attempt that works is alone.
LEMMA OthersRest ==
  ASSUME IInv, NEW a \in Attempt, Busy(a)
  PROVE  \A b \in Attempt \ {a} : ~Active(b) /\ req[b] = Worker!Idle
BY DEF IInv, Alone, Busy, Answered

-----------------------------------------------------------------------------
(* The store.                                                              *)

LEMMA EvictsMesh ==
  ASSUME TypeOK, NEW k \in Worker!MeshKey, mesh' = Worker!Evict(mesh, {k})
  PROVE  /\ mesh' \in [Worker!MeshKey -> Worker!Entry(Worker!Record) \cup {None}]
         /\ \A j \in Worker!MeshKey :
                mesh'[j] = IF j = k /\ ~Worker!Live(mesh[k]) THEN None ELSE mesh[j]
BY DEF TypeOK, Worker!TypeOK, Worker!Evict

LEMMA EvictsProxy ==
  ASSUME TypeOK, NEW n \in Node, proxy' = Worker!Evict(proxy, {n})
  PROVE  /\ proxy' \in [Node -> Worker!Entry(Worker!Config) \cup {None}]
         /\ \A j \in Node :
                proxy'[j] = IF j = n /\ ~Worker!Live(proxy[n]) THEN None ELSE proxy[j]
BY DEF TypeOK, Worker!TypeOK, Worker!Evict

LEMMA PutsMesh ==
  ASSUME TypeOK, NEW k \in Worker!MeshKey, NEW v \in Worker!Record, NEW t \in Nat,
         mesh' = [mesh EXCEPT ![k] = Worker!Stored(v, t)]
  PROVE  /\ mesh' \in [Worker!MeshKey -> Worker!Entry(Worker!Record) \cup {None}]
         /\ mesh'[k] = [val |-> v, expires |-> now + t]
         /\ \A j \in Worker!MeshKey : j # k => mesh'[j] = mesh[j]
BY DEF TypeOK, Worker!TypeOK, Worker!Stored, Worker!Entry

LEMMA PutsProxy ==
  ASSUME TypeOK, NEW n \in Node, NEW v \in Worker!Config, NEW t \in Nat,
         proxy' = [proxy EXCEPT ![n] = Worker!Stored(v, t)]
  PROVE  /\ proxy' \in [Node -> Worker!Entry(Worker!Config) \cup {None}]
         /\ proxy'[n] = [val |-> v, expires |-> now + t]
         /\ \A j \in Node : j # n => proxy'[j] = proxy[j]
BY DEF TypeOK, Worker!TypeOK, Worker!Stored, Worker!Entry

\* What stays as it is when the coordinator does nothing.
LEMMA StoreStill ==
  ASSUME IInv, NEW a \in Attempt, UNCHANGED <<now, storeVars>>
  PROVE  /\ Worker!TypeOK'
         /\ mesh' = mesh /\ proxy' = proxy /\ req' = req /\ now' = now
         /\ \A b \in Attempt : Mine(b)' = Mine(b) /\ Derived(b)' = Derived(b)
         /\ Runs' = Runs
BY DEF IInv, TypeOK, Worker!TypeOK, storeVars, Mine, Derived, Runs

-----------------------------------------------------------------------------
(* The steps of the job that call nobody.                                  *)

LEMMA InitIInv == Init => IInv
<1> SUFFICES ASSUME Init PROVE IInv
  OBVIOUS
<1>1. /\ \A a \in Attempt : stage[a] = "off" /\ req[a] = Worker!Idle /\ beats[a] = 0
      /\ Worker!Idle.op = "none" /\ Worker!Idle.pc = "idle"
      /\ disturbed = {} /\ halved = {} /\ closed = {}
      /\ mesh = [k \in Worker!MeshKey |-> None] /\ proxy = [n \in Node |-> None]
  BY DEF Init, Worker!Init, Worker!Idle
<1>2. Worker!Idle \in Worker!Slot
  BY DEF Worker!Idle, Worker!Slot, Worker!Stages
<1>3. Worker!TypeOK
  BY <1>2 DEF Init, Worker!Init, Worker!TypeOK, Worker!NotReading
<1>4. TypeOK
  BY <1>3 DEF Init, TypeOK, Stages
<1>5. Alone
  BY <1>1 DEF Alone, Busy, Active, Answered
<1>6. ASSUME NEW a \in Attempt PROVE LocalInv(a)
  <2>1. Mine(a) = None /\ Derived(a) = None
    BY <1>1, NodeFacts DEF Mine, Derived
  <2>2. CallOK(a) /\ CarriedOK(a) /\ OwnedOK(a) /\ BeatsOK(a) /\ RoundOK(a)
    BY <1>1 DEF CallOK, CarriedOK, OwnedOK, Owns, InLoop, BeatsOK, InRound, RoundOK
  <2>3. PairOK(a) /\ GoneOK(a)
    BY <1>1, <2>1 DEF PairOK, Storing, GoneOK, Worker!Live
  <2>4. QED
    BY <2>2, <2>3 DEF LocalInv
<1>7. QED
  BY <1>4, <1>5, <1>6 DEF IInv

\* What a step that calls nobody leaves of the invariant to be looked at.
LEMMA AloneStep ==
  ASSUME IInv, NEW a \in Attempt, NEW s \in Stages, Goto(a, s),
         UNCHANGED <<now, storeVars>>,
         \A b \in Attempt \ {a} : ~Active(b) /\ req[b] = Worker!Idle,
         \A b \in Attempt \ {a} :
             /\ expires'[b] = expires[b]
             /\ (b \in disturbed' <=> b \in disturbed) /\ (b \in halved' <=> b \in halved)
             /\ (b \in closed' <=> b \in closed)
  PROVE  /\ Worker!TypeOK' /\ stage' \in [Attempt -> Stages] /\ stage'[a] = s
         /\ Apart(a)
         /\ now' = now /\ req'[a] = req[a] /\ Mine(a)' = Mine(a) /\ Derived(a)' = Derived(a)
         /\ Runs' = Runs
<1>1. stage' = [stage EXCEPT ![a] = s] /\ stage \in [Attempt -> Stages]
  BY DEF IInv, TypeOK, Goto
<1>2. stage' \in [Attempt -> Stages] /\ stage'[a] = s
  BY <1>1
<1>3. \A b \in Attempt \ {a} : stage'[b] = stage[b]
  BY <1>1
<1>4. Apart(a)
  BY <1>3, StoreStill DEF Apart
<1>5. QED
  BY <1>2, <1>4, StoreStill

LEMMA SetupSteps ==
  ASSUME IInv, NEW a \in Attempt, StartJob(a) \/ CalculateExpiry(a) PROVE IInv'
<1>1. \A b \in Attempt \ {a} : ~Active(b) /\ req[b] = Worker!Idle
  BY OthersRest DEF StartJob, CalculateExpiry, Busy, Active, Answered
<1>2. PICK s \in {"setup", "register"} : Goto(a, s)
  BY DEF StartJob, CalculateExpiry
<1>3. /\ UNCHANGED <<now, storeVars>> /\ stage[a] \in {"off", "setup"}
      /\ disturbed' = disturbed /\ halved' = halved /\ closed' = closed
      /\ losses' = losses /\ createdAt' = createdAt /\ looping' = looping /\ beats' = beats
  BY DEF StartJob, CalculateExpiry
<1>4. /\ expires' \in [Attempt -> 0..(MaxNow + Life)] /\ started' \in [Attempt -> 0..MaxNow]
      /\ \A b \in Attempt \ {a} : expires'[b] = expires[b]
  <2>1. now \in 0..MaxNow
    BY DEF IInv, TypeOK, Worker!TypeOK
  <2>2. ExpiresAt \in 0..(MaxNow + Life)
    BY <2>1 DEF ExpiresAt
  <2>3. QED
    BY <2>1, <2>2 DEF StartJob, CalculateExpiry, IInv, TypeOK
<1>5. /\ Worker!TypeOK' /\ stage' \in [Attempt -> Stages] /\ stage'[a] = s /\ Apart(a)
      /\ now' = now /\ req'[a] = req[a] /\ Mine(a)' = Mine(a) /\ Derived(a)' = Derived(a)
      /\ Runs' = Runs
  <2>1. s \in Stages
    BY DEF Stages
  <2>2. QED
    BY <1>1, <1>2, <1>3, <1>4, <2>1, AloneStep
<1>6. TypeOK'
  BY <1>3, <1>4, <1>5 DEF IInv, TypeOK
<1>7. req[a] = Worker!Idle
  BY <1>3 DEF IInv, LocalInv, CallOK, Serves
<1>8. LocalInv(a)'
  <2>1. req'[a].op = "none" /\ req'[a].pc = "idle"
    BY <1>5, <1>7 DEF Worker!Idle
  <2>2. CallOK(a)' /\ CarriedOK(a)'
    BY <1>5, <1>7, <2>1 DEF CallOK, CarriedOK, Worker!Idle
  <2>3. OwnedOK(a)' /\ BeatsOK(a)' /\ RoundOK(a)'
    BY <1>5 DEF OwnedOK, Owns, InLoop, BeatsOK, InRound, RoundOK
  <2>4. PairOK(a)'
    BY <1>3, <1>5, <2>1 DEF IInv, LocalInv, PairOK, Storing, Worker!Live
  <2>5. GoneOK(a)'
    BY <1>3, <1>5, <1>7 DEF IInv, LocalInv, GoneOK, Answered, Worker!Idle
  <2>6. QED
    BY <2>2, <2>3, <2>4, <2>5 DEF LocalInv
<1>9. QED
  BY <1>5, <1>6, <1>8, OneSteps

LEMMA LoopSteps ==
  ASSUME IInv, NEW a \in Attempt, EnterLoop(a) \/ EndRound(a) \/ LeaveLoop(a) PROVE IInv'
<1>1. \A b \in Attempt \ {a} : ~Active(b) /\ req[b] = Worker!Idle
  BY OthersRest DEF EnterLoop, EndRound, LeaveLoop, Busy, Active
<1>2. PICK s \in {"loop", "deregister"} : Goto(a, s)
  BY DEF EnterLoop, EndRound, LeaveLoop
<1>3. /\ UNCHANGED <<now, storeVars>> /\ stage[a] \in {"mesh", "round", "loop"}
      /\ disturbed' = disturbed /\ halved' = halved /\ closed' = closed
      /\ losses' = losses /\ createdAt' = createdAt /\ started' = started
      /\ expires' = expires
  BY DEF EnterLoop, EndRound, LeaveLoop, jobVars
<1>4. beats' \in [Attempt -> 0..Beats] /\ looping' \in [Attempt -> 0..MaxNow]
  <2>1. now \in 0..MaxNow
    BY DEF IInv, TypeOK, Worker!TypeOK
  <2>2. EndRound(a) => beats[a] + 1 \in 0..Beats
    BY DEF IInv, TypeOK, EndRound, LocalInv, BeatsOK, InRound
  <2>3. QED
    BY <2>1, <2>2 DEF EnterLoop, EndRound, LeaveLoop, jobVars, IInv, TypeOK
<1>5. /\ Worker!TypeOK' /\ stage' \in [Attempt -> Stages] /\ stage'[a] = s /\ Apart(a)
      /\ now' = now /\ req'[a] = req[a] /\ Mine(a)' = Mine(a) /\ Derived(a)' = Derived(a)
      /\ Runs' = Runs
  <2>1. s \in Stages
    BY DEF Stages
  <2>2. QED
    BY <1>1, <1>2, <1>3, <2>1, AloneStep
<1>6. TypeOK'
  BY <1>3, <1>4, <1>5 DEF IInv, TypeOK
<1>7. req[a] = Worker!Idle
  <2>1. CASE LeaveLoop(a)
    BY <2>1 DEF IInv, LocalInv, CallOK, Serves, LeaveLoop
  <2>2. CASE ~LeaveLoop(a)
    BY <2>2 DEF EnterLoop, EndRound, Answered
  <2>3. QED
    BY <2>1, <2>2
<1>8. LocalInv(a)'
  <2>1. req'[a].op = "none" /\ req'[a].pc = "idle"
    BY <1>5, <1>7 DEF Worker!Idle
  <2>2. CallOK(a)' /\ CarriedOK(a)'
    BY <1>5, <1>7, <2>1 DEF CallOK, CarriedOK, Worker!Idle
  <2>3. OwnedOK(a)'
    BY <1>3, <1>5 DEF IInv, LocalInv, OwnedOK, Owns, InLoop, RunConfig
  <2>4. BeatsOK(a)' /\ RoundOK(a)'
    BY <1>5 DEF BeatsOK, InRound, RoundOK
  <2>5. PairOK(a)'
    BY <1>3, <1>5, <2>1 DEF IInv, LocalInv, PairOK, Storing, Worker!Live
  <2>6. GoneOK(a)'
    BY <1>3, <1>5, <1>7 DEF IInv, LocalInv, GoneOK, Answered, Worker!Idle
  <2>7. QED
    BY <2>2, <2>3, <2>4, <2>5, <2>6 DEF LocalInv
<1>9. QED
  BY <1>5, <1>6, <1>8, OneSteps

LEMMA EndSteps ==
  ASSUME IInv, NEW a \in Attempt, Finish(a) \/ Cancel(a) \/ AnswerLost(a) PROVE IInv'
<1>1. Active(a) /\ \A b \in Attempt \ {a} : ~Active(b) /\ req[b] = Worker!Idle
  BY OthersRest DEF Finish, Cancel, AnswerLost, Busy, Active
<1>2. /\ UNCHANGED <<now, storeVars>> /\ Goto(a, "ended")
      /\ disturbed' = disturbed /\ halved' = halved
      /\ \/ closed' = closed
         \/ closed' = closed \cup {a} /\ stage[a] = "deregistering" /\ Answered(a)
      /\ losses' \in 0..MaxLosses
      /\ started' = started /\ expires' = expires /\ createdAt' = createdAt
      /\ looping' = looping /\ beats' = beats
  BY DEF Finish, Cancel, AnswerLost, Loss, jobVars, IInv, TypeOK
<1>3. /\ Worker!TypeOK' /\ stage' \in [Attempt -> Stages] /\ stage'[a] = "ended" /\ Apart(a)
      /\ now' = now /\ req'[a] = req[a] /\ Mine(a)' = Mine(a) /\ Derived(a)' = Derived(a)
      /\ Runs' = Runs
  <2>1. "ended" \in Stages
    BY DEF Stages
  <2>2. \A b \in Attempt \ {a} :
             /\ expires'[b] = expires[b]
             /\ (b \in disturbed' <=> b \in disturbed) /\ (b \in halved' <=> b \in halved)
             /\ (b \in closed' <=> b \in closed)
    BY <1>2
  <2>3. QED
    BY <1>1, <1>2, <2>1, <2>2, AloneStep
<1>4. TypeOK'
  BY <1>2, <1>3 DEF IInv, TypeOK
<1>5. LocalInv(a)'
  <2>1. CallOK(a)' /\ CarriedOK(a)'
    BY <1>2, <1>3 DEF IInv, LocalInv, CallOK, CarriedOK, Serves, OfRun, OfNode, RunConfig,
                      Signed
  <2>2. OwnedOK(a)' /\ BeatsOK(a)' /\ RoundOK(a)'
    BY <1>3 DEF OwnedOK, Owns, InLoop, BeatsOK, InRound, RoundOK
  <2>3. PairOK(a)'
    BY <1>2, <1>3 DEF IInv, LocalInv, PairOK, Storing, Worker!Live
  <2>4. GoneOK(a)'
    BY <1>1, <1>2, <1>3 DEF IInv, LocalInv, GoneOK, Answered, Active
  <2>5. QED
    BY <2>1, <2>2, <2>3, <2>4 DEF LocalInv
<1>6. QED
  BY <1>3, <1>4, <1>5, OneSteps

\* A call that does not get through spoils the round.
LEMMA FailSteps ==
  ASSUME IInv, NEW a \in Attempt, CallFails(a) \/ MeshRegistrationFails(a) PROVE IInv'
<1>1. Active(a) /\ \A b \in Attempt \ {a} : ~Active(b) /\ req[b] = Worker!Idle
  BY OthersRest DEF CallFails, MeshRegistrationFails, Busy, Active
<1>2. /\ UNCHANGED <<now, storeVars>>
      /\ disturbed' \in {disturbed, disturbed \cup {a}} /\ halved' = halved
      /\ closed' = closed /\ losses' \in 0..MaxLosses
      /\ started' = started /\ expires' = expires /\ createdAt' = createdAt
      /\ looping' = looping /\ beats' = beats
  BY DEF CallFails, MeshRegistrationFails, Loss, jobVars, IInv, TypeOK
<1>3. PICK s \in Stages :
          /\ Goto(a, s)
          /\ \/ s = "mesh" /\ stage[a] = "registering" /\ Answered(a)
             \/ s = "ended"
             \/ /\ s \in {"heartbeat", "round"} /\ a \in disturbed'
                /\ \/ stage[a] \in {"reregister", "meshReregister"}
                   \/ stage[a] = "heartbeat" /\ Answered(a)
                   \/ stage[a] = "loop" /\ beats[a] < Beats
  BY DEF CallFails, MeshRegistrationFails, AfterFailure, Stages
<1>4. /\ Worker!TypeOK' /\ stage' \in [Attempt -> Stages] /\ stage'[a] = s /\ Apart(a)
      /\ now' = now /\ req'[a] = req[a] /\ Mine(a)' = Mine(a) /\ Derived(a)' = Derived(a)
      /\ Runs' = Runs
  <2>1. \A b \in Attempt \ {a} :
             /\ expires'[b] = expires[b]
             /\ (b \in disturbed' <=> b \in disturbed) /\ (b \in halved' <=> b \in halved)
             /\ (b \in closed' <=> b \in closed)
    BY <1>2
  <2>2. QED
    BY <1>1, <1>2, <1>3, <2>1, AloneStep
<1>5. TypeOK'
  BY <1>2, <1>4 DEF IInv, TypeOK
<1>6. LocalInv(a)'
  <2>1. s # "ended" => req[a] = Worker!Idle
    BY <1>3 DEF IInv, LocalInv, CallOK, Serves, Answered
  <2>2. CallOK(a)' /\ CarriedOK(a)'
    BY <1>2, <1>4, <2>1 DEF IInv, LocalInv, CallOK, CarriedOK, Serves, OfRun, OfNode,
                            RunConfig, Signed
  <2>3. OwnedOK(a)'
    BY <1>2, <1>3, <1>4 DEF IInv, LocalInv, OwnedOK, Owns, InLoop, RunConfig
  <2>4. BeatsOK(a)'
    BY <1>2, <1>3, <1>4 DEF IInv, LocalInv, BeatsOK, InRound
  <2>5. RoundOK(a)'
    BY <1>3, <1>4 DEF RoundOK
  <2>6. PairOK(a)'
    BY <1>2, <1>4 DEF IInv, LocalInv, PairOK, Storing, Worker!Live
  <2>7. GoneOK(a)'
    BY <1>1, <1>2, <1>3, <1>4 DEF IInv, LocalInv, GoneOK, Answered, Active
  <2>8. QED
    BY <2>2, <2>3, <2>4, <2>5, <2>6, <2>7 DEF LocalInv
<1>7. QED
  BY <1>4, <1>5, <1>6, OneSteps

-----------------------------------------------------------------------------
(* The calls.                                                              *)

\* What a step that the coordinator takes part in leaves to be looked at.
LEMMA CallStep ==
  ASSUME IInv, NEW a \in Attempt, Busy(a), now' = now,
         req' \in [Attempt -> Worker!Slot], \A b \in Attempt \ {a} : req'[b] = req[b],
         stage' \in [Attempt -> Stages], \A b \in Attempt \ {a} : stage'[b] = stage[b],
         mesh' \in [Worker!MeshKey -> Worker!Entry(Worker!Record) \cup {None}],
         \A k \in Worker!MeshKey : k # Key(a) => mesh'[k] = mesh[k],
         proxy' \in [Node -> Worker!Entry(Worker!Config) \cup {None}],
         \A n \in Node : n \notin {RunId, MeshId[a]} => proxy'[n] = proxy[n],
         reader' = reader, gone' \subseteq Worker!MeshKey, hidden' \subseteq Worker!MeshKey,
         expires' = expires, started' = started, looping' = looping, beats' = beats,
         createdAt' \in [Attempt -> 0..MaxNow], losses' \in 0..MaxLosses,
         disturbed' \in {disturbed, disturbed \cup {a}, disturbed \ {a}},
         halved' \in {halved, halved \cup {a}, halved \ {a}}, closed' = closed,
         LocalInv(a)'
  PROVE  IInv'
<1>1. \A b \in Attempt \ {a} :
          /\ ~Active(b) /\ req[b] = Worker!Idle
          /\ stage'[b] = stage[b] /\ req'[b] = req[b] /\ expires'[b] = expires[b]
  BY OthersRest
<1>2. \A b \in Attempt \ {a} :
          /\ mesh'[Key(b)] = mesh[Key(b)] /\ proxy'[MeshId[b]] = proxy[MeshId[b]]
  BY NodeFacts, KeysDiffer
<1>3. \A b \in Attempt \ {a} :
          /\ (b \in disturbed' <=> b \in disturbed) /\ (b \in halved' <=> b \in halved)
          /\ (b \in closed' <=> b \in closed)
  OBVIOUS
<1>4. Apart(a)
  BY <1>1, <1>2, <1>3 DEF Apart
<1>5. Worker!TypeOK'
  BY DEF IInv, TypeOK, Worker!TypeOK
<1>6. TypeOK'
  BY <1>5 DEF IInv, TypeOK
<1>7. QED
  BY <1>4, <1>6, OneSteps

\* The coordinator takes a call of the job: nothing was being served for it.
LEMMA Called ==
  ASSUME IInv, NEW a \in Attempt, req[a] = Worker!Idle
  PROVE  /\ req[a].op = "none" /\ req[a].pc = "idle" /\ ~Storing(a) /\ Answered(a)
         /\ a \notin halved /\ Worker!Live(Mine(a)) =>
                Derived(a) # None /\ Mine(a).expires <= Derived(a).expires
         /\ Active(a) => a \notin closed
BY DEF IInv, LocalInv, PairOK, GoneOK, Storing, Answered, Active, Worker!Idle

LEMMA RegisterStep ==
  ASSUME IInv, NEW a \in Attempt, RegisterProxy(a) \/ Reregister(a) PROVE IInv'
<1>1. /\ now' = now /\ mesh' = mesh /\ proxy' = proxy /\ reader' = reader
      /\ gone' = gone /\ hidden' = hidden /\ expires' = expires /\ started' = started
      /\ looping' = looping /\ beats' = beats /\ losses' = losses
      /\ disturbed' = disturbed /\ halved' = halved /\ closed' = closed
      /\ req[a] = Worker!Idle /\ stage[a] \in {"register", "reregister"}
  BY DEF RegisterProxy, Reregister, Worker!Register, Worker!MayStart, jobVars
<1>2. PICK s \in Stages : /\ stage' = [stage EXCEPT ![a] = s]
                          /\ stage[a] = "register" => s = "registering"
                          /\ stage[a] = "reregister" => s = "heartbeat"
  BY DEF RegisterProxy, Reregister, Goto, Stages
<1>3. PICK t \in Nat :
          req' = [req EXCEPT ![a] =
                     [op |-> "register", pc |-> "putProxy", net |-> None, node |-> RunId,
                      rec |-> None, cfg |-> RunConfig(a), ttl |-> t]]
  <2>1. expires[a] \in Nat /\ now \in Nat
    BY SignedRecord DEF IInv, TypeOK, Worker!TypeOK
  <2>2. Worker!RegisterTtl(expires[a]) \in Nat
    BY <2>1, Ttls
  <2>3. QED
    BY <2>2 DEF RegisterProxy, Reregister, Worker!Register, Worker!Run, RunConfig
<1>4. RunConfig(a) \in Worker!Config
  BY SignedRecord DEF IInv
<1>5. req' \in [Attempt -> Worker!Slot] /\ \A b \in Attempt \ {a} : req'[b] = req[b]
  BY <1>3, <1>4, NodeFacts DEF IInv, TypeOK, Worker!TypeOK, Worker!Slot, Worker!Stages
<1>6. /\ req'[a].op = "register" /\ req'[a].pc = "putProxy" /\ req'[a].node = RunId
      /\ req'[a].cfg = RunConfig(a)
  BY <1>3 DEF IInv, TypeOK, Worker!TypeOK
<1>7. /\ stage' \in [Attempt -> Stages] /\ stage'[a] = s
      /\ \A b \in Attempt \ {a} : stage'[b] = stage[b]
  BY <1>2 DEF IInv, TypeOK
<1>8. createdAt' \in [Attempt -> 0..MaxNow]
  BY DEF RegisterProxy, Reregister, jobVars, IInv, TypeOK, Worker!TypeOK
<1>9. Busy(a) /\ a \notin closed
  BY <1>1, Called DEF Busy, Active
<1>10. /\ Mine(a)' = Mine(a) /\ Derived(a)' = Derived(a) /\ Runs' = Runs
       /\ RunConfig(a)' = RunConfig(a)
  BY <1>1 DEF Mine, Derived, Runs, RunConfig
<1>11. LocalInv(a)'
  <2>1. CallOK(a)' /\ CarriedOK(a)'
    BY <1>1, <1>2, <1>4, <1>6, <1>7, <1>10 DEF CallOK, CarriedOK, Serves, OfRun
  <2>2. OwnedOK(a)'
    <3>1. ~Answered(a)'
      BY <1>6 DEF Answered, Worker!Idle
    <3>2. Owns(a)' => Owns(a)
      BY <1>1, <1>2, <1>7, <3>1 DEF Owns, InLoop
    <3>3. QED
      BY <1>10, <3>2 DEF IInv, LocalInv, OwnedOK
  <2>3. BeatsOK(a)' /\ RoundOK(a)'
    BY <1>1, <1>2, <1>6, <1>7 DEF IInv, LocalInv, BeatsOK, InRound, RoundOK
  <2>4. PairOK(a)'
    BY <1>1, <1>6, <1>10, Called DEF PairOK, Storing, Worker!Live
  <2>5. GoneOK(a)'
    BY <1>1, <1>2, <1>6, <1>7, <1>9 DEF GoneOK
  <2>6. QED
    BY <2>1, <2>2, <2>3, <2>4, <2>5 DEF LocalInv
<1>12. QED
  BY <1>1, <1>5, <1>7, <1>8, <1>9, <1>11, CallStep DEF IInv, TypeOK, Worker!TypeOK

LEMMA MeshRegisterStep ==
  ASSUME IInv, NEW a \in Attempt, RegisterMesh(a) \/ MeshReregister(a) PROVE IInv'
<1>1. /\ now' = now /\ mesh' = mesh /\ proxy' = proxy /\ reader' = reader
      /\ gone' = gone /\ hidden' = hidden /\ expires' = expires /\ started' = started
      /\ looping' = looping /\ beats' = beats /\ losses' = losses /\ createdAt' = createdAt
      /\ disturbed' = disturbed /\ halved' = halved /\ closed' = closed
      /\ req[a] = Worker!Idle /\ stage[a] \in {"registering", "meshReregister"}
  BY DEF RegisterMesh, MeshReregister, Worker!MeshRegister, Worker!MayStart, jobVars
<1>2. PICK s \in Stages : /\ stage' = [stage EXCEPT ![a] = s]
                          /\ stage[a] = "registering" => s = "mesh"
                          /\ stage[a] = "meshReregister" => s = "round"
  BY DEF RegisterMesh, MeshReregister, Goto, Stages
<1>3. req' = [req EXCEPT ![a] =
                 [op |-> "meshRegister", pc |-> "getMesh", net |-> Network,
                  node |-> MeshId[a], rec |-> Signed(a), cfg |-> None, ttl |-> 0]]
  BY KeysDiffer DEF RegisterMesh, MeshReregister, Worker!MeshRegister, Worker!Run
<1>4. Signed(a) \in Worker!Record
  BY SignedRecord DEF IInv
<1>5. req' \in [Attempt -> Worker!Slot] /\ \A b \in Attempt \ {a} : req'[b] = req[b]
  BY <1>3, <1>4, NodeFacts DEF IInv, TypeOK, Worker!TypeOK, Worker!Slot, Worker!Stages
<1>6. /\ req'[a].op = "meshRegister" /\ req'[a].pc = "getMesh" /\ req'[a].net = Network
      /\ req'[a].node = MeshId[a] /\ req'[a].rec = Signed(a)
  BY <1>3 DEF IInv, TypeOK, Worker!TypeOK
<1>7. /\ stage' \in [Attempt -> Stages] /\ stage'[a] = s
      /\ \A b \in Attempt \ {a} : stage'[b] = stage[b]
  BY <1>2 DEF IInv, TypeOK
<1>8. Busy(a) /\ a \notin closed
  BY <1>1, Called DEF Busy, Active
<1>9. /\ Mine(a)' = Mine(a) /\ Derived(a)' = Derived(a) /\ Runs' = Runs
      /\ RunConfig(a)' = RunConfig(a) /\ Signed(a)' = Signed(a)
  BY <1>1 DEF Mine, Derived, Runs, RunConfig, Signed
<1>10. LocalInv(a)'
  <2>1. CallOK(a)' /\ CarriedOK(a)'
    BY <1>1, <1>2, <1>6, <1>7, <1>9 DEF CallOK, CarriedOK, Serves, OfNode
  <2>2. OwnedOK(a)'
    BY <1>1, <1>9, Called DEF IInv, LocalInv, OwnedOK, Owns, InLoop
  <2>3. BeatsOK(a)'
    BY <1>1, <1>2, <1>7 DEF IInv, LocalInv, BeatsOK, InRound
  <2>4. RoundOK(a)'
    BY <1>1, <1>2, <1>6, <1>7, <1>9, Called DEF IInv, LocalInv, RoundOK, Worker!Live
  <2>5. PairOK(a)'
    BY <1>1, <1>6, <1>9, Called DEF PairOK, Storing, Worker!Live
  <2>6. GoneOK(a)'
    BY <1>1, <1>2, <1>6, <1>7, <1>8 DEF GoneOK
  <2>7. QED
    BY <2>1, <2>2, <2>3, <2>4, <2>5, <2>6 DEF LocalInv
<1>11. QED
  BY <1>1, <1>5, <1>7, <1>8, <1>10, CallStep DEF IInv, TypeOK, Worker!TypeOK

LEMMA HeartbeatStep ==
  ASSUME IInv, NEW a \in Attempt, Heartbeat(a) PROVE IInv'
<1>1. /\ now' = now /\ mesh' = mesh /\ reader' = reader
      /\ gone' = gone /\ hidden' = hidden /\ expires' = expires /\ started' = started
      /\ looping' = looping /\ beats' = beats /\ losses' = losses /\ createdAt' = createdAt
      /\ disturbed' = disturbed \ {a} /\ halved' = halved /\ closed' = closed
      /\ req[a] = Worker!Idle /\ stage[a] = "loop" /\ beats[a] < Beats
      /\ proxy' = Worker!Evict(proxy, {RunId})
  BY DEF Heartbeat, Worker!Heartbeat, Worker!MayStart, jobVars
<1>2. PICK s \in Stages : /\ stage' = [stage EXCEPT ![a] = s]
                          /\ s = IF Worker!Live(Runs) THEN "heartbeat" ELSE "reregister"
  BY DEF Heartbeat, Goto, Stages, Runs
<1>3. /\ stage' \in [Attempt -> Stages] /\ stage'[a] = s
      /\ \A b \in Attempt \ {a} : stage'[b] = stage[b]
  BY <1>2 DEF IInv, TypeOK
<1>4. /\ proxy' \in [Node -> Worker!Entry(Worker!Config) \cup {None}]
      /\ \A n \in Node : n # RunId => proxy'[n] = proxy[n]
      /\ Runs' = IF Worker!Live(Runs) THEN Runs ELSE None
  <2>1. RunId \in Node /\ TypeOK
    BY NodeFacts DEF IInv
  <2>2. QED
    BY <1>1, <2>1, EvictsProxy DEF Runs
<1>5. Busy(a) /\ a \notin closed
  BY <1>1, Called DEF Busy, Active
<1>6. /\ Mine(a)' = Mine(a) /\ Derived(a)' = Derived(a) /\ RunConfig(a)' = RunConfig(a)
  BY <1>1, <1>4, NodeFacts DEF Mine, Derived, RunConfig
<1>7. Runs # None => Runs.val = RunConfig(a)
  BY <1>1 DEF IInv, LocalInv, OwnedOK, Owns, InLoop
<1>8. OwnedOK(a)' /\ BeatsOK(a)'
  BY <1>1, <1>4, <1>6, <1>7 DEF OwnedOK, BeatsOK
<1>9. CASE Worker!Live(Runs)
  <2>1. PICK t \in Nat :
            req' = [req EXCEPT ![a] =
                       [op |-> "heartbeat", pc |-> "putProxy", net |-> None, node |-> RunId,
                        rec |-> None, cfg |-> RunConfig(a), ttl |-> t]]
    <3>1. expires[a] \in Nat /\ now \in Nat
      BY SignedRecord DEF IInv, TypeOK, Worker!TypeOK
    <3>2. Worker!HeartbeatTtl(expires[a]) \in Nat
      BY <3>1, Ttls
    <3>3. Runs.val = RunConfig(a)
      BY <1>7, <1>9 DEF Worker!Live
    <3>4. QED
      BY <1>9, <3>2, <3>3 DEF Heartbeat, HeartbeatExpiry, Worker!Heartbeat, Worker!Run, Runs
  <2>2. RunConfig(a) \in Worker!Config
    BY SignedRecord DEF IInv
  <2>3. req' \in [Attempt -> Worker!Slot] /\ \A b \in Attempt \ {a} : req'[b] = req[b]
    BY <2>1, <2>2, NodeFacts DEF IInv, TypeOK, Worker!TypeOK, Worker!Slot, Worker!Stages
  <2>4. /\ req'[a].op = "heartbeat" /\ req'[a].pc = "putProxy" /\ req'[a].node = RunId
        /\ req'[a].cfg = RunConfig(a)
    BY <2>1 DEF IInv, TypeOK, Worker!TypeOK
  <2>5. CallOK(a)' /\ CarriedOK(a)'
    BY <1>2, <1>3, <1>6, <1>9, <2>2, <2>4 DEF CallOK, CarriedOK, Serves, OfRun
  <2>6. RoundOK(a)'
    BY <1>2, <1>3, <1>9, <2>4 DEF RoundOK
  <2>7. PairOK(a)'
    BY <1>1, <1>6, <2>4, Called DEF PairOK, Storing, Worker!Live
  <2>8. GoneOK(a)'
    BY <1>1, <1>2, <1>3, <1>5, <2>4 DEF GoneOK
  <2>9. LocalInv(a)'
    BY <1>8, <2>5, <2>6, <2>7, <2>8 DEF LocalInv
  <2>10. QED
    BY <1>1, <1>3, <1>4, <1>5, <2>3, <2>9, CallStep DEF IInv, TypeOK, Worker!TypeOK
<1>10. CASE ~Worker!Live(Runs)
  <2>1. req' = req
    BY <1>10 DEF Heartbeat, Worker!Heartbeat, Runs
  <2>2. CallOK(a)' /\ CarriedOK(a)'
    BY <1>1, <2>1, Called DEF CallOK, CarriedOK, Worker!Idle
  <2>3. RoundOK(a)'
    BY <1>2, <1>3, <1>10 DEF RoundOK
  <2>4. PairOK(a)'
    BY <1>1, <1>6, <2>1, Called DEF PairOK, Storing, Worker!Live
  <2>5. GoneOK(a)'
    BY <1>1, <1>2, <1>3, <1>5, <2>1, Called DEF GoneOK
  <2>6. LocalInv(a)'
    BY <1>8, <2>2, <2>3, <2>4, <2>5 DEF LocalInv
  <2>7. QED
    BY <1>1, <1>3, <1>4, <1>5, <2>1, <2>6, CallStep DEF IInv, TypeOK, Worker!TypeOK
<1>11. QED
  BY <1>9, <1>10

LEMMA MeshHeartbeatStep ==
  ASSUME IInv, NEW a \in Attempt, MeshHeartbeat(a) PROVE IInv'
<1>1. /\ now' = now /\ proxy' = proxy /\ reader' = reader
      /\ gone' = gone /\ hidden' = hidden /\ expires' = expires /\ started' = started
      /\ looping' = looping /\ beats' = beats /\ losses' = losses /\ createdAt' = createdAt
      /\ disturbed' = disturbed /\ halved' = halved /\ closed' = closed
      /\ req[a] = Worker!Idle /\ stage[a] = "heartbeat"
  BY DEF MeshHeartbeat, Worker!MeshHeartbeat, Worker!MayStart, jobVars
<1>2. Worker!ResolveNet(Signed(a).networkId) = Network
  BY KeysDiffer, NodeFacts DEF Worker!ResolveNet
<1>3. mesh' = Worker!Evict(mesh, {Key(a)})
  BY <1>2 DEF MeshHeartbeat, Worker!MeshHeartbeat, Key
<1>4. PICK s \in Stages : /\ stage' = [stage EXCEPT ![a] = s]
                          /\ s = IF Worker!Live(Mine(a)) THEN "round" ELSE "meshReregister"
  BY KeysDiffer DEF MeshHeartbeat, AfterMeshHeartbeat, Goto, Stages, Mine
<1>5. /\ stage' \in [Attempt -> Stages] /\ stage'[a] = s
      /\ \A b \in Attempt \ {a} : stage'[b] = stage[b]
  BY <1>4 DEF IInv, TypeOK
<1>6. /\ mesh' \in [Worker!MeshKey -> Worker!Entry(Worker!Record) \cup {None}]
      /\ \A k \in Worker!MeshKey : k # Key(a) => mesh'[k] = mesh[k]
      /\ Mine(a)' = IF Worker!Live(Mine(a)) THEN Mine(a) ELSE None
  <2>1. Key(a) \in Worker!MeshKey
    BY NodeFacts
  <2>2. QED
    BY <1>3, <2>1, EvictsMesh DEF IInv, Mine, Key
<1>7. Busy(a) /\ a \notin closed
  BY <1>1, Called DEF Busy, Active
<1>8. Derived(a)' = Derived(a) /\ Runs' = Runs /\ RunConfig(a)' = RunConfig(a)
  BY <1>1 DEF Derived, Runs, RunConfig
<1>9. OwnedOK(a)' /\ BeatsOK(a)'
  <2>1. Owns(a) /\ stage[a] \in InRound
    BY <1>1 DEF Owns, InLoop, InRound
  <2>2. QED
    BY <1>1, <1>8, <2>1 DEF IInv, LocalInv, OwnedOK, BeatsOK
<1>10. a \notin disturbed' => Worker!Live(Runs)'
  BY <1>1, <1>8, Called DEF IInv, LocalInv, RoundOK, Worker!Live
<1>11. CASE Worker!Live(Mine(a))
  <2>1. PICK t \in Nat :
            req' = [req EXCEPT ![a] =
                       [op |-> "meshHeartbeat", pc |-> "putMesh", net |-> Network,
                        node |-> MeshId[a], rec |-> Mine(a).val, cfg |-> None, ttl |-> t]]
    <3>1. expires[a] \in Nat /\ now \in Nat /\ expires[a] # None
      BY SignedRecord DEF IInv, TypeOK, Worker!TypeOK
    <3>2. Worker!TtlFromExpiresAt(expires[a]) \in Nat
      BY <3>1, Ttls
    <3>3. QED
      BY <1>2, <1>11, <3>1, <3>2 DEF MeshHeartbeat, Worker!MeshHeartbeat, Worker!Run, Mine,
                                     Key
  <2>2. Mine(a).val \in Worker!Record
    BY <1>11, NodeFacts DEF IInv, TypeOK, Worker!TypeOK, Mine, Worker!Live, Worker!Entry
  <2>3. req' \in [Attempt -> Worker!Slot] /\ \A b \in Attempt \ {a} : req'[b] = req[b]
    BY <2>1, <2>2, NodeFacts DEF IInv, TypeOK, Worker!TypeOK, Worker!Slot, Worker!Stages
  <2>4. /\ req'[a].op = "meshHeartbeat" /\ req'[a].pc = "putMesh" /\ req'[a].net = Network
        /\ req'[a].node = MeshId[a] /\ req'[a].rec = Mine(a).val
    BY <2>1 DEF IInv, TypeOK, Worker!TypeOK
  <2>5. CallOK(a)' /\ CarriedOK(a)'
    BY <1>4, <1>5, <1>11, <2>2, <2>4 DEF CallOK, CarriedOK, Serves, OfNode
  <2>6. RoundOK(a)'
    BY <1>10, <2>4 DEF RoundOK
  <2>7. PairOK(a)'
    BY <1>1, <1>6, <1>8, <1>11, <2>4, Called DEF PairOK, Storing, Worker!Live
  <2>8. GoneOK(a)'
    BY <1>1, <1>4, <1>5, <1>7, <2>4 DEF GoneOK
  <2>9. LocalInv(a)'
    BY <1>9, <2>5, <2>6, <2>7, <2>8 DEF LocalInv
  <2>10. QED
    BY <1>1, <1>5, <1>6, <1>7, <2>3, <2>9, CallStep DEF IInv, TypeOK, Worker!TypeOK
<1>12. CASE ~Worker!Live(Mine(a))
  <2>1. req' = req
    BY <1>2, <1>12 DEF MeshHeartbeat, Worker!MeshHeartbeat, Mine, Key
  <2>2. CallOK(a)' /\ CarriedOK(a)'
    BY <1>1, <2>1, Called DEF CallOK, CarriedOK, Worker!Idle
  <2>3. RoundOK(a)'
    BY <1>4, <1>5, <1>10, <1>12 DEF RoundOK
  <2>4. PairOK(a)'
    BY <1>1, <1>6, <1>12, <2>1, Called DEF PairOK, Storing, Worker!Live
  <2>5. GoneOK(a)'
    BY <1>1, <1>4, <1>5, <1>7, <2>1, Called DEF GoneOK
  <2>6. LocalInv(a)'
    BY <1>9, <2>2, <2>3, <2>4, <2>5 DEF LocalInv
  <2>7. QED
    BY <1>1, <1>5, <1>6, <1>7, <2>1, <2>6, CallStep DEF IInv, TypeOK, Worker!TypeOK
<1>13. QED
  BY <1>11, <1>12

LEMMA MeshDeregisterStep ==
  ASSUME IInv, NEW a \in Attempt, MeshDeregister(a) PROVE IInv'
<1>1. /\ now' = now /\ proxy' = proxy /\ reader' = reader
      /\ hidden' = hidden /\ expires' = expires /\ started' = started
      /\ looping' = looping /\ beats' = beats /\ losses' = losses /\ createdAt' = createdAt
      /\ disturbed' = disturbed /\ halved' = halved /\ closed' = closed
      /\ req[a] = Worker!Idle /\ stage[a] = "deregister"
      /\ stage' = [stage EXCEPT ![a] = "deregistering"]
  BY DEF MeshDeregister, Worker!MeshDeregister, Worker!MayStart, jobVars, Goto
<1>2. Worker!ResolveNet(Signed(a).networkId) = Network
  BY KeysDiffer, NodeFacts DEF Worker!ResolveNet
<1>3. /\ mesh' = [mesh EXCEPT ![Key(a)] = None]
      /\ gone' = gone \cup {Key(a)}
      /\ req' = [req EXCEPT ![a] =
                    [op |-> "meshDeregister", pc |-> "delProxy", net |-> Network,
                     node |-> MeshId[a], rec |-> None, cfg |-> None, ttl |-> 0]]
  BY <1>2 DEF MeshDeregister, Worker!MeshDeregister, Worker!Run, Key
<1>4. /\ stage' \in [Attempt -> Stages] /\ stage'[a] = "deregistering"
      /\ \A b \in Attempt \ {a} : stage'[b] = stage[b]
  BY <1>1 DEF IInv, TypeOK, Stages
<1>5. /\ mesh' \in [Worker!MeshKey -> Worker!Entry(Worker!Record) \cup {None}]
      /\ \A k \in Worker!MeshKey : k # Key(a) => mesh'[k] = mesh[k]
      /\ Mine(a)' = None
  <2>1. Key(a) \in Worker!MeshKey
    BY NodeFacts
  <2>2. QED
    BY <1>3, <2>1 DEF IInv, TypeOK, Worker!TypeOK, Mine, Key
<1>6. req' \in [Attempt -> Worker!Slot] /\ \A b \in Attempt \ {a} : req'[b] = req[b]
  BY <1>3, NodeFacts DEF IInv, TypeOK, Worker!TypeOK, Worker!Slot, Worker!Stages
<1>7. /\ req'[a].op = "meshDeregister" /\ req'[a].pc = "delProxy" /\ req'[a].net = Network
      /\ req'[a].node = MeshId[a]
  BY <1>3 DEF IInv, TypeOK, Worker!TypeOK
<1>8. Busy(a) /\ a \notin closed /\ gone' \subseteq Worker!MeshKey
  BY <1>1, <1>3, Called, NodeFacts DEF Busy, Active, IInv, TypeOK, Worker!TypeOK
<1>9. LocalInv(a)'
  <2>1. CallOK(a)' /\ CarriedOK(a)'
    BY <1>4, <1>7 DEF CallOK, CarriedOK, Serves, OfNode
  <2>2. ~Answered(a)'
    BY <1>7 DEF Answered, Worker!Idle
  <2>3. OwnedOK(a)' /\ BeatsOK(a)' /\ RoundOK(a)'
    BY <1>4 DEF OwnedOK, Owns, InLoop, BeatsOK, InRound, RoundOK
  <2>4. PairOK(a)' /\ GoneOK(a)'
    BY <1>1, <1>4, <1>5, <1>7, <1>8, <2>2 DEF PairOK, Storing, Worker!Live, GoneOK
  <2>5. QED
    BY <2>1, <2>3, <2>4 DEF LocalInv
<1>10. QED
  BY <1>1, <1>4, <1>5, <1>6, <1>8, <1>9, CallStep DEF IInv, TypeOK, Worker!TypeOK

-----------------------------------------------------------------------------
(* The coordinator goes on with a call, or fails to.                       *)

\* What no step of a handler changes.
Serving(a) ==
    /\ now' = now /\ reader' = reader /\ stage' = stage /\ expires' = expires
    /\ started' = started /\ looping' = looping /\ beats' = beats /\ losses' = losses
    /\ createdAt' = createdAt /\ disturbed' = disturbed /\ closed' = closed

\* Who is being served has not been taken back yet.
LEMMA Served ==
  ASSUME IInv, NEW a \in Attempt, req[a].pc # "idle"
  PROVE  Busy(a) /\ a \notin closed
BY DEF IInv, LocalInv, GoneOK, Busy, Answered, Worker!Idle

LEMMA SlotFacts ==
  ASSUME IInv, NEW a \in Attempt
  PROVE  req[a] \in Worker!Slot /\ req[a].ttl \in Nat /\ now \in Nat
BY DEF IInv, TypeOK, Worker!TypeOK, Worker!Slot

LEMMA PutProxyStep ==
  ASSUME IInv, NEW a \in Attempt, Worker!PutProxy(a), Serving(a),
         halved' = IF req[a].op = "meshRegister" /\ req[a].pc = "putProxy"
                   THEN halved \ {a} ELSE halved
  PROVE  IInv'
<1>1. /\ req[a].pc = "putProxy" /\ mesh' = mesh
      /\ proxy' = [proxy EXCEPT ![req[a].node] = Worker!Stored(req[a].cfg, req[a].ttl)]
      /\ req' = [req EXCEPT ![a] = Worker!Idle]
      /\ gone' \subseteq gone /\ hidden' \subseteq hidden
  BY DEF Worker!PutProxy, Worker!Finish, Worker!Supersede
<1>2. /\ req' \in [Attempt -> Worker!Slot] /\ req'[a] = Worker!Idle
      /\ \A b \in Attempt \ {a} : req'[b] = req[b]
  <2>1. Worker!Idle \in Worker!Slot
    BY DEF Worker!Idle, Worker!Slot, Worker!Stages
  <2>2. QED
    BY <1>1, <2>1 DEF IInv, TypeOK, Worker!TypeOK
<1>3. req'[a].op = "none" /\ req'[a].pc = "idle"
  BY <1>2 DEF Worker!Idle
<1>4. req[a].cfg \in Worker!Config /\ req[a].node \in Node /\ a \notin closed /\ Busy(a)
  BY <1>1, NodeFacts, Served DEF IInv, LocalInv, CarriedOK, CallOK, OfRun, OfNode, Serves,
                                 Worker!Idle
<1>5. /\ proxy' \in [Node -> Worker!Entry(Worker!Config) \cup {None}]
      /\ proxy'[req[a].node] = [val |-> req[a].cfg, expires |-> now + req[a].ttl]
      /\ \A n \in Node : n # req[a].node => proxy'[n] = proxy[n]
  <2>1. req[a].ttl \in Nat /\ TypeOK
    BY SlotFacts DEF IInv
  <2>2. QED
    BY <1>1, <1>4, <2>1, PutsProxy
<1>6. now' = now /\ stage' = stage /\ Mine(a)' = Mine(a) /\ RunConfig(a)' = RunConfig(a)
  BY <1>1 DEF Serving, Mine, RunConfig
<1>7. /\ CallOK(a)' /\ CarriedOK(a)' /\ BeatsOK(a)'
  BY <1>2, <1>3, <1>6 DEF CallOK, CarriedOK, Worker!Idle, IInv, LocalInv, BeatsOK, Serving
<1>8. CASE req[a].op \in {"register", "heartbeat"}
  <2>1. /\ req[a].node = RunId /\ req[a].cfg = RunConfig(a)
        /\ stage[a] \in {"registering", "heartbeat", "ended"}
    BY <1>1, <1>8 DEF IInv, LocalInv, CallOK, Serves, OfRun, Worker!Idle
  <2>2. Derived(a)' = Derived(a)
    BY <1>5, <2>1, NodeFacts DEF Derived
  <2>3. Runs' = [val |-> RunConfig(a), expires |-> now + req[a].ttl]
    BY <1>5, <2>1 DEF Runs
  <2>4. Worker!Live(Runs)'
    <3>1. Runs' # None
      <4>1. RunConfig(a) \in Worker!Config /\ now + req[a].ttl \in Nat
        BY SignedRecord, SlotFacts DEF IInv
      <4>2. QED
        BY <2>3, <4>1, Entries
    <3>2. Runs.expires' = now + req[a].ttl
      BY <2>3
    <3>3. QED
      BY <1>6, <3>1, <3>2, SlotFacts DEF Worker!Live
  <2>5. OwnedOK(a)'
    BY <1>6, <2>3 DEF OwnedOK
  <2>6. RoundOK(a)'
    BY <1>6, <2>1, <2>4 DEF RoundOK
  <2>7. PairOK(a)'
    BY <1>3, <1>6, <1>8, <2>2 DEF IInv, LocalInv, PairOK, Storing, Worker!Live
  <2>8. GoneOK(a)'
    BY <1>3, <1>4, <1>6, <2>1 DEF GoneOK, Serving
  <2>9. LocalInv(a)'
    BY <1>7, <2>5, <2>6, <2>7, <2>8 DEF LocalInv
  <2>10. QED
    BY <1>1, <1>2, <1>4, <1>5, <2>1, <2>9, CallStep DEF Serving, IInv, TypeOK,
                                                        Worker!TypeOK
<1>9. CASE req[a].op \notin {"register", "heartbeat"}
  <2>1. /\ req[a].node = MeshId[a] /\ req[a].op \in {"meshRegister", "meshHeartbeat"}
        /\ stage[a] \in {"mesh", "round", "ended"}
    BY <1>1, <1>9 DEF IInv, LocalInv, CallOK, Serves, OfNode, Worker!Idle
  <2>2. Runs' = Runs
    BY <1>5, <2>1, NodeFacts DEF Runs
  <2>3. Derived(a)' # None /\ Derived(a).expires' = now + req[a].ttl
    <3>1. Derived(a)' = [val |-> req[a].cfg, expires |-> now + req[a].ttl]
      BY <1>5, <2>1 DEF Derived
    <3>2. Derived(a)' # None
      <4>1. req[a].cfg \in Worker!Config /\ now + req[a].ttl \in Nat
        BY <1>4, SlotFacts
      <4>2. QED
        BY <3>1, <4>1, Entries
    <3>3. QED
      BY <3>1, <3>2
  <2>4. OwnedOK(a)'
    BY <1>6, <2>1, <2>2 DEF IInv, LocalInv, OwnedOK, Owns, InLoop
  <2>5. RoundOK(a)'
    BY <1>1, <1>6, <1>9, <2>2 DEF IInv, LocalInv, RoundOK, Worker!Live, Serving
  <2>6. Mine(a) # None /\ Mine(a).expires = now + req[a].ttl
    BY <1>1, <2>1 DEF IInv, LocalInv, PairOK, Storing
  <2>7. PairOK(a)'
    BY <1>3, <1>6, <2>3, <2>6, SlotFacts DEF PairOK, Storing, Worker!Live
  <2>8. GoneOK(a)'
    BY <1>3, <1>4, <1>6, <2>1 DEF GoneOK, Serving
  <2>9. LocalInv(a)'
    BY <1>7, <2>4, <2>5, <2>7, <2>8 DEF LocalInv
  <2>10. QED
    BY <1>1, <1>2, <1>4, <1>5, <2>1, <2>9, CallStep DEF Serving, IInv, TypeOK,
                                                        Worker!TypeOK
<1>10. QED
  BY <1>8, <1>9

LEMMA PutMeshStep ==
  ASSUME IInv, NEW a \in Attempt, Worker!PutMesh(a), Serving(a), halved' = halved
  PROVE  IInv'
<1>1. /\ req[a].pc = "putMesh" /\ proxy' = proxy
      /\ mesh' = [mesh EXCEPT ![<<req[a].net, req[a].node>>] =
                     Worker!Stored(req[a].rec, req[a].ttl)]
      /\ gone' \subseteq gone /\ hidden' \subseteq hidden
  BY DEF Worker!PutMesh, Worker!Supersede
<1>2. /\ req[a].op \in {"meshRegister", "meshHeartbeat"} /\ OfNode(a)
      /\ req[a].op = "meshRegister" => req[a].rec = Signed(a)
      /\ req[a].op = "meshRegister" => stage[a] \in {"mesh", "round", "ended"}
      /\ req[a].op = "meshHeartbeat" => stage[a] \in {"round", "ended"}
      /\ req[a].rec \in Worker!Record /\ a \notin closed /\ Busy(a)
  BY <1>1, Served DEF IInv, LocalInv, CarriedOK, CallOK, Serves, Worker!Idle
<1>3. PICK c \in Worker!Config \cup {None} :
          /\ req' = [req EXCEPT ![a] =
                        [op |-> req[a].op, pc |-> IF req[a].op = "meshHeartbeat"
                                                  THEN "getProxy" ELSE "putProxy",
                         net |-> req[a].net, node |-> req[a].node, rec |-> req[a].rec,
                         cfg |-> c, ttl |-> req[a].ttl]]
          /\ req[a].op # "meshHeartbeat" => c \in Worker!Config
  <2>1. Worker!DeriveProxyConfig(req[a].rec) \in Worker!Config
    BY <1>2, Derives
  <2>2. QED
    BY <2>1 DEF Worker!PutMesh, Worker!Resume, Worker!Run, Worker!Refreshes
<1>4. req' \in [Attempt -> Worker!Slot] /\ \A b \in Attempt \ {a} : req'[b] = req[b]
  <2>1. req[a] \in Worker!Slot /\ req[a].op \in {"meshRegister", "meshHeartbeat"}
    BY <1>2, SlotFacts
  <2>2. [op |-> req[a].op, pc |-> IF req[a].op = "meshHeartbeat"
                                  THEN "getProxy" ELSE "putProxy",
         net |-> req[a].net, node |-> req[a].node, rec |-> req[a].rec,
         cfg |-> c, ttl |-> req[a].ttl] \in Worker!Slot
    BY <2>1 DEF Worker!Slot, Worker!Stages
  <2>3. QED
    BY <1>3, <2>2 DEF IInv, TypeOK, Worker!TypeOK
<1>5. /\ req'[a].op = req[a].op /\ req'[a].net = req[a].net /\ req'[a].node = req[a].node
      /\ req'[a].rec = req[a].rec /\ req'[a].cfg = c /\ req'[a].ttl = req[a].ttl
      /\ req'[a].pc = IF req[a].op = "meshHeartbeat" THEN "getProxy" ELSE "putProxy"
  BY <1>3 DEF IInv, TypeOK, Worker!TypeOK
<1>6. /\ mesh' \in [Worker!MeshKey -> Worker!Entry(Worker!Record) \cup {None}]
      /\ \A k \in Worker!MeshKey : k # Key(a) => mesh'[k] = mesh[k]
      /\ Mine(a)' = [val |-> req[a].rec, expires |-> now + req[a].ttl]
  <2>1. Key(a) \in Worker!MeshKey /\ req[a].ttl \in Nat /\ TypeOK
    BY NodeFacts, SlotFacts DEF IInv
  <2>2. mesh' = [mesh EXCEPT ![Key(a)] = Worker!Stored(req[a].rec, req[a].ttl)]
    BY <1>1, <1>2 DEF OfNode, Key
  <2>3. QED
    BY <1>2, <2>1, <2>2, PutsMesh DEF Mine, Key
<1>7. Mine(a)' # None /\ Mine(a).expires' = now + req[a].ttl
  <2>1. Mine(a)' # None
    <3>1. req[a].rec \in Worker!Record /\ now + req[a].ttl \in Nat
      BY <1>2, SlotFacts
    <3>2. QED
      BY <1>6, <3>1, Entries
  <2>2. QED
    BY <1>6, <2>1
<1>8. /\ now' = now /\ stage' = stage /\ Derived(a)' = Derived(a) /\ Runs' = Runs
      /\ RunConfig(a)' = RunConfig(a) /\ Signed(a)' = Signed(a)
  BY <1>1 DEF Serving, Derived, Runs, RunConfig, Signed
<1>9. LocalInv(a)'
  <2>1. CallOK(a)'
    BY <1>2, <1>5, <1>8 DEF CallOK, Serves, OfNode
  <2>2. CarriedOK(a)'
    BY <1>2, <1>3, <1>5 DEF CarriedOK
  <2>3. OwnedOK(a)' /\ BeatsOK(a)'
    BY <1>2, <1>8 DEF IInv, LocalInv, OwnedOK, Owns, InLoop, BeatsOK, Serving
  <2>4. RoundOK(a)'
    <3>1. Worker!Live(Mine(a))'
      BY <1>7, <1>8, SlotFacts DEF Worker!Live
    <3>2. QED
      BY <1>2, <1>8, <3>1 DEF IInv, LocalInv, RoundOK, Worker!Live, Serving
  <2>5. PairOK(a)'
    <3>1. req[a].op = "meshHeartbeat" /\ a \notin halved => Worker!Live(Derived(a))
      <4>1. SUFFICES ASSUME req[a].op = "meshHeartbeat", a \notin halved
                     PROVE  Worker!Live(Derived(a))
        OBVIOUS
      <4>2. Worker!Live(Mine(a))
        BY <1>1, <4>1 DEF IInv, LocalInv, PairOK
      <4>3. Derived(a) # None /\ Mine(a).expires <= Derived(a).expires
        BY <1>1, <4>1, <4>2 DEF IInv, LocalInv, PairOK, Storing
      <4>4. Mine(a).expires \in Nat /\ Derived(a).expires \in Nat /\ now \in Nat
        BY <4>2, <4>3, NodeFacts DEF IInv, TypeOK, Worker!TypeOK, Mine, Derived,
                                     Worker!Live, Worker!Entry
      <4>5. QED
        BY <4>2, <4>3, <4>4 DEF Worker!Live
    <3>2. QED
      BY <1>2, <1>5, <1>7, <1>8, <3>1 DEF PairOK, Storing, Worker!Live
  <2>6. GoneOK(a)'
    BY <1>2, <1>5, <1>8 DEF GoneOK, Serving
  <2>7. QED
    BY <2>1, <2>2, <2>3, <2>4, <2>5, <2>6 DEF LocalInv
<1>10. QED
  BY <1>1, <1>2, <1>4, <1>6, <1>9, CallStep DEF Serving, IInv, TypeOK, Worker!TypeOK

LEMMA MeshRegisterCheckStep ==
  ASSUME IInv, NEW a \in Attempt, Worker!MeshRegisterCheck(a), Serving(a), halved' = halved
  PROVE  IInv'
<1>1. /\ req[a].pc = "getMesh" /\ proxy' = proxy /\ gone' = gone /\ hidden' = hidden
      /\ mesh' = Worker!Evict(mesh, {<<req[a].net, req[a].node>>})
  BY DEF Worker!MeshRegisterCheck
<1>2. /\ req[a].op = "meshRegister" /\ OfNode(a) /\ req[a].rec = Signed(a)
      /\ stage[a] \in {"mesh", "round", "ended"} /\ a \notin closed /\ Busy(a)
  BY <1>1, Served DEF IInv, LocalInv, CallOK, Serves, Worker!Idle
<1>3. /\ mesh' \in [Worker!MeshKey -> Worker!Entry(Worker!Record) \cup {None}]
      /\ \A k \in Worker!MeshKey : k # Key(a) => mesh'[k] = mesh[k]
      /\ Mine(a)' = IF Worker!Live(Mine(a)) THEN Mine(a) ELSE None
  <2>1. Key(a) \in Worker!MeshKey /\ mesh' = Worker!Evict(mesh, {Key(a)})
    BY <1>1, <1>2, NodeFacts DEF OfNode, Key
  <2>2. QED
    BY <2>1, EvictsMesh DEF IInv, Mine, Key
<1>4. /\ now' = now /\ stage' = stage /\ Derived(a)' = Derived(a) /\ Runs' = Runs
      /\ RunConfig(a)' = RunConfig(a) /\ Signed(a)' = Signed(a)
  BY <1>1 DEF Serving, Derived, Runs, RunConfig, Signed
<1>5. OwnedOK(a)' /\ BeatsOK(a)'
  BY <1>2, <1>4 DEF IInv, LocalInv, OwnedOK, Owns, InLoop, BeatsOK, Serving
<1>6. stage[a] = "round" /\ a \notin disturbed => Worker!Live(Runs)'
  BY <1>2, <1>4 DEF IInv, LocalInv, RoundOK, Worker!Live
<1>7. a \notin halved /\ Worker!Live(Mine(a))' =>
          Derived(a)' # None /\ Mine(a)' = Mine(a) /\ Mine(a).expires <= Derived(a).expires
  BY <1>1, <1>3, <1>4 DEF IInv, LocalInv, PairOK, Storing, Worker!Live
<1>8. CASE req' = [req EXCEPT ![a] = Worker!Idle] /\ Worker!Live(Mine(a))
  <2>1. /\ req' \in [Attempt -> Worker!Slot] /\ req'[a] = Worker!Idle
        /\ \A b \in Attempt \ {a} : req'[b] = req[b]
    <3>1. Worker!Idle \in Worker!Slot
      BY DEF Worker!Idle, Worker!Slot, Worker!Stages
    <3>2. QED
      BY <1>8, <3>1 DEF IInv, TypeOK, Worker!TypeOK
  <2>2. req'[a].op = "none" /\ req'[a].pc = "idle"
    BY <2>1 DEF Worker!Idle
  <2>3. CallOK(a)' /\ CarriedOK(a)'
    BY <2>1, <2>2 DEF CallOK, CarriedOK, Worker!Idle
  <2>4. RoundOK(a)'
    BY <1>2, <1>3, <1>4, <1>6, <1>8 DEF RoundOK, Worker!Live, Serving
  <2>5. PairOK(a)'
    BY <1>3, <1>4, <1>7, <1>8, <2>2 DEF PairOK, Storing
  <2>6. GoneOK(a)'
    BY <1>2, <1>4, <2>2 DEF GoneOK, Serving
  <2>7. LocalInv(a)'
    BY <1>5, <2>3, <2>4, <2>5, <2>6 DEF LocalInv
  <2>8. QED
    BY <1>1, <1>2, <1>3, <2>1, <2>7, CallStep DEF Serving, IInv, TypeOK, Worker!TypeOK
<1>9. CASE Worker!Resume(a, "putMesh", None, Worker!TtlFromExpiresAt(req[a].rec.expiresAt))
  <2>1. Signed(a) \in Worker!Record /\ now \in Nat /\ Signed(a).expiresAt \in Nat
    BY SignedRecord, SlotFacts DEF IInv, Signed
  <2>2. PICK t \in Nat :
            req' = [req EXCEPT ![a] =
                       [op |-> req[a].op, pc |-> "putMesh", net |-> req[a].net,
                        node |-> req[a].node, rec |-> req[a].rec, cfg |-> None, ttl |-> t]]
    <3>1. Worker!TtlFromExpiresAt(req[a].rec.expiresAt) \in Nat
      BY <1>2, <2>1, Ttls
    <3>2. QED
      BY <1>9, <3>1 DEF Worker!Resume, Worker!Run
  <2>3. req' \in [Attempt -> Worker!Slot] /\ \A b \in Attempt \ {a} : req'[b] = req[b]
    <3>1. req[a] \in Worker!Slot
      BY SlotFacts
    <3>2. [op |-> req[a].op, pc |-> "putMesh", net |-> req[a].net,
           node |-> req[a].node, rec |-> req[a].rec, cfg |-> None, ttl |-> t] \in Worker!Slot
      BY <3>1 DEF Worker!Slot, Worker!Stages
    <3>3. QED
      BY <2>2, <3>2 DEF IInv, TypeOK, Worker!TypeOK
  <2>4. /\ req'[a].op = "meshRegister" /\ req'[a].net = req[a].net
        /\ req'[a].node = req[a].node /\ req'[a].rec = req[a].rec /\ req'[a].pc = "putMesh"
    BY <1>2, <2>2 DEF IInv, TypeOK, Worker!TypeOK
  <2>5. CallOK(a)' /\ CarriedOK(a)'
    BY <1>2, <1>4, <2>1, <2>4 DEF CallOK, CarriedOK, Serves, OfNode
  <2>6. RoundOK(a)'
    BY <1>2, <1>4, <1>6, <2>4 DEF RoundOK, Serving
  <2>7. PairOK(a)'
    BY <1>3, <1>4, <1>7, <2>4 DEF PairOK, Storing
  <2>8. GoneOK(a)'
    BY <1>2, <1>4, <2>4 DEF GoneOK, Serving
  <2>9. LocalInv(a)'
    BY <1>5, <2>5, <2>6, <2>7, <2>8 DEF LocalInv
  <2>10. QED
    BY <1>1, <1>2, <1>3, <2>3, <2>9, CallStep DEF Serving, IInv, TypeOK, Worker!TypeOK
<1>10. QED
  BY <1>2, <1>8, <1>9 DEF Worker!MeshRegisterCheck, Worker!StaleHeartbeat, Worker!Finish,
                          Mine, Key, OfNode

LEMMA MeshHeartbeatGetProxyStep ==
  ASSUME IInv, NEW a \in Attempt, Worker!MeshHeartbeatGetProxy(a), Serving(a),
         halved' = halved
  PROVE  IInv'
<1>1. /\ req[a].pc = "getProxy" /\ mesh' = mesh /\ gone' = gone /\ hidden' = hidden
      /\ proxy' = Worker!Evict(proxy, {req[a].node})
  BY DEF Worker!MeshHeartbeatGetProxy
<1>2. /\ req[a].op = "meshHeartbeat" /\ OfNode(a) /\ stage[a] \in {"round", "ended"}
      /\ a \notin closed /\ Busy(a)
  BY <1>1, Served DEF IInv, LocalInv, CallOK, Serves, Worker!Idle
<1>3. /\ proxy' \in [Node -> Worker!Entry(Worker!Config) \cup {None}]
      /\ \A n \in Node : n # MeshId[a] => proxy'[n] = proxy[n]
      /\ Derived(a)' = IF Worker!Live(Derived(a)) THEN Derived(a) ELSE None
  <2>1. MeshId[a] \in Node /\ proxy' = Worker!Evict(proxy, {MeshId[a]}) /\ TypeOK
    BY <1>1, <1>2, NodeFacts DEF OfNode, IInv
  <2>2. QED
    BY <2>1, EvictsProxy DEF Derived
<1>4. /\ now' = now /\ stage' = stage /\ Mine(a)' = Mine(a) /\ Runs' = Runs
      /\ RunConfig(a)' = RunConfig(a)
  BY <1>1, <1>3, NodeFacts DEF Serving, Mine, Runs, RunConfig
<1>5. OwnedOK(a)' /\ BeatsOK(a)'
  BY <1>2, <1>4 DEF IInv, LocalInv, OwnedOK, Owns, InLoop, BeatsOK, Serving
<1>6. RoundOK(a)'
  BY <1>1, <1>2, <1>4 DEF IInv, LocalInv, RoundOK, Worker!Live, Serving
<1>7. /\ Mine(a) # None /\ Mine(a).expires = now + req[a].ttl
      /\ a \notin halved => Worker!Live(Derived(a))
  BY <1>1, <1>2 DEF IInv, LocalInv, PairOK, Storing
<1>8. CASE req' = [req EXCEPT ![a] = Worker!Idle] /\ ~Worker!Live(Derived(a))
  <2>1. /\ req' \in [Attempt -> Worker!Slot] /\ req'[a] = Worker!Idle
        /\ \A b \in Attempt \ {a} : req'[b] = req[b]
    <3>1. Worker!Idle \in Worker!Slot
      BY DEF Worker!Idle, Worker!Slot, Worker!Stages
    <3>2. QED
      BY <1>8, <3>1 DEF IInv, TypeOK, Worker!TypeOK
  <2>2. req'[a].op = "none" /\ req'[a].pc = "idle"
    BY <2>1 DEF Worker!Idle
  <2>3. CallOK(a)' /\ CarriedOK(a)'
    BY <2>1, <2>2 DEF CallOK, CarriedOK, Worker!Idle
  <2>4. PairOK(a)'
    BY <1>7, <1>8, <2>2 DEF PairOK, Storing
  <2>5. GoneOK(a)'
    BY <1>2, <1>4, <2>2 DEF GoneOK, Serving
  <2>6. LocalInv(a)'
    BY <1>5, <1>6, <2>3, <2>4, <2>5 DEF LocalInv
  <2>7. QED
    BY <1>1, <1>2, <1>3, <2>1, <2>6, CallStep DEF Serving, IInv, TypeOK, Worker!TypeOK
<1>9. CASE /\ Worker!Live(Derived(a))
           /\ Worker!Resume(a, "putProxy", Derived(a).val, req[a].ttl)
  <2>1. Derived(a).val \in Worker!Config
    BY <1>9, NodeFacts DEF IInv, TypeOK, Worker!TypeOK, Derived, Worker!Live, Worker!Entry
  <2>2. req' = [req EXCEPT ![a] =
                   [op |-> req[a].op, pc |-> "putProxy", net |-> req[a].net,
                    node |-> req[a].node, rec |-> req[a].rec, cfg |-> Derived(a).val,
                    ttl |-> req[a].ttl]]
    BY <1>9 DEF Worker!Resume, Worker!Run
  <2>3. req' \in [Attempt -> Worker!Slot] /\ \A b \in Attempt \ {a} : req'[b] = req[b]
    <3>1. req[a] \in Worker!Slot
      BY SlotFacts
    <3>2. [op |-> req[a].op, pc |-> "putProxy", net |-> req[a].net,
           node |-> req[a].node, rec |-> req[a].rec, cfg |-> Derived(a).val,
           ttl |-> req[a].ttl] \in Worker!Slot
      BY <2>1, <3>1 DEF Worker!Slot, Worker!Stages
    <3>3. QED
      BY <2>2, <3>2 DEF IInv, TypeOK, Worker!TypeOK
  <2>4. /\ req'[a].op = "meshHeartbeat" /\ req'[a].net = req[a].net
        /\ req'[a].node = req[a].node /\ req'[a].cfg = Derived(a).val
        /\ req'[a].pc = "putProxy" /\ req'[a].ttl = req[a].ttl
    BY <1>2, <2>2 DEF IInv, TypeOK, Worker!TypeOK
  <2>5. CallOK(a)' /\ CarriedOK(a)'
    BY <1>2, <1>4, <2>1, <2>4 DEF CallOK, CarriedOK, Serves, OfNode
  <2>6. PairOK(a)'
    BY <1>4, <1>7, <2>4 DEF PairOK, Storing
  <2>7. GoneOK(a)'
    BY <1>2, <1>4, <2>4 DEF GoneOK, Serving
  <2>8. LocalInv(a)'
    BY <1>5, <1>6, <2>5, <2>6, <2>7 DEF LocalInv
  <2>9. QED
    BY <1>1, <1>2, <1>3, <2>3, <2>8, CallStep DEF Serving, IInv, TypeOK, Worker!TypeOK
<1>10. QED
  BY <1>2, <1>8, <1>9 DEF Worker!MeshHeartbeatGetProxy, Worker!Finish, Derived, OfNode

\* What the two ends of a call have in common: nothing is served any more.
LEMMA Finished ==
  ASSUME IInv, NEW a \in Attempt, Worker!Finish(a)
  PROVE  /\ req' \in [Attempt -> Worker!Slot] /\ req'[a] = Worker!Idle
         /\ \A b \in Attempt \ {a} : req'[b] = req[b]
         /\ req'[a].op = "none" /\ req'[a].pc = "idle" /\ CallOK(a)' /\ CarriedOK(a)'
<1>1. Worker!Idle \in Worker!Slot /\ Worker!Idle.op = "none" /\ Worker!Idle.pc = "idle"
  BY DEF Worker!Idle, Worker!Slot, Worker!Stages
<1>2. /\ req' \in [Attempt -> Worker!Slot] /\ req'[a] = Worker!Idle
      /\ \A b \in Attempt \ {a} : req'[b] = req[b]
  BY <1>1 DEF IInv, TypeOK, Worker!TypeOK, Worker!Finish
<1>3. CallOK(a)' /\ CarriedOK(a)'
  BY <1>1, <1>2 DEF CallOK, CarriedOK, Worker!Idle
<1>4. QED
  BY <1>1, <1>2, <1>3

LEMMA DeleteProxyStep ==
  ASSUME IInv, NEW a \in Attempt, Worker!DeleteProxy(a), Serving(a), halved' = halved
  PROVE  IInv'
<1>1. /\ req[a].pc = "delProxy" /\ mesh' = mesh /\ gone' = gone /\ hidden' = hidden
      /\ proxy' = [proxy EXCEPT ![req[a].node] = None] /\ Worker!Finish(a)
  BY DEF Worker!DeleteProxy
<1>2. /\ OfNode(a) /\ stage[a] \in {"deregistering", "ended"}
      /\ a \notin closed /\ Busy(a) /\ Mine(a) = None
  BY <1>1, Served DEF IInv, LocalInv, CallOK, GoneOK, Serves, Worker!Idle
<1>3. /\ proxy' \in [Node -> Worker!Entry(Worker!Config) \cup {None}]
      /\ \A n \in Node : n # MeshId[a] => proxy'[n] = proxy[n]
      /\ Derived(a)' = None
  BY <1>1, <1>2, NodeFacts DEF OfNode, IInv, TypeOK, Worker!TypeOK, Derived
<1>4. now' = now /\ stage' = stage /\ Mine(a)' = None
  BY <1>1, <1>2 DEF Serving, Mine
<1>5. LocalInv(a)'
  <2>1. OwnedOK(a)' /\ BeatsOK(a)' /\ RoundOK(a)'
    BY <1>2, <1>4 DEF OwnedOK, Owns, InLoop, BeatsOK, InRound, RoundOK
  <2>2. PairOK(a)'
    BY <1>1, <1>4, Finished DEF PairOK, Storing, Worker!Live
  <2>3. GoneOK(a)'
    BY <1>1, <1>2, <1>3, <1>4, Finished DEF GoneOK, Serving
  <2>4. QED
    BY <1>1, <2>1, <2>2, <2>3, Finished DEF LocalInv
<1>6. QED
  BY <1>1, <1>2, <1>3, <1>5, Finished, CallStep DEF Serving, IInv, TypeOK, Worker!TypeOK

LEMMA CoordinatorFailsStep ==
  ASSUME IInv, NEW a \in Attempt, CoordinatorFails(a) PROVE IInv'
<1>1. /\ req[a].pc # "idle" /\ mesh' = mesh /\ proxy' = proxy /\ hidden' = hidden
      /\ gone' \subseteq gone /\ Worker!Finish(a) /\ now' = now /\ reader' = reader
      /\ disturbed' = disturbed \cup {a} /\ closed' = closed /\ losses' \in 0..MaxLosses
      /\ halved' = IF Halfway(a) THEN halved \cup {a} ELSE halved
      /\ expires' = expires /\ started' = started /\ looping' = looping /\ beats' = beats
      /\ createdAt' = createdAt
  BY DEF CoordinatorFails, Worker!InternalError, Loss, jobVars, IInv, TypeOK
<1>2. PICK s \in Stages : /\ stage' = [stage EXCEPT ![a] = s]
                          /\ s = IF stage[a] \in {"registering", "deregistering"}
                                 THEN "ended" ELSE stage[a]
  <2>1. stage[a] \in Stages /\ "ended" \in Stages
    BY DEF Stages, IInv, TypeOK
  <2>2. CASE stage[a] \in {"registering", "deregistering"}
    BY <2>1, <2>2 DEF CoordinatorFails, Goto
  <2>3. CASE stage[a] \notin {"registering", "deregistering"}
    BY <2>1, <2>3 DEF CoordinatorFails, Goto
  <2>4. QED
    BY <2>2, <2>3
<1>3. /\ stage' \in [Attempt -> Stages] /\ stage'[a] = s
      /\ \A b \in Attempt \ {a} : stage'[b] = stage[b]
  BY <1>2 DEF IInv, TypeOK
<1>4. /\ Mine(a)' = Mine(a) /\ Derived(a)' = Derived(a) /\ Runs' = Runs
      /\ RunConfig(a)' = RunConfig(a)
  BY <1>1 DEF Mine, Derived, Runs, RunConfig
<1>5. Busy(a) /\ a \notin closed
  BY <1>1, Served
<1>6. LocalInv(a)'
  <2>1. OwnedOK(a)'
    <3>1. Owns(a)' => Owns(a)
      BY <1>2, <1>3 DEF Owns, InLoop
    <3>2. QED
      BY <1>4, <3>1 DEF IInv, LocalInv, OwnedOK
  <2>2. BeatsOK(a)' /\ RoundOK(a)'
    BY <1>1, <1>2, <1>3 DEF IInv, LocalInv, BeatsOK, InRound, RoundOK
  <2>3. PairOK(a)'
    <3>1. Halfway(a) <=> Storing(a)
      BY DEF Halfway, Storing
    <3>2. req'[a].op = "none" /\ req'[a].pc = "idle"
      BY <1>1, Finished
    <3>3. QED
      BY <1>1, <1>4, <3>1, <3>2 DEF IInv, LocalInv, PairOK, Storing, Worker!Live
  <2>4. GoneOK(a)'
    BY <1>1, <1>2, <1>3, <1>5, Finished DEF GoneOK
  <2>5. QED
    BY <1>1, <2>1, <2>2, <2>3, <2>4, Finished DEF LocalInv
<1>7. QED
  BY <1>1, <1>3, <1>5, <1>6, Finished, CallStep DEF IInv, TypeOK, Worker!TypeOK

-----------------------------------------------------------------------------
(* The steps that are nobody's.                                            *)

LEMMA StoreIsEmptiedStep == ASSUME IInv, StoreIsEmptied PROVE IInv'
<1>1. /\ now' = now /\ req' = req /\ stage' = stage /\ reader' = reader /\ gone' = gone
      /\ hidden' = hidden /\ expires' = expires /\ started' = started
      /\ looping' = looping /\ beats' = beats /\ createdAt' = createdAt
      /\ disturbed' = Attempt /\ halved' = halved /\ closed' = closed
      /\ losses' \in 0..MaxLosses
  BY DEF StoreIsEmptied, Loss, jobVars, IInv, TypeOK
<1>2. /\ mesh' \in [Worker!MeshKey -> {None}] /\ proxy' \in [Node -> {None}]
  BY DEF StoreIsEmptied, IInv, TypeOK, Worker!TypeOK
<1>3. TypeOK'
  <2>1. Worker!TypeOK'
    BY <1>1, <1>2 DEF IInv, TypeOK, Worker!TypeOK
  <2>2. QED
    BY <1>1, <2>1 DEF IInv, TypeOK
<1>4. Alone'
  BY <1>1 DEF IInv, Alone, Busy, Active, Answered, Worker!Idle
<1>5. ASSUME NEW a \in Attempt PROVE LocalInv(a)'
  <2>1. req[a] = Worker!Idle /\ req'[a] = Worker!Idle
    BY <1>1 DEF StoreIsEmptied, Answered
  <2>2. req'[a].op = "none" /\ req'[a].pc = "idle"
    BY <2>1 DEF Worker!Idle
  <2>3. Mine(a)' = None /\ Derived(a)' = None /\ Runs' = None
    BY <1>2, NodeFacts DEF Mine, Derived, Runs
  <2>4. CallOK(a)' /\ CarriedOK(a)' /\ OwnedOK(a)'
    BY <2>1, <2>2, <2>3 DEF CallOK, CarriedOK, OwnedOK, Worker!Idle
  <2>5. BeatsOK(a)' /\ RoundOK(a)'
    BY <1>1 DEF IInv, LocalInv, BeatsOK, RoundOK
  <2>6. PairOK(a)'
    BY <2>2, <2>3 DEF PairOK, Storing, Worker!Live
  <2>7. GoneOK(a)'
    BY <1>1, <2>1, <2>3 DEF IInv, LocalInv, GoneOK, Answered, Worker!Idle
  <2>8. QED
    BY <2>4, <2>5, <2>6, <2>7 DEF LocalInv
<1>6. QED
  BY <1>3, <1>4, <1>5 DEF IInv

LEMMA TickStep == ASSUME IInv, Tick PROVE IInv'
<1>1. /\ mesh' = mesh /\ proxy' = proxy /\ req' = req /\ reader' = reader /\ gone' = gone
      /\ hidden' = hidden /\ stage' = stage /\ expires' = expires /\ started' = started
      /\ looping' = looping /\ beats' = beats /\ createdAt' = createdAt
      /\ disturbed' = disturbed /\ halved' = halved /\ closed' = closed /\ losses' = losses
  BY DEF Tick, Worker!Tick, jobVars
<1>2. now \in Nat /\ now' = now + 1 /\ now' \in 0..MaxNow
  BY DEF Tick, Worker!Tick, IInv, TypeOK, Worker!TypeOK
<1>3. TypeOK'
  <2>1. Worker!TypeOK'
    BY <1>1, <1>2 DEF IInv, TypeOK, Worker!TypeOK
  <2>2. QED
    BY <1>1, <2>1 DEF IInv, TypeOK
<1>4. Alone'
  BY <1>1 DEF IInv, Alone, Busy, Active, Answered, Worker!Idle
<1>5. ASSUME NEW a \in Attempt PROVE LocalInv(a)'
  <2>1. /\ req[a] = Worker!Idle /\ req'[a] = Worker!Idle
        /\ stage[a] \in {"off", "ended", "setup", "loop"}
    BY <1>1 DEF Tick, Worker!Tick, Active
  <2>2. /\ req'[a].op = "none" /\ req'[a].pc = "idle" /\ ~Storing(a)
        /\ a \notin halved /\ Worker!Live(Mine(a)) =>
               Derived(a) # None /\ Mine(a).expires <= Derived(a).expires
    BY <2>1, Called DEF Worker!Idle
  <2>3. /\ Mine(a)' = Mine(a) /\ Derived(a)' = Derived(a) /\ Runs' = Runs
        /\ RunConfig(a)' = RunConfig(a)
    BY <1>1 DEF Mine, Derived, Runs, RunConfig
  <2>4. Mine(a) # None => Mine(a).expires \in Nat
    BY NodeFacts DEF IInv, TypeOK, Worker!TypeOK, Mine, Worker!Entry
  <2>5. CallOK(a)' /\ CarriedOK(a)'
    BY <2>1, <2>2 DEF CallOK, CarriedOK, Worker!Idle
  <2>6. OwnedOK(a)' /\ BeatsOK(a)' /\ RoundOK(a)'
    BY <1>1, <2>1, <2>3 DEF IInv, LocalInv, OwnedOK, Owns, InLoop, BeatsOK, InRound, RoundOK
  <2>7. Worker!Live(Mine(a))' => Worker!Live(Mine(a))
    BY <1>2, <2>3, <2>4 DEF Worker!Live
  <2>8. PairOK(a)'
    BY <1>1, <2>2, <2>3, <2>7 DEF PairOK, Storing
  <2>9. GoneOK(a)'
    BY <1>1, <2>1, <2>3 DEF IInv, LocalInv, GoneOK, Answered, Worker!Idle
  <2>10. QED
    BY <2>5, <2>6, <2>8, <2>9 DEF LocalInv
<1>6. QED
  BY <1>3, <1>4, <1>5 DEF IInv

LEMMA StutterStep == ASSUME IInv, UNCHANGED vars PROVE IInv'
<1>1. /\ now' = now /\ mesh' = mesh /\ proxy' = proxy /\ req' = req /\ reader' = reader
      /\ gone' = gone /\ hidden' = hidden /\ stage' = stage /\ expires' = expires
      /\ started' = started /\ looping' = looping /\ beats' = beats
      /\ createdAt' = createdAt /\ disturbed' = disturbed /\ halved' = halved
      /\ closed' = closed /\ losses' = losses
  BY DEF vars, storeVars, jobVars
<1>2. TypeOK'
  BY <1>1 DEF IInv, TypeOK, Worker!TypeOK
<1>3. Alone'
  BY <1>1 DEF IInv, Alone, Busy, Active, Answered, Worker!Idle
<1>4. ASSUME NEW a \in Attempt PROVE LocalInv(a)'
  <2>1. /\ Mine(a)' = Mine(a) /\ Derived(a)' = Derived(a) /\ Runs' = Runs
        /\ RunConfig(a)' = RunConfig(a) /\ Signed(a)' = Signed(a)
    BY <1>1 DEF Mine, Derived, Runs, RunConfig, Signed
  <2>2. CallOK(a)' /\ CarriedOK(a)'
    BY <1>1, <2>1 DEF IInv, LocalInv, CallOK, CarriedOK, Serves, OfRun, OfNode, Worker!Idle
  <2>3. OwnedOK(a)' /\ BeatsOK(a)' /\ RoundOK(a)'
    BY <1>1, <2>1 DEF IInv, LocalInv, OwnedOK, Owns, Answered, BeatsOK, RoundOK,
                      Worker!Live, Worker!Idle
  <2>4. PairOK(a)' /\ GoneOK(a)'
    BY <1>1, <2>1 DEF IInv, LocalInv, PairOK, Storing, GoneOK, Answered, Worker!Live,
                      Worker!Idle
  <2>5. QED
    BY <2>2, <2>3, <2>4 DEF LocalInv
<1>5. QED
  BY <1>2, <1>3, <1>4 DEF IInv

LEMMA ServeSteps == ASSUME IInv, NEW a \in Attempt, Serve(a) PROVE IInv'
<1>1. Serving(a)
  BY DEF Serve, Serving, jobVars, Worker!PutProxy, Worker!PutMesh, Worker!MeshRegisterCheck,
         Worker!MeshHeartbeatGetProxy, Worker!DeleteProxy
<1>2. CASE Worker!PutProxy(a)
  BY <1>1, <1>2, PutProxyStep DEF Serve
<1>3. CASE Worker!PutMesh(a)
  <2>1. req[a].pc = "putMesh"
    BY <1>3 DEF Worker!PutMesh
  <2>2. halved' = halved
    BY <2>1 DEF Serve
  <2>3. QED
    BY <1>1, <1>3, <2>2, PutMeshStep
<1>4. CASE Worker!MeshRegisterCheck(a)
  <2>1. req[a].pc = "getMesh"
    BY <1>4 DEF Worker!MeshRegisterCheck
  <2>2. halved' = halved
    BY <2>1 DEF Serve
  <2>3. QED
    BY <1>1, <1>4, <2>2, MeshRegisterCheckStep
<1>5. CASE Worker!MeshHeartbeatGetProxy(a)
  <2>1. req[a].pc = "getProxy"
    BY <1>5 DEF Worker!MeshHeartbeatGetProxy
  <2>2. halved' = halved
    BY <2>1 DEF Serve
  <2>3. QED
    BY <1>1, <1>5, <2>2, MeshHeartbeatGetProxyStep
<1>6. CASE Worker!DeleteProxy(a)
  <2>1. req[a].pc = "delProxy"
    BY <1>6 DEF Worker!DeleteProxy
  <2>2. halved' = halved
    BY <2>1 DEF Serve
  <2>3. QED
    BY <1>1, <1>6, <2>2, DeleteProxyStep
<1>7. QED
  BY <1>2, <1>3, <1>4, <1>5, <1>6 DEF Serve

LEMMA NextIInv == ASSUME IInv, [Next]_vars PROVE IInv'
<1>1. ASSUME NEW a \in Attempt, Job(a) PROVE IInv'
  BY <1>1, SetupSteps, RegisterStep, MeshRegisterStep, LoopSteps, HeartbeatStep,
     MeshHeartbeatStep, MeshDeregisterStep, EndSteps DEF Job
<1>2. ASSUME NEW a \in Attempt, Failure(a) PROVE IInv'
  BY <1>2, FailSteps, EndSteps, CoordinatorFailsStep DEF Failure
<1>3. QED
  BY <1>1, <1>2, ServeSteps, StoreIsEmptiedStep, TickStep, StutterStep DEF Next

LEMMA Invariant == Spec => []IInv
BY InitIInv, NextIInv, PTL DEF Spec

-----------------------------------------------------------------------------

\* The state of the job, of the store and of the calls being served has its type.
THEOREM TypeCorrect == Spec => []TypeOK
<1>1. IInv => TypeOK
  BY DEF IInv
<1>2. QED
  BY <1>1, Invariant, PTL

\* A round of heartbeats whose calls were all carried out leaves the run listed
\* with its own EXPIRES_AT, and with its record, whatever was lost before: for any
\* number of attempts, failures and emptied stores.
THEOREM RoundsRestore == Spec => []RoundRestores
<1>1. IInv => RoundRestores
  <2>1. SUFFICES ASSUME IInv, NEW a \in Attempt, stage[a] = "round", Answered(a),
                        a \notin disturbed
                 PROVE  /\ Worker!Live(Runs) /\ Runs.val.expiresAt = expires[a]
                        /\ Worker!Live(Mine(a))
    BY KeysDiffer DEF RoundRestores, Runs, Mine
  <2>2. req[a].op = "none" /\ req[a].pc = "idle"
    BY <2>1 DEF Answered, Worker!Idle
  <2>3. Worker!Live(Runs) /\ Worker!Live(Mine(a))
    BY <2>1, <2>2 DEF IInv, LocalInv, RoundOK
  <2>4. Runs.val = RunConfig(a)
    BY <2>1, <2>3 DEF IInv, LocalInv, OwnedOK, Owns, InLoop, Worker!Live
  <2>5. QED
    BY <2>3, <2>4 DEF RunConfig
<1>2. QED
  BY <1>1, Invariant, PTL

\* While no call about it is served, a node that /mesh/status counts has its link
\* in /sub/all, unless a call failed between its two puts.
THEOREM NodesSubscribable == Spec => []MeshNodeSubscribable
<1>1. IInv => MeshNodeSubscribable
  <2>1. SUFFICES ASSUME IInv, NEW a \in Attempt, Answered(a), a \notin halved,
                        Worker!Live(Mine(a))
                 PROVE  Worker!Live(Derived(a))
    BY KeysDiffer DEF MeshNodeSubscribable, Derived, Mine
  <2>2. Derived(a) # None /\ Mine(a).expires <= Derived(a).expires
    BY <2>1, Called DEF Answered
  <2>3. Mine(a).expires \in Nat /\ Derived(a).expires \in Nat /\ now \in Nat
    BY <2>1, <2>2, NodeFacts DEF IInv, TypeOK, Worker!TypeOK, Mine, Derived, Worker!Live,
                                 Worker!Entry
  <2>4. QED
    BY <2>1, <2>2, <2>3 DEF Worker!Live
<1>2. QED
  BY <1>1, Invariant, PTL

\* Nothing of an attempt comes back after its deregistration was answered, but the
\* proxy under the id of the run.
THEOREM ClosedGone == Spec => []ClosedStaysGone
<1>1. IInv => ClosedStaysGone
  BY KeysDiffer DEF IInv, TypeOK, LocalInv, GoneOK, ClosedStaysGone, Mine, Derived,
                    Worker!Live
<1>2. QED
  BY <1>1, Invariant, PTL

-----------------------------------------------------------------------------
(* How long entries are kept.                                              *)

\* The loop ends before EXPIRES_AT, which is not at once, and an entry is given no
\* more than the grace period at the least.
Limits == Period * Beats <= Life /\ 0 < Life /\ MinTtl <= Grace

Registered(a) == stage[a] \notin {"off", "setup"}

\* Where in its life a job is.
TimesOK(a) ==
    /\ stage[a] \in {"register", "registering", "mesh"} => expires[a] = now + Life
    /\ stage[a] \in InLoop => expires[a] = looping[a] + Life
    /\ stage[a] = "loop" => now <= Wake(a)
    /\ stage[a] \in InRound => now = Wake(a)

\* Nothing is asked for once EXPIRES_AT has passed.
AskedOK(a) ==
    /\ req[a].op \notin {"none", "meshDeregister"} => now < expires[a]
    /\ req[a].pc \in {"putMesh", "getProxy", "putProxy"} =>
           now + req[a].ttl <= expires[a] + Grace

\* EXPIRES_AT is calculated before anything is stored that it bounds.
KeptOK(a) ==
    /\ Mine(a) # None => Registered(a) /\ Mine(a).expires <= expires[a] + Grace
    /\ Derived(a) # None => Registered(a) /\ Derived(a).expires <= expires[a] + Grace
RunKeptOK ==
    Runs # None => \E a \in Attempt : Registered(a) /\ Runs.expires <= expires[a] + Grace

LapseInv == RunKeptOK /\ \A a \in Attempt : TimesOK(a) /\ AskedOK(a) /\ KeptOK(a)

LEMMA Products ==
  ASSUME NEW p \in Nat, NEW b \in Nat, NEW n \in Nat
  PROVE  p * b \in Nat /\ (b <= n => p * b <= p * n)
<1>1. \A d \in Nat : p * d \in Nat /\ p * (b + d) = p * b + p * d
  BY SMT
<1>2. b <= n => n - b \in Nat /\ n = b + (n - b)
  OBVIOUS
<1>3. p * b \in Nat
  BY <1>1
<1>4. b <= n => p * n = p * b + p * (n - b) /\ p * (n - b) \in Nat
  BY <1>1, <1>2
<1>5. QED
  BY <1>3, <1>4

LEMMA WakeFacts ==
  ASSUME Limits, NEW l \in Nat, NEW b \in 0..Beats
  PROVE  /\ b < Beats => /\ Period * (b + 1) \in Nat /\ Period <= Period * (b + 1)
                         /\ Period * (b + 1) <= Life
                         /\ Period * (b + 1) <= Period * Beats
         /\ b + 1 < Beats => Period * (b + 1) <= Period * (b + 1 + 1)
         /\ Period * Beats \in Nat /\ Period * Beats <= Life
<1>1. Period \in Nat /\ b \in Nat /\ Beats \in Nat /\ Life \in Nat /\ Period * 1 = Period
  OBVIOUS
<1>2. Period * Beats \in Nat /\ Period * Beats <= Life
  BY <1>1, Products DEF Limits
<1>3. ASSUME b < Beats
      PROVE  /\ Period * (b + 1) \in Nat /\ Period <= Period * (b + 1)
             /\ Period * (b + 1) <= Period * Beats
  <2>1. b + 1 \in Nat /\ 1 \in Nat /\ 1 <= b + 1 /\ b + 1 <= Beats
    BY <1>1, <1>3
  <2>2. Period * (b + 1) \in Nat /\ Period * 1 <= Period * (b + 1)
    BY <1>1, <2>1, Products
  <2>3. Period * (b + 1) <= Period * Beats
    BY <1>1, <2>1, Products
  <2>4. QED
    BY <1>1, <2>2, <2>3
<1>4. b + 1 < Beats => Period * (b + 1) <= Period * (b + 1 + 1)
  <2>1. b + 1 \in Nat /\ b + 1 + 1 \in Nat /\ b + 1 <= b + 1 + 1
    BY <1>1
  <2>2. QED
    BY <1>1, <2>1, Products
<1>5. QED
  <2>1. b < Beats => Period * (b + 1) <= Life
    BY <1>1, <1>2, <1>3
  <2>2. QED
    BY <1>2, <1>3, <1>4, <2>1

LEMMA Waking ==
  ASSUME Limits, IInv, NEW a \in Attempt
  PROVE  /\ Wake(a) \in Int /\ looping[a] <= Wake(a)
         /\ beats[a] < Beats => Wake(a) < looping[a] + Life
<1>1. looping[a] \in Nat /\ beats[a] \in 0..Beats
  BY DEF IInv, TypeOK
<1>2. CASE beats[a] < Beats
  <2>1. /\ Period * (beats[a] + 1) \in Nat /\ Period <= Period * (beats[a] + 1)
        /\ Period * (beats[a] + 1) <= Life
    BY <1>1, <1>2, WakeFacts
  <2>2. Wake(a) = looping[a] + Period * (beats[a] + 1) - 1
    BY <1>2 DEF Wake
  <2>3. Period \in Nat /\ 1 <= Period /\ Life \in Nat
    OBVIOUS
  <2>4. QED
    BY <1>1, <2>1, <2>2, <2>3
<1>3. CASE ~(beats[a] < Beats)
  BY <1>1, <1>3, WakeFacts DEF Wake
<1>4. QED
  BY <1>2, <1>3

\* As long as EXPIRES_AT lies ahead, the coordinator gives at most the rest of the
\* life and the grace period.
LEMMA Given ==
  ASSUME Limits, now \in Nat, NEW e \in Nat, now < e
  PROVE  /\ now + Worker!TtlFromExpiresAt(e) <= e + Grace
         /\ now + Worker!RegisterTtl(e) <= e + Grace
         /\ now + Worker!HeartbeatTtl(e) <= e + Grace
<1>1. e # None
  OBVIOUS
<1>2. QED
  BY <1>1 DEF Limits, Worker!TtlFromExpiresAt, Worker!RegisterTtl, Worker!HeartbeatTtl,
       Worker!Greater, Worker!Lesser, Worker!Remaining

\* An attempt that registers or renews does so before EXPIRES_AT.
LEMMA Ahead ==
  ASSUME Limits, IInv, LapseInv, NEW a \in Attempt,
         \/ stage[a] \in {"register", "registering"} \cup InRound
         \/ stage[a] = "loop" /\ beats[a] < Beats /\ now = Wake(a)
  PROVE  now < expires[a] /\ now \in Nat /\ expires[a] \in Nat
<1>1. now \in Nat /\ expires[a] \in Nat /\ looping[a] \in Nat /\ Life \in Nat
  BY DEF IInv, TypeOK, Worker!TypeOK
<1>2. CASE stage[a] \in {"register", "registering"}
  BY <1>1, <1>2 DEF LapseInv, TimesOK, Limits
<1>3. CASE stage[a] \in InRound
  <2>1. beats[a] < Beats /\ now = Wake(a) /\ expires[a] = looping[a] + Life
    BY <1>3 DEF IInv, LocalInv, BeatsOK, LapseInv, TimesOK, InLoop, InRound
  <2>2. QED
    BY <1>1, <2>1, Waking
<1>4. CASE stage[a] = "loop" /\ beats[a] < Beats /\ now = Wake(a)
  <2>1. expires[a] = looping[a] + Life
    BY <1>4 DEF LapseInv, TimesOK, InLoop
  <2>2. QED
    BY <1>1, <1>4, <2>1, Waking
<1>5. QED
  BY <1>2, <1>3, <1>4

\* A step of one attempt that puts nothing.
Kept ==
    /\ \A k \in Worker!MeshKey : mesh'[k] \in {mesh[k], None}
    /\ \A n \in Node : proxy'[n] \in {proxy[n], None}
Others(a) ==
    \A b \in Attempt \ {a} :
        /\ stage'[b] = stage[b] /\ req'[b] = req[b] /\ expires'[b] = expires[b]
        /\ looping'[b] = looping[b] /\ beats'[b] = beats[b]

LEMMA OtherTimes ==
  ASSUME LapseInv, NEW a \in Attempt, now' = now, Others(a), NEW b \in Attempt \ {a}
  PROVE  TimesOK(b)' /\ AskedOK(b)' /\ (Registered(b)' <=> Registered(b))
<1>1. /\ stage'[b] = stage[b] /\ req'[b] = req[b] /\ expires'[b] = expires[b]
      /\ looping'[b] = looping[b] /\ beats'[b] = beats[b]
  BY DEF Others
<1>2. Wake(b)' = Wake(b)
  BY <1>1 DEF Wake
<1>3. QED
  BY <1>1, <1>2 DEF LapseInv, TimesOK, AskedOK, Registered

LEMMA KeptStep ==
  ASSUME LapseInv, NEW a \in Attempt, now' = now, Others(a), Kept,
         Registered(a) => Registered(a)' /\ expires'[a] = expires[a],
         TimesOK(a)', AskedOK(a)'
  PROVE  LapseInv'
<1>1. \A b \in Attempt : Registered(b) => Registered(b)' /\ expires'[b] = expires[b]
  BY OtherTimes DEF Others
<1>2. \A b \in Attempt : TimesOK(b)' /\ AskedOK(b)'
  BY OtherTimes
<1>3. Runs' \in {Runs, None}
  BY NodeFacts DEF Kept, Runs
<1>4. RunKeptOK'
  BY <1>1, <1>3 DEF LapseInv, RunKeptOK
<1>5. ASSUME NEW b \in Attempt PROVE KeptOK(b)'
  <2>1. Mine(b)' \in {Mine(b), None} /\ Derived(b)' \in {Derived(b), None}
    BY NodeFacts DEF Kept, Mine, Derived, Key
  <2>2. QED
    BY <1>1, <2>1 DEF LapseInv, KeptOK
<1>6. QED
  BY <1>2, <1>4, <1>5 DEF LapseInv

\* Steps that call nobody.
LEMMA QuietLapse ==
  ASSUME Limits, IInv, LapseInv, NEW a \in Attempt,
         \/ StartJob(a) \/ CalculateExpiry(a) \/ EnterLoop(a) \/ EndRound(a) \/ LeaveLoop(a)
         \/ Finish(a) \/ Cancel(a) \/ CallFails(a) \/ AnswerLost(a)
         \/ MeshRegistrationFails(a)
  PROVE  LapseInv'
<1>1. /\ now' = now /\ req' = req /\ mesh' = mesh /\ proxy' = proxy
      /\ \A b \in Attempt \ {a} : stage'[b] = stage[b] /\ expires'[b] = expires[b]
                                  /\ looping'[b] = looping[b] /\ beats'[b] = beats[b]
  BY DEF StartJob, CalculateExpiry, EnterLoop, EndRound, LeaveLoop, Finish, Cancel, CallFails,
         AnswerLost, MeshRegistrationFails, Goto, storeVars, jobVars, IInv, TypeOK
<1>2. Others(a) /\ Kept
  BY <1>1 DEF Others, Kept
<1>3. /\ now \in Nat /\ Life \in Nat /\ looping[a] \in Nat /\ beats[a] \in 0..Beats
      /\ expires[a] \in Nat
  BY DEF IInv, TypeOK, Worker!TypeOK
<1>4. CASE StartJob(a)
  <2>1. stage[a] = "off" /\ stage'[a] = "setup" /\ expires' = expires
    BY <1>4 DEF StartJob, Goto, IInv, TypeOK
  <2>2. AskedOK(a)' /\ TimesOK(a)'
    BY <1>1, <2>1 DEF LapseInv, AskedOK, TimesOK, InLoop, InRound
  <2>3. QED
    BY <1>1, <1>2, <2>1, <2>2, KeptStep DEF Registered
<1>5. CASE CalculateExpiry(a)
  <2>1. stage[a] = "setup" /\ stage'[a] = "register" /\ expires'[a] = now + Life
    BY <1>5 DEF CalculateExpiry, ExpiresAt, Goto, IInv, TypeOK
  <2>2. req[a].op = "none" /\ req[a].pc = "idle"
    BY <2>1 DEF IInv, LocalInv, CallOK, Serves, Worker!Idle
  <2>3. AskedOK(a)' /\ TimesOK(a)'
    BY <1>1, <2>1, <2>2 DEF AskedOK, TimesOK, InLoop, InRound
  <2>4. QED
    BY <1>1, <1>2, <2>1, <2>3, KeptStep DEF Registered
<1>6. CASE EnterLoop(a)
  <2>1. /\ stage[a] = "mesh" /\ stage'[a] = "loop" /\ expires' = expires
        /\ looping'[a] = now /\ beats' = beats
    BY <1>6 DEF EnterLoop, Goto, IInv, TypeOK
  <2>2. now <= Wake(a)'
    <3>1. CASE beats[a] < Beats
      <4>1. Period * (beats[a] + 1) \in Nat /\ Period <= Period * (beats[a] + 1)
        BY <1>3, <3>1, WakeFacts
      <4>2. Wake(a)' = now + Period * (beats[a] + 1) - 1
        BY <2>1, <3>1 DEF Wake
      <4>3. Period \in Nat /\ 1 <= Period
        OBVIOUS
      <4>4. QED
        BY <1>3, <4>1, <4>2, <4>3
    <3>2. CASE ~(beats[a] < Beats)
      BY <1>3, <2>1, <3>2, WakeFacts DEF Wake
    <3>3. QED
      BY <3>1, <3>2
  <2>3. AskedOK(a)' /\ TimesOK(a)'
    BY <1>1, <2>1, <2>2 DEF LapseInv, AskedOK, TimesOK, InRound
  <2>4. QED
    BY <1>1, <1>2, <2>1, <2>3, KeptStep DEF Registered
<1>7. CASE EndRound(a)
  <2>1. /\ stage[a] = "round" /\ stage'[a] = "loop" /\ expires' = expires
        /\ looping' = looping /\ beats'[a] = beats[a] + 1
    BY <1>7 DEF EndRound, Goto, IInv, TypeOK
  <2>2. beats[a] < Beats /\ now = Wake(a)
    BY <2>1 DEF IInv, LocalInv, BeatsOK, LapseInv, TimesOK, InRound
  <2>3. now = looping[a] + Period * (beats[a] + 1) - 1
    BY <2>2 DEF Wake
  <2>4. /\ Period * (beats[a] + 1) \in Nat /\ Period * (beats[a] + 1) <= Period * Beats
        /\ Period * Beats \in Nat
    BY <1>3, <2>2, WakeFacts
  <2>5. now <= Wake(a)'
    <3>1. CASE beats[a] + 1 < Beats
      <4>1. Wake(a)' = looping[a] + Period * (beats[a] + 1 + 1) - 1
        BY <2>1, <3>1 DEF Wake
      <4>2. Period * (beats[a] + 1) <= Period * (beats[a] + 1 + 1)
        BY <1>3, <3>1, WakeFacts
      <4>3. Period * (beats[a] + 1 + 1) \in Nat
        <5>1. Period \in Nat /\ beats[a] + 1 + 1 \in Nat
          BY <1>3
        <5>2. QED
          BY <5>1, Products
      <4>4. QED
        BY <1>3, <2>3, <2>4, <4>1, <4>2, <4>3
    <3>2. CASE ~(beats[a] + 1 < Beats)
      <4>1. Wake(a)' = looping[a] + Period * Beats
        BY <2>1, <3>2 DEF Wake
      <4>2. QED
        BY <1>3, <2>3, <2>4, <4>1
    <3>3. QED
      BY <3>1, <3>2
  <2>6. AskedOK(a)' /\ TimesOK(a)'
    BY <1>1, <2>1, <2>5 DEF LapseInv, AskedOK, TimesOK, InLoop, InRound
  <2>7. QED
    BY <1>1, <1>2, <2>1, <2>6, KeptStep DEF Registered
<1>8. CASE LeaveLoop(a) \/ Finish(a) \/ Cancel(a) \/ AnswerLost(a)
  <2>1. /\ stage[a] \notin {"off", "ended"} /\ stage'[a] \in {"deregister", "ended"}
        /\ expires' = expires
    BY <1>8 DEF LeaveLoop, Finish, Cancel, AnswerLost, Active, Goto, jobVars, IInv, TypeOK
  <2>2. AskedOK(a)' /\ TimesOK(a)'
    BY <1>1, <2>1 DEF LapseInv, AskedOK, TimesOK, InLoop, InRound
  <2>3. QED
    BY <1>1, <1>2, <2>1, <2>2, KeptStep DEF Registered
<1>9. CASE CallFails(a) \/ MeshRegistrationFails(a)
  <2>1. /\ expires' = expires /\ looping' = looping /\ beats' = beats
        /\ stage[a] \notin {"off", "setup"}
        /\ \/ stage'[a] = "mesh" /\ stage[a] = "registering"
           \/ stage'[a] = "ended"
           \/ /\ stage'[a] \in {"heartbeat", "round"}
              /\ \/ stage[a] \in {"heartbeat", "reregister", "meshReregister"}
                 \/ stage[a] = "loop" /\ now = Wake(a)
    BY <1>9 DEF CallFails, MeshRegistrationFails, AfterFailure, Goto, jobVars, IInv, TypeOK
  <2>2. Wake(a)' = Wake(a)
    BY <2>1 DEF Wake
  <2>3. TimesOK(a)'
    BY <1>1, <2>1, <2>2 DEF LapseInv, TimesOK, InLoop, InRound
  <2>4. AskedOK(a)'
    BY <1>1, <2>1 DEF LapseInv, AskedOK
  <2>5. QED
    BY <1>1, <1>2, <2>1, <2>3, <2>4, KeptStep DEF Registered
<1>10. QED
  BY <1>4, <1>5, <1>6, <1>7, <1>8, <1>9

\* Steps that ask the coordinator.
LEMMA AskLapse ==
  ASSUME Limits, IInv, LapseInv, NEW a \in Attempt,
         \/ RegisterProxy(a) \/ RegisterMesh(a) \/ Heartbeat(a) \/ Reregister(a)
         \/ MeshHeartbeat(a) \/ MeshReregister(a) \/ MeshDeregister(a)
  PROVE  LapseInv'
<1>1. /\ now' = now /\ expires' = expires /\ looping' = looping /\ beats' = beats
      /\ stage[a] \notin {"off", "setup"} /\ req[a] = Worker!Idle
      /\ \A b \in Attempt \ {a} : stage'[b] = stage[b] /\ req'[b] = req[b]
  BY DEF RegisterProxy, RegisterMesh, Heartbeat, Reregister, MeshHeartbeat, MeshReregister,
         MeshDeregister, Worker!Register, Worker!MeshRegister, Worker!Heartbeat,
         Worker!MeshHeartbeat, Worker!MeshDeregister, Worker!MayStart, Worker!Run, Goto,
         jobVars, IInv, TypeOK, Worker!TypeOK
<1>2. Others(a)
  BY <1>1 DEF Others
<1>3. Kept
  <2>1. mesh \in [Worker!MeshKey -> Worker!Entry(Worker!Record) \cup {None}]
        /\ proxy \in [Node -> Worker!Entry(Worker!Config) \cup {None}]
    BY DEF IInv, TypeOK, Worker!TypeOK
  <2>2. \A k \in Worker!MeshKey : mesh'[k] \in {mesh[k], None}
    BY <2>1 DEF RegisterProxy, RegisterMesh, Heartbeat, Reregister, MeshHeartbeat,
         MeshReregister, MeshDeregister, Worker!Register, Worker!MeshRegister,
         Worker!Heartbeat, Worker!MeshHeartbeat, Worker!MeshDeregister, Worker!Evict
  <2>3. \A n \in Node : proxy'[n] \in {proxy[n], None}
    BY <2>1 DEF RegisterProxy, RegisterMesh, Heartbeat, Reregister, MeshHeartbeat,
         MeshReregister, MeshDeregister, Worker!Register, Worker!MeshRegister,
         Worker!Heartbeat, Worker!MeshHeartbeat, Worker!MeshDeregister, Worker!Evict
  <2>4. QED
    BY <2>2, <2>3 DEF Kept
<1>4. /\ req \in [Attempt -> Worker!Slot] /\ req[a].op = "none" /\ req[a].pc = "idle"
      /\ stage \in [Attempt -> Stages]
  BY <1>1 DEF IInv, TypeOK, Worker!TypeOK, Worker!Idle
<1>5. Wake(a)' = Wake(a)
  BY <1>1 DEF Wake
<1>6. TimesOK(a)' /\ Registered(a)'
  <2>1. \/ stage'[a] \in {"deregistering"}
        \/ stage[a] = "register" /\ stage'[a] = "registering"
        \/ stage[a] = "registering" /\ stage'[a] = "mesh"
        \/ stage[a] \in InRound /\ stage'[a] \in InRound
        \/ stage[a] = "loop" /\ now = Wake(a) /\ stage'[a] \in InRound
    BY <1>4 DEF RegisterProxy, RegisterMesh, Heartbeat, Reregister, MeshHeartbeat,
         MeshReregister, MeshDeregister, AfterMeshHeartbeat, Goto, InRound
  <2>2. QED
    BY <1>1, <1>5, <2>1 DEF LapseInv, TimesOK, InLoop, InRound, Registered
<1>7. AskedOK(a)'
  <2>1. CASE RegisterProxy(a) \/ Reregister(a)
    <3>1. now < expires[a] /\ now \in Nat /\ expires[a] \in Nat
      BY <2>1, Ahead DEF RegisterProxy, Reregister, InRound
    <3>2. /\ req'[a].op = "register" /\ req'[a].pc = "putProxy"
          /\ req'[a].ttl = Worker!RegisterTtl(expires[a])
      BY <1>4, <2>1 DEF RegisterProxy, Reregister, Worker!Register, Worker!Run
    <3>3. now + Worker!RegisterTtl(expires[a]) <= expires[a] + Grace
      BY <3>1, Given
    <3>4. QED
      BY <1>1, <3>1, <3>2, <3>3 DEF AskedOK
  <2>2. CASE Heartbeat(a)
    <3>1. now < expires[a] /\ now \in Nat /\ expires[a] \in Nat
      BY <2>2, Ahead DEF Heartbeat
    <3>2. \/ req'[a] = req[a]
          \/ /\ req'[a].op = "heartbeat" /\ req'[a].pc = "putProxy"
             /\ req'[a].ttl = Worker!HeartbeatTtl(expires[a])
      BY <1>4, <2>2 DEF Heartbeat, HeartbeatExpiry, Worker!Heartbeat, Worker!Run
    <3>3. now + Worker!HeartbeatTtl(expires[a]) <= expires[a] + Grace
      BY <3>1, Given
    <3>4. QED
      BY <1>1, <1>4, <3>1, <3>2, <3>3 DEF AskedOK
  <2>3. CASE RegisterMesh(a) \/ MeshReregister(a)
    <3>1. now < expires[a] /\ now \in Nat /\ expires[a] \in Nat
      BY <2>3, Ahead DEF RegisterMesh, MeshReregister, InRound
    <3>2. req'[a].op = "meshRegister" /\ req'[a].pc = "getMesh"
      BY <1>4, <2>3 DEF RegisterMesh, MeshReregister, Worker!MeshRegister, Worker!Run
    <3>3. QED
      BY <1>1, <3>1, <3>2 DEF AskedOK
  <2>4. CASE MeshHeartbeat(a)
    <3>1. now < expires[a] /\ now \in Nat /\ expires[a] \in Nat
      BY <2>4, Ahead DEF MeshHeartbeat, InRound
    <3>2. expires[a] # None
      BY <3>1
    <3>3. \/ req'[a] = req[a]
          \/ /\ req'[a].op = "meshHeartbeat" /\ req'[a].pc = "putMesh"
             /\ req'[a].ttl = Worker!TtlFromExpiresAt(expires[a])
      BY <1>4, <2>4, <3>2 DEF MeshHeartbeat, Worker!MeshHeartbeat, Worker!Run
    <3>4. now + Worker!TtlFromExpiresAt(expires[a]) <= expires[a] + Grace
      BY <3>1, Given
    <3>5. QED
      BY <1>1, <1>4, <3>1, <3>3, <3>4 DEF AskedOK
  <2>5. CASE MeshDeregister(a)
    <3>1. req'[a].op = "meshDeregister" /\ req'[a].pc = "delProxy"
      BY <1>4, <2>5 DEF MeshDeregister, Worker!MeshDeregister, Worker!Run
    <3>2. QED
      BY <3>1 DEF AskedOK
  <2>6. QED
    BY <2>1, <2>2, <2>3, <2>4, <2>5
<1>8. QED
  BY <1>1, <1>2, <1>3, <1>6, <1>7, KeptStep

\* Steps of the coordinator that put nothing.
LEMMA ServeLapse ==
  ASSUME Limits, IInv, LapseInv, NEW a \in Attempt,
         \/ Serve(a) /\ (\/ Worker!MeshRegisterCheck(a) \/ Worker!MeshHeartbeatGetProxy(a)
                         \/ Worker!DeleteProxy(a))
         \/ CoordinatorFails(a)
  PROVE  LapseInv'
<1>1. /\ now' = now /\ expires' = expires /\ looping' = looping /\ beats' = beats
      /\ req \in [Attempt -> Worker!Slot] /\ stage \in [Attempt -> Stages]
  BY DEF Serve, CoordinatorFails, Worker!MeshRegisterCheck, Worker!MeshHeartbeatGetProxy,
         Worker!DeleteProxy, Worker!InternalError, jobVars, IInv, TypeOK, Worker!TypeOK
<1>2. /\ \A b \in Attempt \ {a} : stage'[b] = stage[b]
      /\ stage'[a] \in {stage[a], "ended"}
  BY <1>1 DEF Serve, CoordinatorFails, Goto, Registered
<1>3. \A b \in Attempt \ {a} : req'[b] = req[b]
  BY <1>1 DEF CoordinatorFails, Worker!MeshRegisterCheck, Worker!MeshHeartbeatGetProxy,
         Worker!DeleteProxy, Worker!InternalError, Worker!Finish, Worker!Resume, Worker!Run
<1>4. Others(a)
  BY <1>1, <1>2, <1>3 DEF Others
<1>5. Kept
  <2>1. mesh \in [Worker!MeshKey -> Worker!Entry(Worker!Record) \cup {None}]
        /\ proxy \in [Node -> Worker!Entry(Worker!Config) \cup {None}]
    BY DEF IInv, TypeOK, Worker!TypeOK
  <2>2. \A k \in Worker!MeshKey : mesh'[k] \in {mesh[k], None}
    BY <2>1 DEF CoordinatorFails, Worker!MeshRegisterCheck, Worker!MeshHeartbeatGetProxy,
         Worker!DeleteProxy, Worker!InternalError, Worker!Evict
  <2>3. \A n \in Node : proxy'[n] \in {proxy[n], None}
    BY <2>1 DEF CoordinatorFails, Worker!MeshRegisterCheck, Worker!MeshHeartbeatGetProxy,
         Worker!DeleteProxy, Worker!InternalError, Worker!Evict
  <2>4. QED
    BY <2>2, <2>3 DEF Kept
<1>6. TimesOK(a)'
  <2>1. Wake(a)' = Wake(a)
    BY <1>1 DEF Wake
  <2>2. QED
    BY <1>1, <1>2, <2>1 DEF LapseInv, TimesOK, InLoop, InRound
<1>7. AskedOK(a)'
  <2>1. CASE Worker!Finish(a)
    <3>1. req'[a].op = "none" /\ req'[a].pc = "idle"
      BY <2>1, Finished
    <3>2. QED
      BY <3>1 DEF AskedOK
  <2>2. CASE Worker!MeshRegisterCheck(a) /\ ~Worker!Finish(a)
    <3>1. req[a].op = "meshRegister" /\ req[a].rec.expiresAt = expires[a]
      <4>1. req[a].pc = "getMesh"
        BY <2>2 DEF Worker!MeshRegisterCheck
      <4>2. req[a].op = "meshRegister" /\ req[a].rec = Signed(a)
        BY <4>1 DEF IInv, LocalInv, CallOK, Serves, Worker!Idle
      <4>3. QED
        BY <4>2 DEF Signed
    <3>2. now < expires[a] /\ now \in Nat /\ expires[a] \in Nat
      BY <3>1, SlotFacts, SignedRecord DEF LapseInv, AskedOK, IInv
    <3>3. /\ req'[a].op = req[a].op /\ req'[a].pc = "putMesh"
          /\ req'[a].ttl = Worker!TtlFromExpiresAt(expires[a])
      BY <1>1, <2>2, <3>1 DEF Worker!MeshRegisterCheck, Worker!Resume, Worker!Run
    <3>4. now + Worker!TtlFromExpiresAt(expires[a]) <= expires[a] + Grace
      BY <3>2, Given
    <3>5. QED
      BY <1>1, <3>2, <3>3, <3>4 DEF AskedOK
  <2>3. CASE Worker!MeshHeartbeatGetProxy(a) /\ ~Worker!Finish(a)
    <3>1. /\ req'[a].op = req[a].op /\ req'[a].pc = "putProxy" /\ req'[a].ttl = req[a].ttl
          /\ req[a].pc = "getProxy"
      BY <1>1, <2>3 DEF Worker!MeshHeartbeatGetProxy, Worker!Resume, Worker!Run
    <3>2. QED
      BY <1>1, <3>1 DEF LapseInv, AskedOK
  <2>4. CoordinatorFails(a) \/ Worker!DeleteProxy(a) => Worker!Finish(a)
    BY DEF CoordinatorFails, Worker!DeleteProxy, Worker!InternalError
  <2>5. QED
    BY <2>1, <2>2, <2>3, <2>4
<1>8. QED
  <2>1. Registered(a) => Registered(a)' /\ expires'[a] = expires[a]
    BY <1>1, <1>2 DEF Registered
  <2>2. QED
    BY <1>1, <1>4, <1>5, <1>6, <1>7, <2>1, KeptStep

\* Steps of the coordinator that put an entry.
LEMMA PutLapse ==
  ASSUME Limits, IInv, LapseInv, NEW a \in Attempt,
         Serve(a), Worker!PutMesh(a) \/ Worker!PutProxy(a)
  PROVE  LapseInv'
<1>1. /\ now' = now /\ expires' = expires /\ looping' = looping /\ beats' = beats
      /\ stage' = stage /\ req \in [Attempt -> Worker!Slot]
  BY DEF Serve, Worker!PutMesh, Worker!PutProxy, jobVars, IInv, TypeOK, Worker!TypeOK
<1>2. \A b \in Attempt \ {a} : req'[b] = req[b]
  BY <1>1 DEF Worker!PutMesh, Worker!PutProxy, Worker!Finish, Worker!Resume, Worker!Run
<1>3. \A b \in Attempt \ {a} : TimesOK(b)' /\ AskedOK(b)'
  BY <1>1, <1>2, OtherTimes DEF Others
<1>4. TimesOK(a)'
  <2>1. Wake(a)' = Wake(a)
    BY <1>1 DEF Wake
  <2>2. QED
    BY <1>1, <2>1 DEF LapseInv, TimesOK
<1>5. /\ req[a].pc \in {"putMesh", "putProxy"} /\ req[a].ttl \in Nat /\ now \in Nat
      /\ now + req[a].ttl <= expires[a] + Grace /\ now < expires[a]
      /\ Registered(a)
  <2>1. req[a].pc \in {"putMesh", "putProxy"}
    BY DEF Worker!PutMesh, Worker!PutProxy
  <2>2. req[a].op \notin {"none", "meshDeregister"} /\ Registered(a)
    BY <2>1 DEF IInv, LocalInv, CallOK, Serves, Worker!Idle, Registered
  <2>3. QED
    BY <2>1, <2>2, SlotFacts DEF LapseInv, AskedOK
<1>6. AskedOK(a)'
  <2>1. CASE Worker!PutMesh(a)
    <3>1. req'[a].ttl = req[a].ttl
      BY <1>1, <2>1 DEF Worker!PutMesh, Worker!Resume, Worker!Run
    <3>2. QED
      BY <1>1, <1>5, <3>1 DEF AskedOK
  <2>2. CASE Worker!PutProxy(a)
    <3>1. req'[a].op = "none" /\ req'[a].pc = "idle"
      BY <2>2, Finished DEF Worker!PutProxy
    <3>2. QED
      BY <3>1 DEF AskedOK
  <2>3. QED
    BY <2>1, <2>2
<1>7. \A b \in Attempt : Registered(b) => Registered(b)'
  BY <1>1 DEF Registered
<1>8. CASE Worker!PutMesh(a)
  <2>1. OfNode(a) /\ req[a].rec \in Worker!Record
    BY <1>8 DEF IInv, LocalInv, CallOK, CarriedOK, Serves, Worker!Idle, Worker!PutMesh
  <2>2. proxy' = proxy /\ mesh' = [mesh EXCEPT ![Key(a)] =
                                      Worker!Stored(req[a].rec, req[a].ttl)]
    BY <1>8, <2>1 DEF Worker!PutMesh, OfNode, Key
  <2>3. /\ Mine(a)' = [val |-> req[a].rec, expires |-> now + req[a].ttl]
        /\ \A k \in Worker!MeshKey : k # Key(a) => mesh'[k] = mesh[k]
    <3>1. Key(a) \in Worker!MeshKey /\ TypeOK
      BY NodeFacts DEF IInv
    <3>2. QED
      BY <1>5, <2>1, <2>2, <3>1, PutsMesh DEF Mine, Key
  <2>4. KeptOK(a)'
    <3>1. Mine(a).expires' = now + req[a].ttl
      BY <2>3
    <3>2. Derived(a)' = Derived(a)
      BY <2>2 DEF Derived
    <3>3. QED
      BY <1>1, <1>5, <1>7, <3>1, <3>2 DEF LapseInv, KeptOK
  <2>5. ASSUME NEW b \in Attempt \ {a} PROVE KeptOK(b)'
    <3>1. Mine(b)' = Mine(b) /\ Derived(b)' = Derived(b)
      BY <2>2, <2>3, NodeFacts, KeysDiffer DEF Mine, Derived, Key
    <3>2. QED
      BY <1>1, <1>7, <3>1 DEF LapseInv, KeptOK
  <2>6. RunKeptOK'
    BY <1>1, <1>7, <2>2 DEF LapseInv, RunKeptOK, Runs
  <2>7. QED
    BY <1>3, <1>4, <1>6, <2>4, <2>5, <2>6 DEF LapseInv
<1>9. CASE Worker!PutProxy(a)
  <2>1. /\ req[a].node \in {RunId, MeshId[a]} /\ req[a].node \in Node
        /\ req[a].cfg \in Worker!Config
    BY <1>9, NodeFacts DEF IInv, LocalInv, CallOK, CarriedOK, Serves, OfRun, OfNode,
                           Worker!Idle, Worker!PutProxy
  <2>2. mesh' = mesh /\ proxy' = [proxy EXCEPT ![req[a].node] =
                                     Worker!Stored(req[a].cfg, req[a].ttl)]
    BY <1>9 DEF Worker!PutProxy
  <2>3. /\ proxy'[req[a].node] = [val |-> req[a].cfg, expires |-> now + req[a].ttl]
        /\ \A n \in Node : n # req[a].node => proxy'[n] = proxy[n]
    <3>1. TypeOK
      BY DEF IInv
    <3>2. QED
      BY <1>5, <2>1, <2>2, <3>1, PutsProxy
  <2>4. ASSUME NEW b \in Attempt PROVE KeptOK(b)'
    <3>1. Mine(b)' = Mine(b)
      BY <2>2 DEF Mine
    <3>2. CASE MeshId[b] = req[a].node
      <4>1. b = a
        BY <2>1, <3>2, NodeFacts
      <4>2. Derived(a)' = [val |-> req[a].cfg, expires |-> now + req[a].ttl]
        BY <2>3, <3>2, <4>1 DEF Derived
      <4>3. Derived(a).expires' = now + req[a].ttl
        BY <4>2
      <4>4. QED
        BY <1>1, <1>5, <1>7, <3>1, <4>1, <4>3 DEF LapseInv, KeptOK
    <3>3. CASE MeshId[b] # req[a].node
      <4>1. Derived(b)' = Derived(b)
        BY <2>3, <3>3, NodeFacts DEF Derived
      <4>2. QED
        BY <1>1, <1>7, <3>1, <4>1 DEF LapseInv, KeptOK
    <3>4. QED
      BY <3>2, <3>3
  <2>5. RunKeptOK'
    <3>1. CASE req[a].node = RunId
      <4>1. Runs' = [val |-> req[a].cfg, expires |-> now + req[a].ttl]
        BY <2>3, <3>1 DEF Runs
      <4>2. Runs.expires' = now + req[a].ttl
        BY <4>1
      <4>3. QED
        BY <1>1, <1>5, <1>7, <4>2 DEF RunKeptOK
    <3>2. CASE req[a].node # RunId
      <4>1. Runs' = Runs
        BY <2>3, <3>2, NodeFacts DEF Runs
      <4>2. QED
        BY <1>1, <1>7, <4>1 DEF LapseInv, RunKeptOK
    <3>3. QED
      BY <3>1, <3>2
  <2>6. QED
    BY <1>3, <1>4, <1>6, <2>4, <2>5 DEF LapseInv
<1>10. QED
  BY <1>8, <1>9

\* Time goes on, the store is emptied, or nothing happens.
LEMMA IdleLapse ==
  ASSUME Limits, IInv, LapseInv, StoreIsEmptied \/ Tick \/ UNCHANGED vars PROVE LapseInv'
<1>1. /\ req' = req /\ stage' = stage /\ expires' = expires /\ looping' = looping
      /\ beats' = beats
  BY DEF StoreIsEmptied, Tick, Worker!Tick, vars, storeVars, jobVars
<1>2. /\ \A a \in Attempt :
             Mine(a)' \in {Mine(a), None} /\ Derived(a)' \in {Derived(a), None}
      /\ Runs' \in {Runs, None}
  <2>1. mesh \in [Worker!MeshKey -> Worker!Entry(Worker!Record) \cup {None}]
        /\ proxy \in [Node -> Worker!Entry(Worker!Config) \cup {None}]
    BY DEF IInv, TypeOK, Worker!TypeOK
  <2>2. QED
    BY <2>1, NodeFacts DEF StoreIsEmptied, Tick, Worker!Tick, vars, storeVars, Mine, Derived,
                           Runs, Key
<1>3. RunKeptOK' /\ \A a \in Attempt : KeptOK(a)'
  BY <1>1, <1>2 DEF LapseInv, RunKeptOK, KeptOK, Registered
<1>4. ASSUME NEW a \in Attempt PROVE TimesOK(a)' /\ AskedOK(a)'
  <2>1. Wake(a)' = Wake(a) /\ Wake(a) \in Int
    BY <1>1, Waking DEF Wake
  <2>2. CASE now' = now
    BY <1>1, <2>1, <2>2 DEF LapseInv, TimesOK, AskedOK
  <2>3. CASE Tick
    <3>1. /\ req[a] = Worker!Idle /\ now' = now + 1 /\ now \in Nat
          /\ stage[a] \in {"off", "ended", "setup"} \/ (stage[a] = "loop" /\ now < Wake(a))
      BY <2>3 DEF Tick, Worker!Tick, Active, IInv, TypeOK, Worker!TypeOK
    <3>2. req[a].op = "none" /\ req[a].pc = "idle"
      BY <3>1, Called
    <3>3. AskedOK(a)'
      BY <1>1, <3>2 DEF AskedOK
    <3>4. TimesOK(a)'
      BY <1>1, <2>1, <3>1 DEF LapseInv, TimesOK, InLoop, InRound
    <3>5. QED
      BY <3>3, <3>4
  <2>4. QED
    BY <2>2, <2>3 DEF StoreIsEmptied, vars
<1>5. QED
  BY <1>3, <1>4 DEF LapseInv

LEMMA LapseInvariant == ASSUME Limits PROVE Spec => [](IInv /\ LapseInv)
<1>1. Init => LapseInv
  <2>1. SUFFICES ASSUME Init PROVE LapseInv
    OBVIOUS
  <2>2. /\ \A a \in Attempt : stage[a] = "off" /\ req[a] = Worker!Idle
        /\ Worker!Idle.op = "none" /\ Worker!Idle.pc = "idle"
    BY <2>1 DEF Init, Worker!Init, Worker!Idle
  <2>3. /\ \A a \in Attempt : Mine(a) = None /\ Derived(a) = None
        /\ Runs = None
    BY <2>1, NodeFacts DEF Init, Worker!Init, Mine, Derived, Runs
  <2>4. QED
    BY <2>2, <2>3 DEF LapseInv, RunKeptOK, TimesOK, AskedOK, KeptOK, InLoop, InRound
<1>2. IInv /\ LapseInv /\ [Next]_vars => LapseInv'
  <2>1. ASSUME IInv, LapseInv, NEW a \in Attempt, Job(a) PROVE LapseInv'
    BY <2>1, QuietLapse, AskLapse DEF Job
  <2>2. ASSUME IInv, LapseInv, NEW a \in Attempt, Failure(a) PROVE LapseInv'
    BY <2>2, QuietLapse, ServeLapse DEF Failure
  <2>3. ASSUME IInv, LapseInv, NEW a \in Attempt, Serve(a) PROVE LapseInv'
    BY <2>3, ServeLapse, PutLapse DEF Serve
  <2>4. QED
    BY <2>1, <2>2, <2>3, IdleLapse DEF Next
<1>3. IInv /\ [Next]_vars => IInv'
  BY NextIInv
<1>4. QED
  BY <1>1, <1>2, <1>3, InitIInv, PTL DEF Spec

\* Nothing that a run has registered is served for longer than the grace period
\* after its EXPIRES_AT, however its job has ended and whatever was registered again:
\* for every life that the loop does not outlast.
THEOREM Lapse == ASSUME Limits PROVE Spec => []EntriesLapse
<1>1. IInv /\ LapseInv => EntriesLapse
  <2>1. SUFFICES ASSUME IInv, LapseInv PROVE EntriesLapse
    OBVIOUS
  <2>2. /\ now \in Nat /\ \A a \in Attempt : expires[a] \in Nat
        /\ mesh \in [Worker!MeshKey -> Worker!Entry(Worker!Record) \cup {None}]
        /\ proxy \in [Node -> Worker!Entry(Worker!Config) \cup {None}]
    BY <2>1 DEF IInv, TypeOK, Worker!TypeOK
  <2>3. ASSUME NEW a \in Attempt, Worker!Live(Mine(a)) \/ Worker!Live(Derived(a))
        PROVE  now <= expires[a] + Grace
    <3>1. /\ Mine(a) # None => Mine(a).expires \in Nat
          /\ Derived(a) # None => Derived(a).expires \in Nat
      BY <2>2, NodeFacts DEF Mine, Derived, Worker!Entry
    <3>2. QED
      BY <2>1, <2>2, <2>3, <3>1 DEF LapseInv, KeptOK, Worker!Live
  <2>4. ASSUME Worker!Live(Runs) PROVE \E a \in Attempt : now <= expires[a] + Grace
    <3>1. Runs.expires \in Nat
      BY <2>2, <2>4, NodeFacts DEF Runs, Worker!Live, Worker!Entry
    <3>2. PICK a \in Attempt : Runs.expires <= expires[a] + Grace
      BY <2>1, <2>4 DEF LapseInv, RunKeptOK, Worker!Live
    <3>3. now <= expires[a] + Grace
      BY <2>2, <2>4, <3>1, <3>2 DEF Worker!Live
    <3>4. QED
      BY <3>3
  <2>5. QED
    BY <2>3, <2>4, KeysDiffer DEF EntriesLapse, Mine, Derived, Runs
<1>2. QED
  BY <1>1, LapseInvariant, PTL

-----------------------------------------------------------------------------
(* The job and the coordinator.                                            *)

\* The coordinator, when its clients wait for the answer to one request about a node
\* before they send the next.
Serial == INSTANCE Coordinator WITH
    Req <- Attempt, EnvNet <- None, ExpTimes <- 0..(MaxNow + Life),
    HeartbeatExps <- 0..(MaxNow + Life), HbTimes <- 0..MaxNow,
    SerialClients <- TRUE, PromptHandlers <- TRUE, StoreMayFail <- TRUE,
    Ops <- {"register", "heartbeat", "meshRegister", "meshHeartbeat", "meshDeregister"}

\* Only arrivals tell the two apart.
LEMMA SameTypes ==
  /\ Worker!MeshKey = Serial!MeshKey /\ Worker!Record = Serial!Record
  /\ Worker!Idle = Serial!Idle /\ Worker!vars = Serial!vars
BY DEF Worker!MeshKey, Serial!MeshKey, Worker!Record, Serial!Record, Worker!Idle, Serial!Idle,
       Worker!vars, Serial!vars

LEMMA SameContinue ==
  ASSUME NEW a \in Attempt, Worker!Continue(a) PROVE Serial!Continue(a)
<1> USE SameTypes
<1>1. CASE Worker!MeshRegisterCheck(a)
  <2>1. Serial!MeshRegisterCheck(a)
    BY <1>1 DEF Worker!MeshRegisterCheck, Serial!MeshRegisterCheck, Worker!Evict,
       Serial!Evict, Worker!StaleHeartbeat, Serial!StaleHeartbeat, Worker!Live, Serial!Live,
       Worker!Finish, Serial!Finish, Worker!Resume, Serial!Resume, Worker!Run, Serial!Run,
       Worker!TtlFromExpiresAt, Serial!TtlFromExpiresAt, Worker!Greater, Serial!Greater,
       Worker!Lesser, Serial!Lesser, Worker!Remaining, Serial!Remaining
  <2>2. QED
    BY <2>1 DEF Serial!Continue
<1>2. CASE Worker!MeshHeartbeatVerified(a)
  <2>1. Serial!MeshHeartbeatVerified(a)
    BY <1>2 DEF Worker!MeshHeartbeatVerified, Serial!MeshHeartbeatVerified,
       Worker!Resume, Serial!Resume, Worker!Run, Serial!Run,
       Worker!TtlFromExpiresAt, Serial!TtlFromExpiresAt, Worker!Greater, Serial!Greater,
       Worker!Lesser, Serial!Lesser, Worker!Remaining, Serial!Remaining
  <2>2. QED
    BY <2>1 DEF Serial!Continue
<1>3. CASE Worker!MeshHeartbeatGetProxy(a)
  <2>1. Serial!MeshHeartbeatGetProxy(a)
    BY <1>3 DEF Worker!MeshHeartbeatGetProxy, Serial!MeshHeartbeatGetProxy, Worker!Evict,
       Serial!Evict, Worker!Live, Serial!Live, Worker!Finish, Serial!Finish, Worker!Resume,
       Serial!Resume, Worker!Run, Serial!Run
  <2>2. QED
    BY <2>1 DEF Serial!Continue
<1>4. CASE Worker!PutMesh(a)
  <2>1. Serial!PutMesh(a)
    BY <1>4 DEF Worker!PutMesh, Serial!PutMesh, Worker!Stored, Serial!Stored,
       Worker!Refreshes, Serial!Refreshes, Worker!DeriveProxyConfig, Serial!DeriveProxyConfig,
       Worker!Resume, Serial!Resume, Worker!Run, Serial!Run, Worker!Supersede,
       Serial!Supersede, Worker!Registering, Serial!Registering, Worker!KeysOf, Serial!KeysOf
  <2>2. QED
    BY <2>1 DEF Serial!Continue
<1>5. CASE Worker!PutProxy(a)
  <2>1. Serial!PutProxy(a)
    BY <1>5 DEF Worker!PutProxy, Serial!PutProxy, Worker!Stored, Serial!Stored,
       Worker!Finish, Serial!Finish, Worker!Supersede, Serial!Supersede, Worker!Registering,
       Serial!Registering, Worker!KeysOf, Serial!KeysOf
  <2>2. QED
    BY <2>1 DEF Serial!Continue
<1>6. CASE Worker!DeleteProxy(a)
  <2>1. Serial!DeleteProxy(a)
    BY <1>6 DEF Worker!DeleteProxy, Serial!DeleteProxy, Worker!Finish, Serial!Finish
  <2>2. QED
    BY <2>1 DEF Serial!Continue
<1>7. CASE Worker!InternalError(a)
  <2>1. Serial!InternalError(a)
    BY <1>7 DEF Worker!InternalError, Serial!InternalError, Worker!Finish, Serial!Finish
  <2>2. QED
    BY <2>1 DEF Serial!Continue
<1>8. QED
  BY <1>1, <1>2, <1>3, <1>4, <1>5, <1>6, <1>7 DEF Worker!Continue

\* A job that calls has nothing else being served, and nor have the others.
LEMMA QuietCall ==
  ASSUME IInv, NEW a \in Attempt, Active(a), req[a] = Worker!Idle, NEW n \in Node
  PROVE  Serial!Quiet(n)
<1>1. \A b \in Attempt : req[b] = Worker!Idle
  BY OthersRest DEF Busy
<1>2. \A b \in Attempt : req[b].node = None
  BY <1>1 DEF Worker!Idle
<1>3. QED
  BY <1>2 DEF Serial!Quiet

LEMMA SerialArrival ==
  ASSUME IInv, NEW a \in Attempt,
         \/ RegisterProxy(a) \/ RegisterMesh(a) \/ Heartbeat(a) \/ Reregister(a)
         \/ MeshHeartbeat(a) \/ MeshReregister(a) \/ MeshDeregister(a)
  PROVE  Serial!Arrive(a)
<1> USE SameTypes
<1>1. /\ RunId \in Node /\ MeshId[a] \in Node /\ Signed(a) \in Serial!Record
      /\ Signed(a).networkId \in Net /\ Signed(a).nodeId = MeshId[a]
      /\ expires[a] \in 0..(MaxNow + Life)
  BY NodeFacts, KeysDiffer, SignedRecord DEF IInv, TypeOK
<1>2. Active(a) /\ req[a] = Worker!Idle
  BY DEF RegisterProxy, RegisterMesh, Heartbeat, Reregister, MeshHeartbeat, MeshReregister,
         MeshDeregister, Worker!Register, Worker!MeshRegister, Worker!Heartbeat,
         Worker!MeshHeartbeat, Worker!MeshDeregister, Worker!MayStart, Active
<1>3. /\ \A op : Worker!MayStart(a, op, RunId) => Serial!MayStart(a, op, RunId)
      /\ \A op : Worker!MayStart(a, op, MeshId[a]) => Serial!MayStart(a, op, MeshId[a])
  <2>1. Serial!Quiet(RunId) /\ Serial!Quiet(MeshId[a])
    BY <1>1, <1>2, QuietCall
  <2>2. QED
    BY <2>1 DEF Worker!MayStart, Serial!MayStart
<1>4. CASE RegisterProxy(a) \/ Reregister(a)
  <2>1. Serial!Register(a, RunId, expires[a])
    BY <1>3, <1>4 DEF RegisterProxy, Reregister, Worker!Register, Serial!Register,
       Worker!Run, Serial!Run, Worker!RegisterTtl, Serial!RegisterTtl, Worker!Lesser,
       Serial!Lesser, Worker!Remaining, Serial!Remaining
  <2>2. QED
    BY <1>1, <2>1 DEF Serial!Arrive
<1>5. CASE RegisterMesh(a) \/ MeshReregister(a)
  <2>1. Serial!MeshRegister(a, Signed(a))
    BY <1>1, <1>3, <1>5 DEF RegisterMesh, MeshReregister, Worker!MeshRegister,
       Serial!MeshRegister, Worker!Run, Serial!Run, Worker!VerifyPublicRecord,
       Serial!VerifyPublicRecord
  <2>2. QED
    BY <1>1, <2>1 DEF Serial!Arrive
<1>6. CASE Heartbeat(a)
  <2>1. Serial!Heartbeat(a, RunId, expires[a])
    BY <1>3, <1>6 DEF Heartbeat, HeartbeatExpiry, Worker!Heartbeat, Serial!Heartbeat,
       Worker!Evict, Serial!Evict, Worker!Live, Serial!Live, Worker!Run, Serial!Run,
       Worker!HeartbeatTtl, Serial!HeartbeatTtl
  <2>2. QED
    BY <1>1, <2>1 DEF Serial!Arrive
<1>7. CASE MeshHeartbeat(a)
  <2>1. Serial!MeshHeartbeat(a, Signed(a).networkId, MeshId[a], expires[a])
    BY <1>3, <1>7 DEF MeshHeartbeat, Worker!MeshHeartbeat, Serial!MeshHeartbeat,
       Worker!ResolveNet, Serial!ResolveNet, Worker!Evict, Serial!Evict, Worker!Live,
       Serial!Live, Worker!Run, Serial!Run, Worker!TtlFromExpiresAt,
       Serial!TtlFromExpiresAt, Worker!Greater, Serial!Greater, Worker!Lesser,
       Serial!Lesser, Worker!Remaining, Serial!Remaining
  <2>2. QED
    BY <1>1, <2>1 DEF Serial!Arrive
<1>8. CASE MeshDeregister(a)
  <2>1. Serial!MeshDeregister(a, Signed(a).networkId, MeshId[a])
    BY <1>3, <1>8 DEF MeshDeregister, Worker!MeshDeregister, Serial!MeshDeregister,
       Worker!ResolveNet, Serial!ResolveNet, Worker!Run, Serial!Run
  <2>2. QED
    BY <1>1, <2>1 DEF Serial!Arrive
<1>9. QED
  BY <1>4, <1>5, <1>6, <1>7, <1>8

\* Whatever the attempts of a run do is to the coordinator a request of a client that
\* waits for the answer to one about a node before it sends the next, a step of
\* a handler, or nothing: the assumption of the theorems about serial clients.  Only
\* the loss of the store is none of its steps.
THEOREM SerialClient == Spec => [][Serial!Next \/ StoreIsEmptied]_(Serial!vars)
<1>1. ASSUME IInv, [Next]_vars PROVE [Serial!Next \/ StoreIsEmptied]_(Serial!vars)
  <2>1. ASSUME UNCHANGED <<now, storeVars>> PROVE UNCHANGED Serial!vars
    BY <2>1 DEF storeVars, Serial!vars
  <2>2. ASSUME NEW a \in Attempt, Job(a) PROVE UNCHANGED Serial!vars \/ Serial!Arrive(a)
    <3>1. CASE \/ StartJob(a) \/ CalculateExpiry(a) \/ EnterLoop(a) \/ EndRound(a)
               \/ LeaveLoop(a) \/ Finish(a) \/ Cancel(a)
      BY <2>1, <3>1 DEF StartJob, CalculateExpiry, EnterLoop, EndRound, LeaveLoop, Finish,
                        Cancel
    <3>2. QED
      BY <1>1, <2>2, <3>1, SerialArrival DEF Job
  <2>3. ASSUME NEW a \in Attempt, Serve(a) PROVE Serial!Continue(a)
    BY <2>3, SameContinue DEF Serve, Worker!Continue
  <2>4. ASSUME NEW a \in Attempt, Failure(a)
        PROVE  UNCHANGED Serial!vars \/ Serial!Continue(a)
    BY <2>1, <2>4, SameContinue DEF Failure, CallFails, AnswerLost, MeshRegistrationFails,
                      CoordinatorFails, Worker!Continue
  <2>5. Tick => Serial!Tick
    BY SameTypes DEF Tick, Worker!Tick, Serial!Tick
  <2>6. UNCHANGED vars => UNCHANGED Serial!vars
    BY <2>1 DEF vars
  <2>7. QED
    BY <1>1, <2>2, <2>3, <2>4, <2>5, <2>6 DEF Next, Serial!Next
<1>2. QED
  BY <1>1, Invariant, PTL DEF Spec
=============================================================================
