-------------------------- MODULE CiPipelineProofs --------------------------
(***************************************************************************)
(* Proofs about CiPipeline: its type invariant, and, for pipelines that    *)
(* run one at a time, that the verdict of a run is right about what its    *)
(* own tools have reported.                                                *)
(***************************************************************************)
EXTENDS CiPipeline, TLAPS

Values == Nat \cup BOOLEAN \cup {"ready", "failed"}
Readings == [tool : {"bootstrap", "sim", "ghost", "keyspace", "tunnel"},
             key : Keys, value : Values]
Events == [tool : {"bootstrap", "sim", "ghost", "keyspace", "tunnel"},
           key : Keys, value : Values, timestamp : Nat, logical_time : Nat]

-----------------------------------------------------------------------------
(* Sequences, by the elements they have.                                   *)

Has(s, x) == \E i \in DOMAIN s : s[i] = x

LEMMA HasConcat ==
    ASSUME NEW S, NEW s \in Seq(S), NEW t \in Seq(S)
    PROVE  /\ s \o t \in Seq(S)
           /\ \A x : Has(s \o t, x) <=> Has(s, x) \/ Has(t, x)
<1>1. s \o t \in Seq(S) /\ Len(s \o t) = Len(s) + Len(t)
  OBVIOUS
<1>2. ASSUME NEW x, Has(s \o t, x)  PROVE Has(s, x) \/ Has(t, x)
  <2>1. PICK i \in DOMAIN (s \o t) : (s \o t)[i] = x
    BY <1>2 DEF Has
  <2>2. CASE i <= Len(s)
    BY <2>1, <2>2, <1>1 DEF Has
  <2>3. CASE i > Len(s)
    <3>1. i - Len(s) \in DOMAIN t /\ (s \o t)[i] = t[i - Len(s)]
      BY <2>3, <1>1
    <3>2. QED  BY <3>1, <2>1 DEF Has
  <2>4. QED  BY <2>2, <2>3, <1>1
<1>3. ASSUME NEW x, Has(s, x)  PROVE Has(s \o t, x)
  <2>1. PICK i \in DOMAIN s : s[i] = x
    BY <1>3 DEF Has
  <2>2. i \in DOMAIN (s \o t) /\ (s \o t)[i] = s[i]
    BY <1>1
  <2>3. QED  BY <2>1, <2>2 DEF Has
<1>4. ASSUME NEW x, Has(t, x)  PROVE Has(s \o t, x)
  <2>1. PICK i \in DOMAIN t : t[i] = x
    BY <1>4 DEF Has
  <2>2. i + Len(s) \in DOMAIN (s \o t) /\ (s \o t)[i + Len(s)] = t[i]
    BY <1>1
  <2>3. QED  BY <2>1, <2>2 DEF Has
<1>5. QED  BY <1>1, <1>2, <1>3, <1>4

LEMMA HasHeadTail ==
    ASSUME NEW S, NEW s \in Seq(S), s # <<>>
    PROVE  /\ Head(s) \in S /\ Tail(s) \in Seq(S)
           /\ \A x : Has(s, x) <=> x = Head(s) \/ Has(Tail(s), x)
<1>1. /\ Head(s) \in S /\ Tail(s) \in Seq(S)
      /\ Head(s) = s[1] /\ 1 \in DOMAIN s /\ Len(s) \in Nat
      /\ Len(Tail(s)) = Len(s) - 1
      /\ \A i \in DOMAIN Tail(s) : i + 1 \in DOMAIN s /\ Tail(s)[i] = s[i + 1]
  OBVIOUS
<1>2. ASSUME NEW x, Has(s, x)  PROVE x = Head(s) \/ Has(Tail(s), x)
  <2>1. PICK i \in DOMAIN s : s[i] = x
    BY <1>2 DEF Has
  <2>2. CASE i = 1
    BY <2>1, <2>2, <1>1
  <2>3. CASE i # 1
    <3>1. i - 1 \in DOMAIN Tail(s) /\ Tail(s)[i - 1] = s[i]
      BY <2>3, <1>1
    <3>2. QED  BY <3>1, <2>1 DEF Has
  <2>4. QED  BY <2>2, <2>3
<1>3. ASSUME NEW x, x = Head(s) \/ Has(Tail(s), x)  PROVE Has(s, x)
  BY <1>1, <1>3 DEF Has
<1>4. QED  BY <1>1, <1>2, <1>3

LEMMA HasSome ==
    /\ \A x : ~Has(<<>>, x)
    /\ \A a, x : Has(<<a>>, x) <=> x = a
    /\ \A a, b, x : Has(<<a, b>>, x) <=> x = a \/ x = b
<1>1. \A x : ~Has(<<>>, x)
  BY DEF Has
<1>2. \A a, x : Has(<<a>>, x) <=> x = a
  BY DEF Has
<1>3. \A a, b, x : Has(<<a, b>>, x) <=> x = a \/ x = b
  <2> TAKE a, b, x
  <2>1. DOMAIN <<a, b>> = {1, 2} /\ <<a, b>>[1] = a /\ <<a, b>>[2] = b
    OBVIOUS
  <2>2. QED  BY <2>1 DEF Has
<1>4. QED  BY <1>1, <1>2, <1>3

-----------------------------------------------------------------------------
(* What the adapters emit for the results of a run.                        *)

\* The readings of a run, whatever their order.
Says(res, x) ==
    \/ /\ res.bootstrap # None
       /\ \/ x = Reading("bootstrap", "dht.peer.count.bootstrap", res.bootstrap.reachable)
          \/ /\ res.bootstrap.exit_code = 3
             /\ x = Reading("bootstrap", "dht.state.clean", TRUE)
    \/ /\ res.sim # None
       /\ \/ x = Reading("sim", "dht.peer.count.sim", res.sim.mean)
          \/ x = Reading("sim", "dht.announced", res.sim.exit_code = 0)
          \/ ~res.sim.empty /\ x = Reading("sim", "dht.peer.count", res.sim.node_count)
    \/ res.ghost # None /\ x = Reading("ghost", "ghost.count", res.ghost.ghost)
    \/ /\ res.keyspace # None
       /\ x = Reading("keyspace", "keyspace.orphan.keys", res.keyspace.orphan_keys)
    \/ res.tunnel # None /\ x = Reading("tunnel", "tunnel.status", res.tunnel.status)

LEMMA SaidReadings ==
    ASSUME NEW res \in ToolResults, NEW x, Says(res, x)
    PROVE  x \in Readings /\ IsReading(x)
<1> USE DEF ToolResults, Reading, Readings, IsReading, Keys, Values
<1>1. CASE /\ res.bootstrap # None
           /\ x = Reading("bootstrap", "dht.peer.count.bootstrap", res.bootstrap.reachable)
  BY <1>1
<1>2. CASE x = Reading("bootstrap", "dht.state.clean", TRUE)
  BY <1>2
<1>3. CASE res.sim # None /\ x = Reading("sim", "dht.peer.count.sim", res.sim.mean)
  BY <1>3
<1>4. CASE x = Reading("sim", "dht.announced", res.sim.exit_code = 0)
  <2>1. (res.sim.exit_code = 0) \in BOOLEAN
    OBVIOUS
  <2>2. QED  BY <1>4, <2>1
<1>5. CASE res.sim # None /\ x = Reading("sim", "dht.peer.count", res.sim.node_count)
  BY <1>5
<1>6. CASE res.ghost # None /\ x = Reading("ghost", "ghost.count", res.ghost.ghost)
  BY <1>6
<1>7. CASE /\ res.keyspace # None
           /\ x = Reading("keyspace", "keyspace.orphan.keys", res.keyspace.orphan_keys)
  BY <1>7
<1>8. CASE res.tunnel # None /\ x = Reading("tunnel", "tunnel.status", res.tunnel.status)
  BY <1>8
<1>9. QED  BY <1>1, <1>2, <1>3, <1>4, <1>5, <1>6, <1>7, <1>8, Zenon DEF Says

\* No key is reported twice in a run.
LEMMA SaidOnce ==
    ASSUME NEW res, NEW x, NEW y, Says(res, x), Says(res, y), x.key = y.key
    PROVE  x = y
<1> DEFINE Of(key) ==
      IF key = "dht.peer.count.bootstrap"
      THEN Reading("bootstrap", key, res.bootstrap.reachable)
      ELSE IF key = "dht.state.clean" THEN Reading("bootstrap", key, TRUE)
      ELSE IF key = "dht.peer.count.sim" THEN Reading("sim", key, res.sim.mean)
      ELSE IF key = "dht.announced" THEN Reading("sim", key, res.sim.exit_code = 0)
      ELSE IF key = "dht.peer.count" THEN Reading("sim", key, res.sim.node_count)
      ELSE IF key = "ghost.count" THEN Reading("ghost", key, res.ghost.ghost)
      ELSE IF key = "keyspace.orphan.keys"
      THEN Reading("keyspace", key, res.keyspace.orphan_keys)
      ELSE Reading("tunnel", key, res.tunnel.status)
<1>1. ASSUME NEW z, Says(res, z)  PROVE z = Of(z.key)
  BY <1>1 DEF Says, Reading
<1>2. QED  BY <1>1

LEMMA Ingested ==
    ASSUME NEW res \in ToolResults
    PROVE  /\ IngestResults(res) \in Seq(Readings)
           /\ \A x : Has(IngestResults(res), x) <=> Says(res, x)
<1> DEFINE B == IF res.bootstrap = None THEN <<>> ELSE NormalizeBootstrap(res.bootstrap)
           S == IF res.sim = None THEN <<>> ELSE NormalizeSim(res.sim)
           G == IF res.ghost = None THEN <<>> ELSE NormalizeGhost(res.ghost)
           K == IF res.keyspace = None THEN <<>> ELSE NormalizeKeyspace(res.keyspace)
           T == IF res.tunnel = None THEN <<>> ELSE NormalizeTunnel(res.tunnel)
<1>1. /\ B \in Seq(Readings)
      /\ \A x : Has(B, x) <=>
            /\ res.bootstrap # None
            /\ \/ x = Reading("bootstrap", "dht.peer.count.bootstrap", res.bootstrap.reachable)
               \/ /\ res.bootstrap.exit_code = 3
                  /\ x = Reading("bootstrap", "dht.state.clean", TRUE)
  <2>1. CASE res.bootstrap = None
    BY <2>1, HasSome
  <2>2. CASE res.bootstrap # None
    <3> DEFINE a == Reading("bootstrap", "dht.peer.count.bootstrap", res.bootstrap.reachable)
               b == Reading("bootstrap", "dht.state.clean", TRUE)
               rest == IF res.bootstrap.exit_code = 3 THEN <<b>> ELSE <<>>
    <3>1. a \in Readings /\ b \in Readings
      BY <2>2 DEF ToolResults, Reading, Readings, Keys, Values
    <3>2. B = <<a>> \o rest
      BY <2>2, Zenon DEF NormalizeBootstrap
    <3> HIDE DEF a, b
    <3>3. <<a>> \in Seq(Readings) /\ rest \in Seq(Readings)
      BY <3>1
    <3>4. \A x : Has(rest, x) <=> res.bootstrap.exit_code = 3 /\ x = b
      BY HasSome
    <3> HIDE DEF rest, B
    <3>5. B \in Seq(Readings) /\ \A x : Has(B, x) <=> Has(<<a>>, x) \/ Has(rest, x)
      BY <3>2, <3>3, HasConcat
    <3>6. \A x : Has(B, x) <=> x = a \/ (res.bootstrap.exit_code = 3 /\ x = b)
      BY <3>4, <3>5, HasSome
    <3>7. QED  BY <3>5, <3>6, <2>2 DEF a, b
  <2>3. QED  BY <2>1, <2>2
<1>2. /\ S \in Seq(Readings)
      /\ \A x : Has(S, x) <=>
            /\ res.sim # None
            /\ \/ x = Reading("sim", "dht.peer.count.sim", res.sim.mean)
               \/ x = Reading("sim", "dht.announced", res.sim.exit_code = 0)
               \/ ~res.sim.empty /\ x = Reading("sim", "dht.peer.count", res.sim.node_count)
  <2>1. CASE res.sim = None
    BY <2>1, HasSome
  <2>2. CASE res.sim # None
    <3> DEFINE a == Reading("sim", "dht.peer.count.sim", res.sim.mean)
               b == Reading("sim", "dht.announced", res.sim.exit_code = 0)
               c == Reading("sim", "dht.peer.count", res.sim.node_count)
               rest == IF res.sim.empty THEN <<>> ELSE <<c>>
    <3>1. a \in Readings /\ b \in Readings /\ c \in Readings
      BY <2>2 DEF ToolResults, Reading, Readings, Keys, Values
    <3>2. S = <<a, b>> \o rest
      BY <2>2, Zenon DEF NormalizeSim
    <3> HIDE DEF a, b, c
    <3>3. <<a, b>> \in Seq(Readings) /\ rest \in Seq(Readings)
      BY <3>1
    <3>4. \A x : Has(rest, x) <=> ~res.sim.empty /\ x = c
      BY HasSome
    <3> HIDE DEF rest, S
    <3>5. S \in Seq(Readings) /\ \A x : Has(S, x) <=> Has(<<a, b>>, x) \/ Has(rest, x)
      BY <3>2, <3>3, HasConcat
    <3>6. \A x : Has(S, x) <=> x = a \/ x = b \/ (~res.sim.empty /\ x = c)
      BY <3>4, <3>5, HasSome
    <3>7. QED  BY <3>5, <3>6, <2>2 DEF a, b, c
  <2>3. QED  BY <2>1, <2>2
<1>3. /\ G \in Seq(Readings)
      /\ \A x : Has(G, x) <=>
            res.ghost # None /\ x = Reading("ghost", "ghost.count", res.ghost.ghost)
  <2>1. res.ghost # None => Reading("ghost", "ghost.count", res.ghost.ghost) \in Readings
    BY DEF ToolResults, Reading, Readings, Keys, Values
  <2>2. QED  BY <2>1, HasSome DEF NormalizeGhost
<1>4. /\ K \in Seq(Readings)
      /\ \A x : Has(K, x) <=>
            /\ res.keyspace # None
            /\ x = Reading("keyspace", "keyspace.orphan.keys", res.keyspace.orphan_keys)
  <2>1. res.keyspace # None =>
            Reading("keyspace", "keyspace.orphan.keys", res.keyspace.orphan_keys) \in Readings
    BY DEF ToolResults, Reading, Readings, Keys, Values
  <2>2. QED  BY <2>1, HasSome DEF NormalizeKeyspace
<1>5. /\ T \in Seq(Readings)
      /\ \A x : Has(T, x) <=>
            res.tunnel # None /\ x = Reading("tunnel", "tunnel.status", res.tunnel.status)
  <2>1. res.tunnel # None => Reading("tunnel", "tunnel.status", res.tunnel.status) \in Readings
    BY DEF ToolResults, Reading, Readings, Keys, Values
  <2>2. QED  BY <2>1, HasSome DEF NormalizeTunnel
<1> DEFINE BS == B \o S
           BSG == BS \o G
           BSGK == BSG \o K
           BSGKT == BSGK \o T
<1>6. IngestResults(res) = BSGKT
  BY DEF IngestResults
<1> HIDE DEF B, S, G, K, T
<1>7. BS \in Seq(Readings) /\ \A x : Has(BS, x) <=> Has(B, x) \/ Has(S, x)
  BY <1>1, <1>2, HasConcat
<1> HIDE DEF BS
<1>8. BSG \in Seq(Readings) /\ \A x : Has(BSG, x) <=> Has(BS, x) \/ Has(G, x)
  BY <1>7, <1>3, HasConcat
<1> HIDE DEF BSG
<1>9. BSGK \in Seq(Readings) /\ \A x : Has(BSGK, x) <=> Has(BSG, x) \/ Has(K, x)
  BY <1>8, <1>4, HasConcat
<1> HIDE DEF BSGK
<1>10. BSGKT \in Seq(Readings) /\ \A x : Has(BSGKT, x) <=> Has(BSGK, x) \/ Has(T, x)
  BY <1>9, <1>5, HasConcat
<1> HIDE DEF BSGKT
<1>11. \A x : Has(IngestResults(res), x) <=>
          Has(B, x) \/ Has(S, x) \/ Has(G, x) \/ Has(K, x) \/ Has(T, x)
  BY <1>6, <1>7, <1>8, <1>9, <1>10
<1>12. ASSUME NEW x  PROVE Has(IngestResults(res), x) <=> Says(res, x)
  BY <1>1, <1>2, <1>3, <1>4, <1>5, <1>11 DEF Says
<1>13. QED  BY <1>6, <1>10, <1>12

-----------------------------------------------------------------------------
(* Type correctness.                                                       *)

TypeInv ==
    /\ now \in 0..MaxTime
    /\ file \in Seq(Events)
    /\ \A i \in DOMAIN file : /\ IsReading(file[i])
                              /\ file[i].timestamp <= now
                              /\ file[i].logical_time \in 1..Len(file)
    /\ stage \in [Run -> {"off", "ingest", "done", "dead"}]
    /\ clock \in [Run -> Nat] /\ \A r \in Run : clock[r] <= Len(file)
    /\ results \in [Run -> ToolResults]
    /\ pending \in [Run -> Seq(Readings)]
    /\ \A r \in Run : \A x : Has(pending[r], x) => IsReading(x)
    /\ begun \in [Run -> Nat] /\ \A r \in Run : begun[r] <= now
    /\ exitCode \in [Run -> (0..3) \cup {None}]
    /\ \A r \in Run : exitCode[r] # None <=> stage[r] = "done"

LEMMA EventTypes ==
    ASSUME TypeInv
    PROVE  \A i \in DOMAIN file : /\ file[i].timestamp \in Nat
                                  /\ file[i].logical_time \in Nat
<1>1. file \in Seq(Events)
  BY DEF TypeInv
<1>2. \A i \in DOMAIN file : file[i] \in Events
  BY <1>1
<1>3. QED  BY <1>2 DEF Events

LEMMA TypeInvIsTypeOK ==
    TypeInv => TypeOK
<1> SUFFICES ASSUME TypeInv  PROVE TypeOK
  OBVIOUS
<1>1. \A i \in DOMAIN file : file[i].timestamp \in 0..now
  <2>1. now \in Nat
    BY DEF TypeInv
  <2>2. QED  BY <2>1, EventTypes DEF TypeInv
<1>2. \A r \in Run : \A i \in DOMAIN pending[r] : IsReading(pending[r][i])
  BY DEF TypeInv, Has
<1>3. \A r \in Run : clock[r] \in 0..Len(file) /\ begun[r] \in 0..now
  <2>1. Len(file) \in Nat /\ now \in Nat
    BY DEF TypeInv
  <2>2. QED  BY <2>1 DEF TypeInv
<1>4. \A r \in Run : results[r] \in ToolResults /\ exitCode[r] \in (0..3) \cup {None}
  BY DEF TypeInv
<1>5. QED  BY <1>1, <1>2, <1>3, <1>4 DEF TypeInv, TypeOK

LEMMA NoResultsType ==
    NoResults \in ToolResults
BY DEF NoResults, ToolResults

LEMMA InitType ==
    Init => TypeInv
<1> SUFFICES ASSUME Init  PROVE TypeInv
  OBVIOUS
<1>1. MaxTime \in Nat
  BY CiPipelineAssumption
<1>2. \A r \in Run : \A x : ~Has(pending[r], x)
  BY HasSome DEF Init
<1>3. file \in Seq(Events) /\ file = <<>> /\ pending \in [Run -> Seq(Readings)]
  BY DEF Init
<1>4. results \in [Run -> ToolResults]
  BY NoResultsType DEF Init
<1>5. QED  BY <1>1, <1>2, <1>3, <1>4 DEF Init, TypeInv

LEMMA NextType ==
    TypeInv /\ [Next]_vars => TypeInv'
<1> SUFFICES ASSUME TypeInv, [Next]_vars  PROVE TypeInv'
  OBVIOUS
<1> USE DEF TypeInv
<1>1. ASSUME NEW r \in Run, NEW res \in Results, Start(r, res)  PROVE TypeInv'
  <2> USE <1>1 DEF Start
  <2>1. res \in ToolResults
    BY CiPipelineAssumption
  <2>2. /\ IngestResults(res) \in Seq(Readings)
        /\ \A x : Has(IngestResults(res), x) => IsReading(x)
    BY <2>1, Ingested, SaidReadings
  <2>3. /\ pending' \in [Run -> Seq(Readings)]
        /\ \A q \in Run : pending'[q] = IF q = r THEN IngestResults(res) ELSE pending[q]
    BY <2>2
  <2>4. \A q \in Run : \A x : Has(pending'[q], x) => IsReading(x)
    BY <2>2, <2>3
  <2>5. clock' \in [Run -> Nat] /\ \A q \in Run : clock'[q] <= Len(file')
    <3>1. PICK t \in {0} \cup {file[i].logical_time : i \in DOMAIN file} :
              clock' = [clock EXCEPT ![r] = t]
      OBVIOUS
    <3>2. t \in Nat /\ t <= Len(file) /\ Len(file) \in Nat
      BY <3>1
    <3>3. QED  BY <3>1, <3>2
  <2>6. begun' \in [Run -> Nat] /\ \A q \in Run : begun'[q] <= now'
    BY CiPipelineAssumption
  <2>7. /\ stage' \in [Run -> {"off", "ingest", "done", "dead"}]
        /\ \A q \in Run : exitCode'[q] # None <=> stage'[q] = "done"
    OBVIOUS
  <2>8. results' \in [Run -> ToolResults]
    BY <2>1
  <2>9. QED  BY <2>3, <2>4, <2>5, <2>6, <2>7, <2>8
<1>2. ASSUME NEW r \in Run, AppendNext(r)  PROVE TypeInv'
  <2> USE <1>2 DEF AppendNext
  <2> DEFINE x == Head(pending[r])
             e == NewEvent(r, x)
  <2>1. /\ x \in Readings /\ Tail(pending[r]) \in Seq(Readings)
        /\ IsReading(x)
        /\ \A y : Has(Tail(pending[r]), y) => IsReading(y)
    BY HasHeadTail
  <2>2. now \in Nat /\ clock[r] \in Nat /\ clock[r] <= Len(file) /\ Len(file) \in Nat
    BY CiPipelineAssumption
  <2>3. /\ e \in Events /\ e.timestamp = now /\ e.logical_time = clock[r] + 1
        /\ e.tool = x.tool /\ e.key = x.key /\ e.value = x.value
    <3> HIDE DEF x
    <3>1. QED  BY <2>1, <2>2 DEF NewEvent, Events, Readings
  <2>4. IsReading(e)
    <3> HIDE DEF e, x
    <3>1. QED  BY <2>1, <2>3 DEF IsReading
  <2>5. file' = Append(file, e)
    OBVIOUS
  <2> HIDE DEF e, x
  <2>6. /\ file' \in Seq(Events) /\ Len(file') = Len(file) + 1
        /\ \A i \in DOMAIN file' : file'[i] = e \/ (i \in DOMAIN file /\ file'[i] = file[i])
    BY <2>3, <2>5
  <2>7. \A i \in DOMAIN file' : /\ IsReading(file'[i])
                                /\ file'[i].timestamp <= now'
                                /\ file'[i].logical_time \in 1..Len(file')
    <3> SUFFICES ASSUME NEW i \in DOMAIN file'
                 PROVE  /\ IsReading(file'[i]) /\ file'[i].timestamp <= now'
                        /\ file'[i].logical_time \in 1..Len(file')
      OBVIOUS
    <3>1. CASE file'[i] = e
      BY <3>1, <2>2, <2>3, <2>4, <2>6
    <3>2. CASE i \in DOMAIN file /\ file'[i] = file[i]
      BY <3>2, <2>2, <2>6
    <3>3. QED  BY <3>1, <3>2, <2>6
  <2>8. clock' \in [Run -> Nat] /\ \A q \in Run : clock'[q] <= Len(file')
    BY <2>2, <2>6
  <2>9. /\ pending' \in [Run -> Seq(Readings)]
        /\ \A q \in Run : pending'[q] = IF q = r THEN Tail(pending[r]) ELSE pending[q]
    BY <2>1
  <2>10. \A q \in Run : \A y : Has(pending'[q], y) => IsReading(y)
    BY <2>1, <2>9
  <2>11. QED  BY <2>6, <2>7, <2>8, <2>9, <2>10
<1>3. ASSUME NEW r \in Run, Judge(r)  PROVE TypeInv'
  <2> USE <1>3 DEF Judge
  <2>1. CiExitCode(DetectContradictions(file)) \in 0..3
    BY DEF CiExitCode
  <2>2. CiExitCode(DetectContradictions(file)) # None
    BY <2>1, CiPipelineAssumption
  <2>3. /\ exitCode' \in [Run -> (0..3) \cup {None}]
        /\ \A q \in Run : exitCode'[q] # None <=> stage'[q] = "done"
    BY <2>1, <2>2
  <2>4. QED  BY <2>3
<1>4. ASSUME NEW r \in Run, Abort(r)  PROVE TypeInv'
  <2> USE <1>4 DEF Abort
  <2>1. results' \in [Run -> ToolResults]
    BY NoResultsType
  <2>2. /\ pending' \in [Run -> Seq(Readings)]
        /\ \A q \in Run : pending'[q] = IF q = r THEN <<>> ELSE pending[q]
    OBVIOUS
  <2>3. \A q \in Run : \A x : Has(pending'[q], x) => IsReading(x)
    BY <2>2, HasSome
  <2>4. QED  BY <2>1, <2>2, <2>3
<1>5. ASSUME Tick  PROVE TypeInv'
  <2>1. now' \in 0..MaxTime /\ now \in Nat /\ now' = now + 1
    BY <1>5, CiPipelineAssumption DEF Tick
  <2>2. \A i \in DOMAIN file : file[i].timestamp \in Nat
    BY EventTypes
  <2>3. \A i \in DOMAIN file : file[i].timestamp <= now'
    BY <2>1, <2>2
  <2>4. \A r \in Run : begun[r] <= now'
    BY <2>1
  <2>5. QED  BY <1>5, <2>1, <2>3, <2>4 DEF Tick
<1>6. CASE UNCHANGED vars
  BY <1>6 DEF vars
<1>7. QED
  BY <1>1, <1>2, <1>3, <1>4, <1>5, <1>6 DEF Next, RunNext

\* The ledger only holds what an adapter emits, at times that have been, and
\* its logical times are never beyond the number of its events.
THEOREM TypeCorrect ==
    Spec => []TypeOK
<1>1. Spec => []TypeInv
  BY InitType, NextType, PTL DEF Spec
<1>2. QED  BY <1>1, TypeInvIsTypeOK, PTL

-----------------------------------------------------------------------------
(* Runs that do not overlap.  A run's clock is never behind the ledger, so *)
(* what it appends comes last: every reading of its tools is either still  *)
(* to be appended or the latest event of its key, and not older than the   *)
(* run.                                                                    *)

Complete(res) == res.bootstrap # None /\ res.sim # None /\ res.tunnel # None

Recorded(r, x) == \E i \in DOMAIN file :
    /\ IsLast(file, WithKey(file, x.key), i)
    /\ file[i].value = x.value
    /\ file[i].timestamp >= begun[r]

Ingesting(r) ==
    /\ now <= begun[r] + MaxRunTime
    /\ \A i \in DOMAIN file : file[i].logical_time <= clock[r]
    /\ \A x : Has(pending[r], x) => Says(results[r], x)
    /\ \A x : Says(results[r], x) => Has(pending[r], x) \/ Recorded(r, x)

SerialInv ==
    /\ TypeInv
    /\ \A r, other \in Run : stage[r] = "ingest" /\ stage[other] = "ingest" => r = other
    /\ \A r \in Run : stage[r] = "ingest" => Ingesting(r)
    /\ OwnContradictionFails
    /\ CompleteRunFailsForItsOwn

\* An event whose logical time is beyond all others is the latest of its key,
\* and changes nothing for the other keys.
LEMMA AppendedIsLast ==
    ASSUME TypeInv, NEW e \in Events, file' = Append(file, e),
           \A i \in DOMAIN file : file[i].logical_time < e.logical_time
    PROVE  /\ IsLast(file', WithKey(file', e.key), Len(file')) /\ Len(file') \in DOMAIN file'
           /\ file'[Len(file')] = e
           /\ \A key : \A i \in DOMAIN file :
                 key # e.key /\ IsLast(file, WithKey(file, key), i)
                     => /\ IsLast(file', WithKey(file', key), i)
                        /\ i \in DOMAIN file' /\ file'[i] = file[i]
<1>1. /\ Len(file') = Len(file) + 1 /\ DOMAIN file' = 1..Len(file')
      /\ file'[Len(file')] = e /\ Len(file) \in Nat
      /\ \A i \in DOMAIN file' : i = Len(file') \/ (i \in DOMAIN file /\ file'[i] = file[i])
      /\ \A i \in DOMAIN file : i \in DOMAIN file' /\ file'[i] = file[i]
  BY DEF TypeInv
<1>2. Len(file') \in WithKey(file', e.key)
  BY <1>1 DEF WithKey
<1>3. \A j \in DOMAIN file' : j # Len(file') => Before(file', j, Len(file'))
  BY <1>1 DEF Before
<1>4. IsLast(file', WithKey(file', e.key), Len(file'))
  BY <1>2, <1>3 DEF IsLast, WithKey
<1>5. ASSUME NEW key, key # e.key, NEW i \in DOMAIN file, IsLast(file, WithKey(file, key), i)
      PROVE  IsLast(file', WithKey(file', key), i)
  <2>1. WithKey(file', key) = WithKey(file, key)
    BY <1>1, <1>5 DEF WithKey
  <2>2. i \in DOMAIN file /\ \A j \in DOMAIN file : file'[j] = file[j]
    BY <1>1
  <2>3. \A j \in WithKey(file, key) : j # i => Before(file', j, i)
    BY <1>5, <2>2 DEF IsLast, WithKey, Before
  <2>4. QED  BY <2>1, <2>3, <1>5 DEF IsLast
<1>6. Len(file') \in DOMAIN file'
  BY <1>1
<1>7. QED  BY <1>1, <1>4, <1>5, <1>6

\* There is one last event of a key.
LEMMA LastIsOne ==
    ASSUME TypeInv, NEW I \in SUBSET DOMAIN file, NEW i, NEW j,
           IsLast(file, I, i), IsLast(file, I, j)
    PROVE  i = j
<1> SUFFICES ASSUME i # j  PROVE FALSE
  OBVIOUS
<1>1. i \in DOMAIN file /\ j \in DOMAIN file /\ Before(file, i, j) /\ Before(file, j, i)
  BY DEF IsLast
<1>2. i \in Nat /\ j \in Nat
  BY <1>1 DEF TypeInv
<1>3. file[i].logical_time \in Nat /\ file[j].logical_time \in Nat
  BY <1>1, EventTypes
<1>4. QED  BY <1>1, <1>2, <1>3 DEF Before

\* What the engine reads of a key that the run has recorded.
LEMMA RecordedIsLatest ==
    ASSUME TypeInv, NEW r, NEW x, Recorded(r, x)
    PROVE  \E e : /\ LatestOf(file, x.key) = {e}
                  /\ e.value = x.value
                  /\ e.timestamp \in Nat /\ e.timestamp >= begun[r] /\ e.timestamp <= now
<1>1. PICK i \in DOMAIN file : /\ IsLast(file, WithKey(file, x.key), i)
                               /\ file[i].value = x.value
                               /\ file[i].timestamp >= begun[r]
  BY DEF Recorded
<1>2. \A j \in WithKey(file, x.key) : IsLast(file, WithKey(file, x.key), j) => j = i
  <2>1. WithKey(file, x.key) \in SUBSET DOMAIN file
    BY DEF WithKey
  <2>2. QED  BY <1>1, <2>1, LastIsOne
<1>3. LatestOf(file, x.key) = {file[i]}
  BY <1>1, <1>2 DEF LatestOf, IsLast
<1>4. file[i].timestamp \in Nat /\ file[i].timestamp <= now
  BY EventTypes DEF TypeInv
<1>5. QED  BY <1>1, <1>3, <1>4

LEMMA InitSerial ==
    Init => SerialInv
<1> SUFFICES ASSUME Init  PROVE SerialInv
  OBVIOUS
<1>1. \A r \in Run : stage[r] = "off"
  BY DEF Init
<1>2. QED
  BY <1>1, InitType DEF SerialInv, OwnContradictionFails, CompleteRunFailsForItsOwn

Verdict == CiExitCode(DetectContradictions(file))

\* Once a run has recorded everything, its verdict is right about its tools.
LEMMA VerdictIsRight ==
    ASSUME TypeInv, MaxRunTime < HardSkew, NEW r \in Run,
           Ingesting(r), pending[r] = <<>>
    PROVE  /\ Contradicts(results[r]) => Verdict = 3
           /\ Verdict = 3 /\ Complete(results[r]) => Contradicts(results[r])
<1> DEFINE res == results[r]
           Boot == LatestOf(file, "dht.peer.count.bootstrap")
           Peers == LatestOf(file, "dht.peer.count.sim")
           Announced == LatestOf(file, "dht.announced")
           Tunnel == LatestOf(file, "tunnel.status")
<1>1. \A x : Says(res, x) => Recorded(r, x)
  BY HasSome DEF Ingesting
<1>2. /\ now \in Nat /\ begun[r] \in Nat /\ now <= begun[r] + MaxRunTime
      /\ MaxRunTime \in Nat /\ HardSkew \in Nat
  BY CiPipelineAssumption DEF TypeInv, Ingesting
<1>3. ASSUME res.bootstrap # None
      PROVE  \E b : /\ Boot = {b} /\ b.value = res.bootstrap.reachable
                    /\ b.timestamp \in Nat /\ b.timestamp >= begun[r] /\ b.timestamp <= now
  <2> DEFINE x == Reading("bootstrap", "dht.peer.count.bootstrap", res.bootstrap.reachable)
  <2>1. Says(res, x)
    BY <1>3 DEF Says
  <2>2. x.key = "dht.peer.count.bootstrap" /\ x.value = res.bootstrap.reachable
    BY DEF Reading
  <2> HIDE DEF x
  <2>3. Recorded(r, x)
    BY <1>1, <2>1
  <2>4. QED  BY <2>2, <2>3, RecordedIsLatest
<1>4. ASSUME res.sim # None
      PROVE  \E s : /\ Peers = {s} /\ s.value = res.sim.mean
                    /\ s.timestamp \in Nat /\ s.timestamp >= begun[r] /\ s.timestamp <= now
  <2> DEFINE x == Reading("sim", "dht.peer.count.sim", res.sim.mean)
  <2>1. Says(res, x)
    BY <1>4 DEF Says
  <2>2. x.key = "dht.peer.count.sim" /\ x.value = res.sim.mean
    BY DEF Reading
  <2> HIDE DEF x
  <2>3. Recorded(r, x)
    BY <1>1, <2>1
  <2>4. QED  BY <2>2, <2>3, RecordedIsLatest
<1>5. ASSUME res.sim # None
      PROVE  \E a : Announced = {a} /\ a.value = (res.sim.exit_code = 0)
  <2> DEFINE x == Reading("sim", "dht.announced", res.sim.exit_code = 0)
  <2>1. Says(res, x)
    BY <1>5, Zenon DEF Says
  <2>2. x.key = "dht.announced" /\ x.value = (res.sim.exit_code = 0)
    BY Zenon DEF Reading
  <2> HIDE DEF x
  <2>3. Recorded(r, x)
    BY <1>1, <2>1
  <2>4. PICK e : LatestOf(file, x.key) = {e} /\ e.value = x.value
    BY <2>3, RecordedIsLatest
  <2>5. QED  BY <2>2, <2>4, Zenon
<1>6. ASSUME res.tunnel # None
      PROVE  \E t : Tunnel = {t} /\ t.value = res.tunnel.status
  <2> DEFINE x == Reading("tunnel", "tunnel.status", res.tunnel.status)
  <2>1. Says(res, x)
    BY <1>6 DEF Says
  <2>2. x.key = "tunnel.status" /\ x.value = res.tunnel.status
    BY DEF Reading
  <2> HIDE DEF x
  <2>3. Recorded(r, x)
    BY <1>1, <2>1
  <2>4. QED  BY <2>2, <2>3, RecordedIsLatest
<1>7. Verdict = 3 <=> "HARD" \in PeerCountRule(file) \cup TunnelRule(file)
  <2>1. "HARD" \notin OrphanRule(file) /\ "HARD" \notin GhostRule(file)
    BY DEF OrphanRule, GhostRule
  <2>2. QED  BY <2>1 DEF Verdict, CiExitCode, DetectContradictions
<1> HIDE DEF res, Boot, Peers, Announced, Tunnel
<1>8. ASSUME Contradicts(res)  PROVE Verdict = 3
  <2>1. CASE res.bootstrap # None /\ res.bootstrap.reachable = 0 /\ res.sim.mean > 0
    <3>1. PICK b : /\ Boot = {b} /\ b.value = 0
                   /\ b.timestamp \in Nat /\ b.timestamp >= begun[r] /\ b.timestamp <= now
      BY <1>3, <2>1
    <3>2. PICK s : /\ Peers = {s} /\ s.value > 0
                   /\ s.timestamp \in Nat /\ s.timestamp >= begun[r] /\ s.timestamp <= now
      BY <1>4, <1>8, <2>1 DEF Contradicts
    <3>3. Skew(b, s) < HardSkew
      BY <1>2, <3>1, <3>2 DEF Skew
    <3>4. "HARD" \in PeerCountSeverity(Skew(b, s))
      BY <3>3 DEF PeerCountSeverity
    <3>5. "HARD" \in PeerCountRule(file)
      BY <3>1, <3>2, <3>4 DEF PeerCountRule, Boot, Peers, Severity
    <3>6. QED  BY <3>5, <1>7
  <2>2. CASE res.tunnel # None /\ res.tunnel.status = "failed" /\ res.sim.exit_code = 0
    <3>1. PICK t : Tunnel = {t} /\ t.value = "failed"
      BY <1>6, <2>2
    <3>2. PICK a : Announced = {a} /\ a.value
      BY <1>5, <1>8, <2>2, Zenon DEF Contradicts
    <3>3. "HARD" \in TunnelRule(file)
      BY <3>1, <3>2, Zenon DEF TunnelRule, Tunnel, Announced
    <3>4. QED  BY <3>3, <1>7
  <2>3. QED  BY <1>8, <2>1, <2>2, Zenon DEF Contradicts
<1>9. ASSUME Verdict = 3, Complete(res)  PROVE Contradicts(res)
  <2>1. res.bootstrap # None /\ res.sim # None /\ res.tunnel # None
    BY <1>9 DEF Complete
  <2>2. CASE "HARD" \in PeerCountRule(file)
    <3>1. PICK b \in Boot, s \in Peers : b.value = 0 /\ s.value > 0
      BY <2>2, Zenon DEF PeerCountRule, Boot, Peers
    <3>2. b.value = res.bootstrap.reachable /\ s.value = res.sim.mean
      BY <1>3, <1>4, <2>1, <3>1
    <3>3. QED  BY <2>1, <3>1, <3>2 DEF Contradicts
  <2>3. CASE "HARD" \in TunnelRule(file)
    <3>1. PICK t \in Tunnel, a \in Announced : t.value = "failed" /\ a.value
      BY <2>3, Zenon DEF TunnelRule, Tunnel, Announced
    <3>2. t.value = res.tunnel.status
      BY <1>6, <2>1, <3>1
    <3>3. a.value = (res.sim.exit_code = 0)
      BY <1>5, <2>1, <3>1, Zenon
    <3>4. res.tunnel.status = "failed" /\ res.sim.exit_code = 0
      BY <3>1, <3>2, <3>3, Zenon
    <3>5. QED  BY <2>1, <3>4, Zenon DEF Contradicts
  <2>4. QED  BY <1>7, <1>9, <2>2, <2>3
<1>10. QED  BY <1>8, <1>9 DEF res

LEMMA NextSerial ==
    ASSUME OneAtATime, MaxRunTime < HardSkew
    PROVE  SerialInv /\ [Next]_vars => SerialInv'
<1> SUFFICES ASSUME SerialInv, [Next]_vars  PROVE SerialInv'
  OBVIOUS
<1> USE DEF SerialInv
<1>1. TypeInv'
  BY NextType
<1> DEFINE Done(r) == /\ stage[r] = "done" /\ Contradicts(results[r]) => exitCode[r] = 3
                      /\ stage[r] = "done" /\ exitCode[r] = 3 /\ Complete(results[r])
                             => Contradicts(results[r])
<1>2. (\A r \in Run : Done(r)) <=> OwnContradictionFails /\ CompleteRunFailsForItsOwn
  BY DEF OwnContradictionFails, CompleteRunFailsForItsOwn, Complete
<1>3. (\A r \in Run : Done(r)') => OwnContradictionFails' /\ CompleteRunFailsForItsOwn'
  BY DEF OwnContradictionFails, CompleteRunFailsForItsOwn, Complete
<1>4. ASSUME NEW r \in Run, NEW res \in Results, Start(r, res)  PROVE SerialInv'
  <2> USE <1>4 DEF Start
  <2>1. res \in ToolResults
    BY CiPipelineAssumption
  <2>2. /\ stage'[r] = "ingest" /\ results'[r] = res /\ pending'[r] = IngestResults(res)
        /\ begun'[r] = now /\ now' = now /\ file' = file
        /\ \A q \in Run : q # r => stage[q] # "ingest" /\ stage'[q] = stage[q]
                                   /\ results'[q] = results[q] /\ exitCode'[q] = exitCode[q]
    BY DEF TypeInv
  <2>3. \A i \in DOMAIN file : file[i].logical_time <= clock'[r]
    BY DEF IsClockOf, TypeInv
  <2>4. \A x : Has(pending'[r], x) <=> Says(results'[r], x)
    BY <2>1, <2>2, Ingested
  <2>5. now' <= begun'[r] + MaxRunTime
    BY <2>2, CiPipelineAssumption DEF TypeInv
  <2>6. Ingesting(r)'
    BY <2>2, <2>3, <2>4, <2>5 DEF Ingesting
  <2>7. \A q \in Run : Done(q)'
    BY <1>2, <2>2
  <2>8. QED  BY <1>1, <1>3, <2>2, <2>6, <2>7
<1>5. ASSUME NEW r \in Run, AppendNext(r)  PROVE SerialInv'
  <2> USE <1>5 DEF AppendNext
  <2> DEFINE x == Head(pending[r])
             e == NewEvent(r, x)
  <2>1. /\ pending[r] \in Seq(Readings) /\ pending[r] # <<>> /\ r \in DOMAIN pending
        /\ now \in Nat /\ begun[r] \in Nat /\ begun[r] <= now /\ clock[r] \in Nat
    BY CiPipelineAssumption DEF TypeInv
  <2>2. /\ x \in Readings
        /\ \A y : Has(pending[r], y) <=> y = x \/ Has(Tail(pending[r]), y)
    BY <2>1, HasHeadTail
  <2>3. Ingesting(r)
    OBVIOUS
  <2>4. /\ file' = Append(file, e) /\ pending'[r] = Tail(pending[r]) /\ clock'[r] = clock[r] + 1
        /\ UNCHANGED <<now, stage, results, begun, exitCode>>
    BY <2>1 DEF TypeInv
  <2>5. /\ e \in Events /\ e.timestamp = now /\ e.logical_time = clock[r] + 1
        /\ e.key = x.key /\ e.value = x.value
    <3> HIDE DEF x
    <3>1. QED  BY <2>1, <2>2 DEF NewEvent, Events, Readings
  <2> HIDE DEF e, x
  <2>6. \A i \in DOMAIN file : file[i].logical_time < e.logical_time
    BY <2>1, <2>3, <2>5, EventTypes DEF Ingesting
  <2>7. /\ IsLast(file', WithKey(file', e.key), Len(file')) /\ Len(file') \in DOMAIN file'
        /\ file'[Len(file')] = e
        /\ \A key : \A i \in DOMAIN file :
              key # e.key /\ IsLast(file, WithKey(file, key), i)
                  => /\ IsLast(file', WithKey(file', key), i)
                     /\ i \in DOMAIN file' /\ file'[i] = file[i]
    BY <2>4, <2>5, <2>6, AppendedIsLast
  <2>8. \A i \in DOMAIN file' : file'[i].logical_time <= clock'[r]
    <3>1. \A i \in DOMAIN file' : file'[i] = e \/ (i \in DOMAIN file /\ file'[i] = file[i])
      BY <2>4, <2>5 DEF TypeInv
    <3>2. QED  BY <3>1, <2>1, <2>4, <2>5, <2>6, EventTypes
  <2>9. ASSUME NEW y, Says(results[r], y)  PROVE Has(pending'[r], y) \/ Recorded(r, y)'
    <3>1. CASE y = x
      BY <3>1, <2>1, <2>4, <2>5, <2>7 DEF Recorded
    <3>2. CASE y # x /\ Has(pending[r], y)
      BY <3>2, <2>2, <2>4
    <3>3. CASE y # x /\ Recorded(r, y)
      <4>1. y.key # x.key
        BY <3>3, <2>2, <2>3, <2>9, SaidOnce DEF Ingesting
      <4>2. QED  BY <4>1, <3>3, <2>4, <2>5, <2>7 DEF Recorded
    <3>4. QED  BY <3>1, <3>2, <3>3, <2>3, <2>9 DEF Ingesting
  <2>10. \A y : Has(pending'[r], y) => Says(results[r], y)
    BY <2>2, <2>3, <2>4 DEF Ingesting
  <2>11. Ingesting(r)'
    BY <2>3, <2>4, <2>8, <2>9, <2>10 DEF Ingesting
  <2>12. QED
    BY <1>1, <1>2, <1>3, <2>4, <2>11
<1>6. ASSUME NEW r \in Run, Judge(r)  PROVE SerialInv'
  <2> USE <1>6 DEF Judge
  <2>1. /\ Contradicts(results[r]) => Verdict = 3
        /\ Verdict = 3 /\ Complete(results[r]) => Contradicts(results[r])
    BY VerdictIsRight
  <2>2. /\ exitCode'[r] = Verdict /\ stage'[r] = "done" /\ results' = results
        /\ \A q \in Run : q # r => /\ stage'[q] = stage[q] /\ exitCode'[q] = exitCode[q]
                                   /\ stage[q] # "ingest"
    BY DEF TypeInv, Verdict
  <2>3. \A q \in Run : Done(q)'
    BY <1>2, <2>1, <2>2
  <2>4. \A q \in Run : stage'[q] # "ingest"
    BY <2>2
  <2>5. QED  BY <1>1, <1>3, <2>3, <2>4
<1>7. ASSUME NEW r \in Run, Abort(r)  PROVE SerialInv'
  <2> USE <1>7 DEF Abort
  <2>1. /\ stage'[r] = "dead"
        /\ \A q \in Run : q # r => /\ stage'[q] = stage[q] /\ exitCode'[q] = exitCode[q]
                                   /\ results'[q] = results[q] /\ stage[q] # "ingest"
    BY DEF TypeInv
  <2>2. \A q \in Run : Done(q)'
    BY <1>2, <2>1
  <2>3. QED  BY <1>1, <1>3, <2>1, <2>2
<1>8. ASSUME Tick  PROVE SerialInv'
  <2> USE <1>8 DEF Tick
  <2>1. \A r \in Run : stage[r] = "ingest" => now' <= begun[r] + MaxRunTime
    BY CiPipelineAssumption DEF TypeInv
  <2>2. \A r \in Run : stage[r] = "ingest" => Ingesting(r)'
    BY <2>1 DEF Ingesting, Recorded
  <2>3. QED  BY <1>1, <1>2, <1>3, <2>2
<1>9. CASE UNCHANGED vars
  <2> USE <1>9 DEF vars
  <2>1. \A r \in Run : Ingesting(r) => Ingesting(r)'
    BY DEF Ingesting, Recorded
  <2>2. QED  BY <1>1, <1>2, <1>3, <2>1
<1>10. QED
  BY <1>4, <1>5, <1>6, <1>7, <1>8, <1>9 DEF Next, RunNext

\* When the pipelines run one at a time, and a run takes less than the hard
\* skew, a run whose own tools contradict each other fails, whatever events of
\* earlier runs the ledger holds.
THEOREM ContradictionFails ==
    ASSUME OneAtATime, MaxRunTime < HardSkew
    PROVE  Spec => []OwnContradictionFails
<1>1. SerialInv /\ [Next]_vars => SerialInv'
  BY NextSerial
<1>2. SerialInv => OwnContradictionFails
  BY DEF SerialInv
<1>3. QED  BY <1>1, <1>2, InitSerial, PTL DEF Spec

\* Under the same assumptions a run that all the tools of the hard rules have
\* reported to fails for no contradiction of an earlier run.
THEOREM FailsForItsOwn ==
    ASSUME OneAtATime, MaxRunTime < HardSkew
    PROVE  Spec => []CompleteRunFailsForItsOwn
<1>1. SerialInv /\ [Next]_vars => SerialInv'
  BY NextSerial
<1>2. SerialInv => CompleteRunFailsForItsOwn
  BY DEF SerialInv
<1>3. QED  BY <1>1, <1>2, InitSerial, PTL DEF Spec
=============================================================================
