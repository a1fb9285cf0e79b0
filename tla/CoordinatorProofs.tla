------------------------- MODULE CoordinatorProofs -------------------------
(* Proofs about Coordinator, for every set of networks, nodes and requests *)
(* and every value of the time constants.                                  *)
EXTENDS Coordinator, TLAPS

USE CoordinatorAssumption

-----------------------------------------------------------------------------
(* The time-to-live computations.                                          *)

\* Whatever expiresAt is sent, the times to live are natural numbers, and
\* ttlFromExpiresAt stays below the cap and reaches at least to expiresAt when
\* that is no more than MaxAhead away.
LEMMA TtlBounds ==
    ASSUME now \in Nat, NEW e \in Nat
    PROVE  /\ TtlFromExpiresAt(e) \in Nat
           /\ TtlFromExpiresAt(e) <= MaxTtl
           /\ e <= now + MaxAhead => e <= now + TtlFromExpiresAt(e)
BY DEF TtlFromExpiresAt, Greater, Lesser, Remaining

\* The legacy endpoints always compute a time to live that is a number.
LEMMA LegacyTtlType ==
    ASSUME now \in Nat, NEW e \in Nat \cup {None}
    PROVE  RegisterTtl(e) \in Nat /\ HeartbeatTtl(e) \in Nat
BY DEF RegisterTtl, HeartbeatTtl, Lesser, Remaining

-----------------------------------------------------------------------------
(* The inductive invariant: what a handler carries across an await has the *)
(* properties of what it is going to store.                                *)

MeshEntryOK(k, e) ==
    e # None => /\ e \in Entry(Record)
                /\ Admitted(e.val)
                /\ k = <<e.val.networkId, e.val.nodeId>>
                /\ e.expires <= now + MaxTtl
                /\ HeartbeatExps = {None} => e.val.expiresAt <= e.expires

ConfigOK(n, c) ==
    /\ c \in Config
    /\ c.id = n
    /\ c.publicRecord # None =>
           Admitted(c.publicRecord) /\ c.publicRecord.nodeId = n

ProxyEntryOK(n, e) ==
    e # None => e \in Entry(Config) /\ ConfigOK(n, e.val)

CarriesRecord(q) ==
    /\ q.rec \in Record
    /\ Admitted(q.rec)
    /\ q.net = q.rec.networkId /\ q.node = q.rec.nodeId

FlightOK(q) ==
    /\ q \in Slot
    /\ q.pc # "idle" => q.node \in Node
    /\ q.pc \in {"getMesh", "verified", "putMesh"} => CarriesRecord(q)
    /\ q.pc = "putMesh" =>
           /\ q.ttl <= MaxTtl
           /\ HeartbeatExps = {None} => q.rec.expiresAt <= now + q.ttl
    /\ q.pc = "putProxy" => ConfigOK(q.node, q.cfg)
    /\ q.pc = "delProxy" => q.net \in Net

MeshOK == \A k \in MeshKey : MeshEntryOK(k, mesh[k])
ProxyOK == \A n \in Node : ProxyEntryOK(n, proxy[n])
FlightsOK == \A r \in Req : FlightOK(req[r])

StoreInv == TypeOK /\ MeshOK /\ ProxyOK /\ FlightsOK

\* What the invariant is for.
LEMMA StoreInvImplies ==
    StoreInv => /\ TypeOK /\ OnlyAdmittedRecords /\ MeshLeaseBounded
                /\ HeartbeatExps = {None} => MeshLeaseCoversRecord
<1> SUFFICES ASSUME StoreInv
             PROVE  /\ TypeOK /\ OnlyAdmittedRecords /\ MeshLeaseBounded
                    /\ HeartbeatExps = {None} => MeshLeaseCoversRecord
  OBVIOUS
<1>1. OnlyAdmittedRecords
  BY DEF StoreInv, MeshOK, ProxyOK, MeshEntryOK, ProxyEntryOK, ConfigOK,
         OnlyAdmittedRecords
<1>2. MeshLeaseBounded
  BY DEF StoreInv, MeshOK, MeshEntryOK, MeshLeaseBounded
<1>3. HeartbeatExps = {None} => MeshLeaseCoversRecord
  <2>1. ASSUME NEW k \in MeshKey, mesh[k] # None, HeartbeatExps = {None}
        PROVE  mesh[k].val.expiresAt <= mesh[k].expires
    BY <2>1 DEF StoreInv, MeshOK, MeshEntryOK
  <2>2. ASSUME NEW k \in MeshKey, mesh[k] # None
        PROVE  mesh[k].val.expiresAt \in Nat /\ mesh[k].expires \in Nat
    BY <2>2 DEF StoreInv, TypeOK, Entry, Record
  <2>3. QED  BY <2>1, <2>2 DEF MeshLeaseCoversRecord
<1>4. QED  BY <1>1, <1>2, <1>3 DEF StoreInv

-----------------------------------------------------------------------------
(* How the operators on the store act on it.                               *)

\* Evicting expired entries changes no entry except to None.
LEMMA EvictMesh ==
    ASSUME TypeOK, MeshOK, NEW keys, mesh' = Evict(mesh, keys), now' = now
    PROVE  mesh' \in [MeshKey -> Entry(Record) \cup {None}] /\ MeshOK'
BY DEF TypeOK, MeshOK, MeshEntryOK, Evict, Admitted

LEMMA EvictProxy ==
    ASSUME TypeOK, ProxyOK, NEW keys, proxy' = Evict(proxy, keys), now' = now
    PROVE  proxy' \in [Node -> Entry(Config) \cup {None}] /\ ProxyOK'
BY DEF TypeOK, ProxyOK, ProxyEntryOK, ConfigOK, Evict, Admitted

\* A store that an action leaves alone stays well-formed.
LEMMA SameMesh ==
    ASSUME TypeOK, MeshOK, mesh' = mesh, now' = now
    PROVE  mesh' \in [MeshKey -> Entry(Record) \cup {None}] /\ MeshOK'
BY DEF TypeOK, MeshOK, MeshEntryOK, Admitted

LEMMA SameProxy ==
    ASSUME TypeOK, ProxyOK, proxy' = proxy, now' = now
    PROVE  proxy' \in [Node -> Entry(Config) \cup {None}] /\ ProxyOK'
BY DEF TypeOK, ProxyOK, ProxyEntryOK, ConfigOK, Admitted

\* Deleting a key.
LEMMA RemoveMesh ==
    ASSUME TypeOK, MeshOK, NEW k \in MeshKey, mesh' = [mesh EXCEPT ![k] = None],
           now' = now
    PROVE  mesh' \in [MeshKey -> Entry(Record) \cup {None}] /\ MeshOK'
BY DEF TypeOK, MeshOK, MeshEntryOK, Admitted

LEMMA RemoveProxy ==
    ASSUME TypeOK, ProxyOK, NEW n \in Node, proxy' = [proxy EXCEPT ![n] = None],
           now' = now
    PROVE  proxy' \in [Node -> Entry(Config) \cup {None}] /\ ProxyOK'
BY DEF TypeOK, ProxyOK, ProxyEntryOK, ConfigOK, Admitted

\* A slot that starts, goes on with or ends a request, given that what the
\* request now carries is well-formed.
LEMMA OneFlight ==
    ASSUME TypeOK, FlightsOK, NEW r \in Req, NEW q,
           req' = [req EXCEPT ![r] = q], now' = now, FlightOK(q)
    PROVE  req' \in [Req -> Slot] /\ FlightsOK'
<1>1. ASSUME NEW s \in Req PROVE FlightOK(req'[s])
  BY <1>1 DEF TypeOK, FlightsOK
<1>2. ASSUME NEW s \in Req PROVE FlightOK(req[s])'
  BY <1>1, <1>2 DEF FlightOK, CarriesRecord, ConfigOK, Admitted
<1>3. req' \in [Req -> Slot]
  BY <1>1 DEF TypeOK, FlightOK
<1>4. QED  BY <1>2, <1>3 DEF FlightsOK

LEMMA SameFlights ==
    ASSUME TypeOK, FlightsOK, req' = req, now' = now
    PROVE  req' \in [Req -> Slot] /\ FlightsOK'
BY DEF TypeOK, FlightsOK, FlightOK, CarriesRecord, ConfigOK, Admitted

LEMMA IdleFlight == FlightOK(Idle)
BY DEF FlightOK, Idle, Slot, Stages

\* A record that verifyPublicRecord lets through is admitted.
LEMMA VerifiedAdmitted ==
    ASSUME now \in Nat, NEW rec \in Record, VerifyPublicRecord(rec)
    PROVE  Admitted(rec)
<1>1. rec.expiresAt \in Nat  BY DEF Record
<1>2. rec.expiresAt - now <= MaxAhead  BY DEF VerifyPublicRecord
<1>3. rec.expiresAt <= now + MaxAhead  BY <1>1, <1>2
<1>4. rec.signed /\ (EnvNet # None => rec.networkId = EnvNet)
  BY ZenonT(30) DEF VerifyPublicRecord
<1>5. QED  BY <1>3, <1>4 DEF Admitted

\* The history variables stay sets of keys.
LEMMA SupersedeType ==
    ASSUME TypeOK, NEW op, NEW n, Supersede(op, n)
    PROVE  gone' \subseteq MeshKey /\ hidden' \subseteq MeshKey
BY DEF TypeOK, Supersede, KeysOf

-----------------------------------------------------------------------------
(* Every action preserves the invariant.                                   *)

LEMMA InitStore == Init => StoreInv
<1>1. Init => TypeOK
  <2>1. Idle \in Slot
    BY IdleFlight DEF FlightOK
  <2>2. QED
    BY <2>1 DEF Init, TypeOK, NotReading
<1>2. QED
  BY <1>1, IdleFlight
  DEF Init, StoreInv, MeshOK, MeshEntryOK, ProxyOK, ProxyEntryOK, FlightsOK

\* Requests that arrive.
LEMMA ArriveStore ==
    ASSUME StoreInv, NEW r \in Req, Arrive(r)
    PROVE  StoreInv'
<1> USE DEF StoreInv
<1>1. ASSUME NEW n \in Node, NEW e \in ExpTimes \cup {None}, Register(r, n, e)
      PROVE  StoreInv'
  <2> DEFINE c == [id |-> n, expiresAt |-> e, publicRecord |-> None]
             q == [op |-> "register", pc |-> "putProxy", net |-> None, node |-> n,
                   rec |-> None, cfg |-> c, ttl |-> RegisterTtl(e)]
  <2>1. req' = [req EXCEPT ![r] = q] /\ now' = now
    BY <1>1 DEF Register, Run
  <2>2. ConfigOK(n, c)
    BY DEF ConfigOK, Config
  <2>3. FlightOK(q)
    <3>1. RegisterTtl(e) \in Nat
      <4>1. now \in Nat  BY DEF TypeOK
      <4>2. e \in Nat \cup {None}  OBVIOUS
      <4> HIDE DEF StoreInv
      <4>3. QED  BY <4>1, <4>2, LegacyTtlType
    <3>2. "register" \in Ops
      BY <1>1 DEF Register, MayStart
    <3>3. QED
      BY <2>2, <3>1, <3>2 DEF FlightOK, Slot, Stages, ConfigOK
  <2> HIDE DEF q
  <2>4. req' \in [Req -> Slot] /\ FlightsOK'
    BY <2>1, <2>3, OneFlight
  <2>5. QED
    BY <1>1, <2>4, SameMesh, SameProxy DEF Register, TypeOK
<1>2. ASSUME NEW n \in Node, NEW e \in HeartbeatExps, Heartbeat(r, n, e)
      PROVE  StoreInv'
  <2> DEFINE c == proxy[n].val
             q == [op |-> "heartbeat", pc |-> "putProxy", net |-> None,
                   node |-> n, rec |-> None, cfg |-> c, ttl |-> HeartbeatTtl(e)]
  <2>1. CASE UNCHANGED req
    BY <1>2, <2>1, SameFlights, SameMesh, EvictProxy DEF Heartbeat, TypeOK
  <2>2. CASE Live(proxy[n]) /\ req' = [req EXCEPT ![r] = q]
    <3>1. ConfigOK(n, c)
      BY <2>2 DEF ProxyOK, ProxyEntryOK, Live
    <3>2. FlightOK(q)
      BY <1>2, <3>1, LegacyTtlType
      DEF FlightOK, Slot, Stages, ConfigOK, Heartbeat, MayStart, TypeOK
    <3> HIDE DEF q
    <3>3. req' \in [Req -> Slot] /\ FlightsOK'
      BY <1>2, <2>2, <3>2, OneFlight DEF Heartbeat
    <3>4. QED
      BY <1>2, <3>3, SameMesh, EvictProxy DEF Heartbeat, TypeOK
  <2>3. QED  BY <1>2, <2>1, <2>2 DEF Heartbeat, Run
<1>3. ASSUME NEW rec \in Record, MeshRegister(r, rec) PROVE StoreInv'
  <2> DEFINE q == [op |-> "meshRegister", pc |-> "getMesh",
                   net |-> rec.networkId, node |-> rec.nodeId, rec |-> rec,
                   cfg |-> None, ttl |-> 0]
  <2>1. Admitted(rec)
    BY <1>3, VerifiedAdmitted DEF MeshRegister, TypeOK
  <2>2. FlightOK(q)
    BY <1>3, <2>1
    DEF FlightOK, CarriesRecord, Slot, Stages, Record, MeshRegister, MayStart
  <2>3. req' = [req EXCEPT ![r] = q] /\ now' = now
    BY <1>3 DEF MeshRegister, Run
  <2> HIDE DEF q
  <2>4. req' \in [Req -> Slot] /\ FlightsOK'
    BY <2>2, <2>3, OneFlight
  <2>5. QED
    BY <1>3, <2>4, SameMesh, SameProxy DEF MeshRegister, TypeOK
<1>4. ASSUME NEW rec \in Record, MeshHeartbeatRecord(r, rec) PROVE StoreInv'
  <2> DEFINE q == [op |-> "meshHeartbeatRecord", pc |-> "verified",
                   net |-> rec.networkId, node |-> rec.nodeId, rec |-> rec,
                   cfg |-> None, ttl |-> 0]
  <2>1. Admitted(rec)
    BY <1>4, VerifiedAdmitted DEF MeshHeartbeatRecord, TypeOK
  <2>2. FlightOK(q)
    BY <1>4, <2>1
    DEF FlightOK, CarriesRecord, Slot, Stages, Record, MeshHeartbeatRecord, MayStart
  <2>3. req' = [req EXCEPT ![r] = q] /\ now' = now
    BY <1>4 DEF MeshHeartbeatRecord, Run
  <2> HIDE DEF q
  <2>4. req' \in [Req -> Slot] /\ FlightsOK'
    BY <2>2, <2>3, OneFlight
  <2>5. QED
    BY <1>4, <2>4, SameMesh, SameProxy DEF MeshHeartbeatRecord, TypeOK
<1>5. ASSUME NEW w \in Net \cup {None}, NEW n \in Node, NEW e \in HeartbeatExps,
             MeshHeartbeat(r, w, n, e)
      PROVE  StoreInv'
  <2> DEFINE net == ResolveNet(w)
             old == mesh[<<net, n>>]
             x == IF e # None THEN e ELSE old.val.expiresAt
             q == [op |-> "meshHeartbeat", pc |-> "putMesh", net |-> net,
                   node |-> n, rec |-> old.val, cfg |-> None,
                   ttl |-> TtlFromExpiresAt(x)]
  <2>1. net \in Net /\ <<net, n>> \in MeshKey
    BY <1>5 DEF MeshHeartbeat, ResolveNet, MeshKey
  <2>2. CASE UNCHANGED req
    BY <1>5, <2>2, SameFlights, EvictMesh, SameProxy DEF MeshHeartbeat, TypeOK
  <2>3. CASE Live(old) /\ req' = [req EXCEPT ![r] = q]
    <3>1. MeshEntryOK(<<net, n>>, old) /\ old # None
      BY <2>1, <2>3 DEF MeshOK, Live
    <3>2. /\ old.val \in Record /\ Admitted(old.val)
          /\ net = old.val.networkId /\ n = old.val.nodeId
      BY <3>1 DEF MeshEntryOK, Entry
    <3>3. x \in Nat
      BY <3>2 DEF Record
    <3>4. /\ TtlFromExpiresAt(x) \in Nat /\ TtlFromExpiresAt(x) <= MaxTtl
          /\ HeartbeatExps = {None} =>
                 old.val.expiresAt <= now + TtlFromExpiresAt(x)
      <4>1. now \in Nat  BY DEF TypeOK
      <4>2. HeartbeatExps = {None} => x = old.val.expiresAt  OBVIOUS
      <4>3. old.val.expiresAt <= now + MaxAhead  BY <3>2 DEF Admitted
      <4> HIDE DEF x, old
      <4>4. QED  BY <3>3, <4>1, <4>2, <4>3, TtlBounds
    <3> HIDE DEF x, old, net
    <3>5. FlightOK(q)
      BY <1>5, <2>1, <3>2, <3>4
      DEF FlightOK, CarriesRecord, Slot, Stages, MeshHeartbeat, MayStart
    <3> HIDE DEF q
    <3>6. req' \in [Req -> Slot] /\ FlightsOK'
      BY <1>5, <2>3, <3>5, OneFlight DEF MeshHeartbeat
    <3>7. QED
      BY <1>5, <3>6, EvictMesh, SameProxy DEF MeshHeartbeat, TypeOK
  <2>4. QED  BY <1>5, <2>2, <2>3 DEF MeshHeartbeat, Run
<1>6. ASSUME NEW w \in Net \cup {None}, NEW n \in Node, MeshDeregister(r, w, n)
      PROVE  StoreInv'
  <2> DEFINE net == ResolveNet(w)
             q == [op |-> "meshDeregister", pc |-> "delProxy", net |-> net,
                   node |-> n, rec |-> None, cfg |-> None, ttl |-> 0]
  <2>1. net \in Net /\ <<net, n>> \in MeshKey
    BY <1>6 DEF MeshDeregister, ResolveNet, MeshKey
  <2>2. req' = [req EXCEPT ![r] = q] /\ now' = now
    BY <1>6 DEF MeshDeregister, Run
  <2>3. FlightOK(q)
    BY <1>6, <2>1 DEF FlightOK, Slot, Stages, MeshDeregister, MayStart
  <2> HIDE DEF q
  <2>4. req' \in [Req -> Slot] /\ FlightsOK'
    BY <2>2, <2>3, OneFlight
  <2>5. mesh' \in [MeshKey -> Entry(Record) \cup {None}] /\ MeshOK'
    BY <1>6, <2>1, RemoveMesh DEF MeshDeregister
  <2>6. QED
    BY <1>6, <2>1, <2>4, <2>5, SameProxy DEF MeshDeregister, TypeOK
<1>7. ASSUME NEW n \in Node, Delete(r, n) PROVE StoreInv'
  BY <1>7, RemoveProxy, SameMesh, SameFlights DEF Delete, TypeOK
<1>8. QED
  BY <1>1, <1>2, <1>3, <1>4, <1>5, <1>6, <1>7 DEF Arrive

\* Handlers that go on after an await.
LEMMA ContinueStore ==
    ASSUME StoreInv, NEW r \in Req, Continue(r)
    PROVE  StoreInv'
<1> USE DEF StoreInv
<1> DEFINE p == req[r]
<1>0. FlightOK(p) /\ p \in Slot
  BY DEF FlightsOK, FlightOK
<1>1. CASE MeshRegisterCheck(r)
  <2> DEFINE q == [op |-> p.op, pc |-> "putMesh", net |-> p.net, node |-> p.node,
                   rec |-> p.rec, cfg |-> None,
                   ttl |-> TtlFromExpiresAt(p.rec.expiresAt)]
  <2>1. mesh' \in [MeshKey -> Entry(Record) \cup {None}] /\ MeshOK'
    BY <1>1, EvictMesh DEF MeshRegisterCheck
  <2>2. p.rec \in Record /\ CarriesRecord(p)
    BY <1>0, <1>1 DEF MeshRegisterCheck, FlightOK, CarriesRecord
  <2>3. FlightOK(q)
    <3> DEFINE e == p.rec.expiresAt
    <3>1. e \in Nat
      BY <2>2 DEF Record
    <3>2. /\ TtlFromExpiresAt(e) \in Nat /\ TtlFromExpiresAt(e) <= MaxTtl
          /\ e <= now + TtlFromExpiresAt(e)
      <4>1. now \in Nat  BY DEF TypeOK
      <4>2. e <= now + MaxAhead  BY <2>2 DEF CarriesRecord, Admitted
      <4> HIDE DEF e
      <4>3. QED  BY <3>1, <4>1, <4>2, TtlBounds
    <3>3. p.node \in Node
      BY <2>2 DEF CarriesRecord, Record
    <3>4. QED
      BY <1>0, <2>2, <3>2, <3>3 DEF FlightOK, CarriesRecord, Slot, Stages
  <2> HIDE DEF q
  <2>4. CASE req' = [req EXCEPT ![r] = q]
    BY <1>1, <2>1, <2>3, <2>4, OneFlight, SameProxy DEF MeshRegisterCheck, TypeOK
  <2>5. CASE Finish(r)
    BY <1>1, <2>1, <2>5, IdleFlight, OneFlight, SameProxy
    DEF MeshRegisterCheck, TypeOK, Finish
  <2>6. QED  BY <1>1, <2>4, <2>5 DEF MeshRegisterCheck, Resume, Run, q
<1>2. CASE MeshHeartbeatVerified(r)
  <2> DEFINE q == [op |-> p.op, pc |-> "putMesh", net |-> p.net, node |-> p.node,
                   rec |-> p.rec, cfg |-> None,
                   ttl |-> TtlFromExpiresAt(p.rec.expiresAt)]
  <2>1. p.rec \in Record /\ CarriesRecord(p)
    BY <1>0, <1>2 DEF MeshHeartbeatVerified, FlightOK, CarriesRecord
  <2>2. FlightOK(q)
    <3> DEFINE e == p.rec.expiresAt
    <3>1. e \in Nat
      BY <2>1 DEF Record
    <3>2. /\ TtlFromExpiresAt(e) \in Nat /\ TtlFromExpiresAt(e) <= MaxTtl
          /\ e <= now + TtlFromExpiresAt(e)
      <4>1. now \in Nat  BY DEF TypeOK
      <4>2. e <= now + MaxAhead  BY <2>1 DEF CarriesRecord, Admitted
      <4> HIDE DEF e
      <4>3. QED  BY <3>1, <4>1, <4>2, TtlBounds
    <3>3. p.node \in Node
      BY <2>1 DEF CarriesRecord, Record
    <3>4. QED
      BY <1>0, <2>1, <3>2, <3>3 DEF FlightOK, CarriesRecord, Slot, Stages
  <2>3. req' = [req EXCEPT ![r] = q]
    BY <1>2 DEF MeshHeartbeatVerified, Resume, Run
  <2> HIDE DEF q
  <2>4. QED
    BY <1>2, <2>2, <2>3, OneFlight, SameProxy, SameMesh
    DEF MeshHeartbeatVerified, TypeOK
<1>3. CASE MeshHeartbeatGetProxy(r)
  <2> DEFINE old == proxy[p.node]
             q == [op |-> p.op, pc |-> "putProxy", net |-> p.net, node |-> p.node,
                   rec |-> p.rec, cfg |-> old.val, ttl |-> p.ttl]
  <2>1. p.node \in Node
    BY <1>0, <1>3 DEF MeshHeartbeatGetProxy, FlightOK
  <2>2. proxy' \in [Node -> Entry(Config) \cup {None}] /\ ProxyOK'
    BY <1>3, EvictProxy DEF MeshHeartbeatGetProxy
  <2>3. CASE Live(old) /\ req' = [req EXCEPT ![r] = q]
    <3>1. ConfigOK(p.node, old.val)
      BY <2>1, <2>3 DEF ProxyOK, ProxyEntryOK, Live
    <3>2. FlightOK(q)
      BY <1>0, <2>1, <3>1 DEF FlightOK, Slot, Stages, ConfigOK
    <3> HIDE DEF q
    <3>3. QED
      BY <1>3, <2>2, <2>3, <3>2, OneFlight, SameMesh
      DEF MeshHeartbeatGetProxy, TypeOK
  <2>4. CASE Finish(r)
    BY <1>3, <2>2, <2>4, IdleFlight, OneFlight, SameMesh
    DEF MeshHeartbeatGetProxy, TypeOK, Finish
  <2>5. QED  BY <1>3, <2>3, <2>4 DEF MeshHeartbeatGetProxy, Resume, Run
<1>4. CASE PutMesh(r)
  <2> DEFINE key == <<p.net, p.node>>
             c(op) == IF op = "meshHeartbeat" THEN None ELSE DeriveProxyConfig(p.rec)
             q == [op |-> p.op,
                   pc |-> IF p.op = "meshHeartbeat" THEN "getProxy" ELSE "putProxy",
                   net |-> p.net, node |-> p.node, rec |-> p.rec,
                   cfg |-> c(p.op), ttl |-> p.ttl]
  <2>1. /\ CarriesRecord(p) /\ p.ttl \in Nat /\ p.ttl <= MaxTtl
        /\ HeartbeatExps = {None} => p.rec.expiresAt <= now + p.ttl
    BY <1>0, <1>4 DEF PutMesh, FlightOK, Slot
  <2>2. key \in MeshKey /\ p.node \in Node
    BY <2>1 DEF CarriesRecord, Record, MeshKey
  <2>3. Stored(p.rec, p.ttl) \in Entry(Record)
    BY <2>1 DEF Stored, Entry, CarriesRecord, TypeOK
  <2>4. MeshEntryOK(key, Stored(p.rec, p.ttl))
    BY <2>1, <2>3 DEF MeshEntryOK, CarriesRecord, Stored, TypeOK
  <2>5. mesh' = [mesh EXCEPT ![key] = Stored(p.rec, p.ttl)] /\ now' = now
    BY <1>4 DEF PutMesh
  <2>6. mesh' \in [MeshKey -> Entry(Record) \cup {None}]
    BY <2>2, <2>3, <2>5 DEF TypeOK
  <2>7. \A k \in MeshKey : MeshEntryOK(k, mesh'[k])
    BY <2>2, <2>4, <2>5 DEF MeshOK, TypeOK
  <2>8. MeshOK'
    BY <2>5, <2>7 DEF MeshOK, MeshEntryOK, Admitted
  <2>9. ConfigOK(p.node, DeriveProxyConfig(p.rec))
    BY <2>1 DEF ConfigOK, DeriveProxyConfig, CarriesRecord, Config, Record
  <2>10. FlightOK(q)
    BY <1>0, <1>4, <2>2, <2>9 DEF PutMesh, FlightOK, Slot, Stages, ConfigOK
  <2>11. req' = [req EXCEPT ![r] = q]
    BY <1>4 DEF PutMesh, Refreshes, Resume, Run
  <2> HIDE DEF q
  <2>12. req' \in [Req -> Slot] /\ FlightsOK'
    BY <2>5, <2>10, <2>11, OneFlight
  <2>13. QED
    BY <1>4, <2>6, <2>8, <2>12, SameProxy, SupersedeType DEF PutMesh, TypeOK
<1>5. CASE PutProxy(r)
  <2>1. p.node \in Node /\ ConfigOK(p.node, p.cfg) /\ p.ttl \in Nat
    BY <1>0, <1>5 DEF PutProxy, FlightOK, Slot
  <2>2. Stored(p.cfg, p.ttl) \in Entry(Config)
    BY <2>1 DEF Stored, Entry, ConfigOK, TypeOK
  <2>3. ProxyEntryOK(p.node, Stored(p.cfg, p.ttl))
    BY <2>1, <2>2 DEF ProxyEntryOK, Stored
  <2>4. proxy' = [proxy EXCEPT ![p.node] = Stored(p.cfg, p.ttl)] /\ now' = now
    BY <1>5 DEF PutProxy
  <2>5. proxy' \in [Node -> Entry(Config) \cup {None}]
    BY <2>1, <2>2, <2>4 DEF TypeOK
  <2>6. \A n \in Node : ProxyEntryOK(n, proxy'[n])
    BY <2>1, <2>3, <2>4 DEF ProxyOK, TypeOK
  <2>7. ProxyOK'
    BY <2>4, <2>6 DEF ProxyOK, ProxyEntryOK, ConfigOK, Admitted
  <2>8. req' \in [Req -> Slot] /\ FlightsOK'
    BY <1>5, IdleFlight, OneFlight DEF PutProxy, Finish
  <2>9. QED
    BY <1>5, <2>5, <2>7, <2>8, SameMesh, SupersedeType DEF PutProxy, TypeOK
<1>6. CASE DeleteProxy(r)
  <2>1. p.node \in Node
    BY <1>0, <1>6 DEF DeleteProxy, FlightOK
  <2>2. req' \in [Req -> Slot] /\ FlightsOK'
    BY <1>6, IdleFlight, OneFlight DEF DeleteProxy, Finish
  <2>3. QED
    BY <1>6, <2>1, <2>2, RemoveProxy, SameMesh DEF DeleteProxy, TypeOK
<1>7. CASE InternalError(r)
  <2>1. req' \in [Req -> Slot] /\ FlightsOK'
    BY <1>7, IdleFlight, OneFlight DEF InternalError, Finish
  <2>2. QED
    BY <1>7, <2>1, SameProxy, SameMesh DEF InternalError, TypeOK
<1>8. QED
  BY <1>1, <1>2, <1>3, <1>4, <1>5, <1>6, <1>7 DEF Continue

\* List requests, and time.
LEMMA ReadStore == StoreInv /\ Read => StoreInv'
<1> SUFFICES ASSUME StoreInv, Read PROVE StoreInv'
    OBVIOUS
<1> USE DEF StoreInv
<1>1. ASSUME NEW what \in {"mesh", "proxy"}, NEW store,
             DOMAIN store \subseteq MeshKey \cup Node, List(what, store)
      PROVE  StoreInv'
  <2>1. reader' \in [what : {"none", "mesh", "proxy"},
                     pending : SUBSET (MeshKey \cup Node),
                     got : SUBSET (Record \cup Config)]
    BY <1>1 DEF List
  <2>2. QED
    BY <1>1, <2>1, EvictMesh, EvictProxy, SameFlights DEF List, TypeOK
<1>2. CASE ListMeshRecords
  <2>1. DOMAIN mesh \subseteq MeshKey \cup Node  BY DEF TypeOK
  <2>2. QED  BY <1>1, <1>2, <2>1 DEF ListMeshRecords
<1>3. CASE ListProxyConfigs
  <2>1. DOMAIN proxy \subseteq MeshKey \cup Node  BY DEF TypeOK
  <2>2. QED  BY <1>1, <1>3, <2>1 DEF ListProxyConfigs
<1>4. ASSUME NEW key, NEW found \in SUBSET (Record \cup Config), Collect(key, found)
      PROVE  reader' \in [what : {"none", "mesh", "proxy"},
                          pending : SUBSET (MeshKey \cup Node),
                          got : SUBSET (Record \cup Config)]
  BY <1>4 DEF Collect, TypeOK
<1>5. ASSUME NEW k \in MeshKey, GetMeshRecord(k) PROVE StoreInv'
  <2> DEFINE found == IF Live(mesh[k]) /\ InNetwork(mesh[k].val)
                      THEN {mesh[k].val} ELSE {}
  <2>1. found \in SUBSET (Record \cup Config)
    BY DEF TypeOK, Live, Entry
  <2>2. Collect(k, found)
    BY <1>5 DEF GetMeshRecord
  <2> HIDE DEF found
  <2>3. QED
    BY <1>4, <1>5, <2>1, <2>2, EvictMesh, SameProxy, SameFlights
    DEF GetMeshRecord, TypeOK
<1>6. ASSUME NEW n \in Node, GetProxyConfig(n) PROVE StoreInv'
  <2> DEFINE found == IF Live(proxy[n]) THEN {proxy[n].val} ELSE {}
  <2>1. found \in SUBSET (Record \cup Config)
    BY DEF TypeOK, Live, Entry
  <2>2. Collect(n, found)
    BY <1>6 DEF GetProxyConfig
  <2> HIDE DEF found
  <2>3. QED
    BY <1>4, <1>6, <2>1, <2>2, EvictProxy, SameMesh, SameFlights
    DEF GetProxyConfig, TypeOK
<1>7. CASE ListAnswer
  BY <1>7, SameMesh, SameProxy, SameFlights DEF ListAnswer, NotReading, TypeOK
<1>8. ASSUME NEW n \in Node, SubOne(n) PROVE StoreInv'
  BY <1>8, EvictProxy, SameMesh, SameFlights DEF SubOne, TypeOK
<1>9. QED
  BY <1>2, <1>3, <1>5, <1>6, <1>7, <1>8 DEF Read

LEMMA TickStore == StoreInv /\ Tick => StoreInv'
<1> SUFFICES ASSUME StoreInv, Tick PROVE StoreInv'
    OBVIOUS
<1>1. now \in Nat /\ now' = now + 1 /\ now' \in 0..MaxNow
  BY DEF StoreInv, Tick, TypeOK
<1>2. ASSUME NEW rec \in Record, Admitted(rec) PROVE Admitted(rec)'
  <2>1. rec.expiresAt \in Nat /\ rec.expiresAt <= now + MaxAhead
    BY <1>2 DEF Admitted, Record
  <2>2. rec.expiresAt <= now' + MaxAhead
    BY <1>1, <2>1
  <2>3. rec.signed /\ (EnvNet # None => rec.networkId = EnvNet)
    BY <1>2, Zenon DEF Admitted
  <2>4. QED  BY <2>2, <2>3 DEF Admitted
<1>3. MeshOK'
  BY <1>1, <1>2 DEF StoreInv, Tick, MeshOK, MeshEntryOK, Entry
<1>4. \A n : \A c \in Config : ConfigOK(n, c) => ConfigOK(n, c)'
  BY <1>2 DEF ConfigOK, Config
<1>5. ProxyOK'
  BY <1>4 DEF StoreInv, Tick, ProxyOK, ProxyEntryOK, Entry
<1>6. ASSUME NEW q \in Slot, FlightOK(q) PROVE FlightOK(q)'
  <2>1. ASSUME q.pc = "putMesh", HeartbeatExps = {None}
        PROVE  q.rec.expiresAt <= now' + q.ttl
    <3>1. q.rec.expiresAt \in Nat /\ q.ttl \in Nat
      BY <1>6, <2>1 DEF FlightOK, CarriesRecord, Slot, Record
    <3>2. q.rec.expiresAt <= now + q.ttl
      BY <1>6, <2>1 DEF FlightOK
    <3>3. QED  BY <1>1, <3>1, <3>2
  <2>2. QED
    BY <1>2, <1>4, <1>6, <2>1 DEF FlightOK, CarriesRecord, ConfigOK
<1>7. FlightsOK'
  BY <1>6 DEF StoreInv, Tick, FlightsOK, FlightOK
<1>8. QED
  BY <1>1, <1>3, <1>5, <1>7 DEF StoreInv, Tick, TypeOK

LEMMA NextStore == StoreInv /\ [Next]_vars => StoreInv'
<1>1. StoreInv /\ UNCHANGED vars => StoreInv'
  BY SameMesh, SameProxy, SameFlights DEF StoreInv, TypeOK, vars
<1>2. QED
  BY <1>1, ArriveStore, ContinueStore, ReadStore, TickStore DEF Next

-----------------------------------------------------------------------------
(* Requests about one node that are served in turn.  The invariant says    *)
(* what a handler may rely on across an await when no other request about  *)
(* its node is being served: entries only lapse meanwhile.                 *)

\* A slot that is not idle serves one request, whose stages go with its endpoint.
Shape(q) ==
    /\ q.pc = "idle" => q = Idle
    /\ q.pc # "idle" => q.node \in Node
    /\ q.pc = "getMesh" => q.op = "meshRegister"
    /\ q.pc = "verified" => q.op = "meshHeartbeatRecord"
    /\ q.pc = "putMesh" => q.op \in {"meshRegister", "meshHeartbeatRecord",
                                     "meshHeartbeat"}
    /\ q.pc = "getProxy" => q.op = "meshHeartbeat"
    /\ q.pc = "putProxy" => q.op \in {"register", "heartbeat", "meshRegister",
                                      "meshHeartbeatRecord", "meshHeartbeat"}

InTurn ==
    /\ \A r \in Req : Shape(req[r])
    /\ \A r, s \in Req : req[r].node = req[s].node => r = s \/ req[r].node = None

\* A handler that is about to put a record knows the one that it replaces.
InOrder(q) ==
    q.pc = "putMesh" =>
        LET e == mesh[<<q.net, q.node>>]
        IN  /\ q.op = "meshRegister" => ~StaleHeartbeat(e, q.rec)
            /\ q.op = "meshHeartbeat" /\ e # None => e.val = q.rec

\* A handler that is about to put back what it has read does not bring back what
\* is gone, and one that deregisters has nothing else left to delete.
Unaware(q) ==
    /\ q.pc = "putMesh" /\ q.op = "meshHeartbeat" =>
           <<q.net, q.node>> \notin gone \cup hidden
    /\ q.pc = "putProxy" /\ q.op \notin Registering =>
           (gone \cup hidden) \cap KeysOf(q.node) = {}
    /\ q.pc = "delProxy" =>
           \A k \in gone \cap KeysOf(q.node) :
               k = <<q.net, q.node>> \/ ~Live(proxy[q.node])

GoneAt(n) == \A k \in KeysOf(n) :
    /\ k \in gone \cup hidden => ~Live(mesh[k])
    /\ k \in gone /\ ~Deregistering(n) => ~Live(proxy[n])
    /\ k \in hidden => ~Live(proxy[n])

\* A config and the mesh record of its network say the same, if there is one.
Mirrors(c) ==
    c.publicRecord # None =>
        LET e == mesh[<<c.publicRecord.networkId, c.id>>]
        IN  e # None => e.val = c.publicRecord

\* The two may part only between the two puts of a request.
Between(n) == \E r \in Req : req[r].node = n /\ req[r].pc = "putProxy"
MirrorAt(n) == proxy[n] # None /\ ~Between(n) => Mirrors(proxy[n].val)
Faithful(q) ==
    /\ q.pc = "putProxy" => Mirrors(q.cfg)
    /\ q.pc = "putMesh" /\ q.op = "meshHeartbeat" /\ proxy[q.node] # None =>
           LET rec == proxy[q.node].val.publicRecord
           IN  rec # None /\ rec.networkId = q.net => rec = q.rec

OrderInv == \A r \in Req : InOrder(req[r])
GoneInv == (\A n \in Node : GoneAt(n)) /\ (\A r \in Req : Unaware(req[r]))
MirrorInv == (\A n \in Node : MirrorAt(n)) /\ (\A r \in Req : Faithful(req[r]))

SerialInv ==
    /\ StoreInv /\ InTurn /\ OrderInv /\ GoneInv /\ ListHidesDeregistered
    /\ ~StoreMayFail => MirrorInv

\* A step of the slot r about the node n.
Serves(r, n) ==
    /\ \A s \in Req \ {r} : req'[s] = req[s]
    /\ req'[r] = Idle \/ req'[r].node = n
    /\ req[r].node = n \/ (req[r] = Idle /\ Quiet(n))
    /\ \A k \in MeshKey : k[2] # n => mesh'[k] = mesh[k]
    /\ \A m \in Node : m # n => proxy'[m] = proxy[m]
    /\ \A k \in MeshKey : k[2] # n =>
           (k \in gone' <=> k \in gone) /\ (k \in hidden' <=> k \in hidden)
    /\ hidden' \subseteq hidden
    /\ now' = now /\ reader' = reader

-----------------------------------------------------------------------------
(* What a step leaves alone.                                               *)

LEMMA Keys ==
    /\ \A k \in MeshKey : k = <<k[1], k[2]>> /\ k[1] \in Net /\ k[2] \in Node
    /\ \A w \in Net, n \in Node : <<w, n>> \in MeshKey
    /\ \A w, n : <<w, n>>[1] = w /\ <<w, n>>[2] = n
BY DEF MeshKey

\* Nobody else is serving the node of a request.
LEMMA Others ==
    ASSUME InTurn, NEW r \in Req, NEW n \in Node,
           req[r].node = n \/ Quiet(n)
    PROVE  \A s \in Req \ {r} : req[s].node # n
BY DEF InTurn, Quiet

\* An eviction takes away only what has lapsed, under the keys that are met.
LEMMA Evicted ==
    ASSUME NEW store, NEW keys, NEW k \in DOMAIN store
    PROVE  /\ Evict(store, keys)[k] \in {store[k], None}
           /\ Live(store[k]) => Evict(store, keys)[k] = store[k]
           /\ k \notin keys => Evict(store, keys)[k] = store[k]
BY DEF Evict

\* A step about one node, seen from the slot that makes it.
LEMMA OwnSlot ==
    ASSUME InTurn, NEW r \in Req, NEW n \in Node, Serves(r, n)
    PROVE  /\ Deregistering(n)' <=> req'[r].pc = "delProxy"
           /\ Between(n)' <=> req'[r].pc = "putProxy"
           /\ Deregistering(n) <=> req[r].pc = "delProxy"
           /\ Between(n) <=> req[r].pc = "putProxy"
           /\ \A m \in Node : m # n => /\ Deregistering(m)' <=> Deregistering(m)
                                       /\ Between(m)' <=> Between(m)
<1>1. \A s \in Req \ {r} : req[s].node # n /\ req'[s] = req[s]
  BY Others DEF Serves
<1>2. req[r].node = n \/ req[r] = Idle
  BY DEF Serves
<1>3. req'[r].node = n \/ req'[r] = Idle
  BY DEF Serves
<1>4. Idle.pc = "idle" /\ Idle.node \notin Node
  BY DEF Idle
<1>5. (req[r].pc \in {"delProxy", "putProxy"} => req[r].node = n)
      /\ (req'[r].pc \in {"delProxy", "putProxy"} => req'[r].node = n)
  BY <1>2, <1>3, <1>4
<1>6. \A m \in Node : m # n => req[r].node # m /\ req'[r].node # m
  BY <1>2, <1>3, <1>4
<1>7. QED
  BY <1>1, <1>5, <1>6 DEF Deregistering, Between

LEMMA RequestStep ==
    ASSUME SerialInv, StoreInv', NEW r \in Req, NEW n \in Node, Serves(r, n),
           Shape(req[r])', InOrder(req[r])', Unaware(req[r])', GoneAt(n)',
           ~StoreMayFail => MirrorAt(n)' /\ Faithful(req[r])'
    PROVE  SerialInv'
<1> USE DEF SerialInv
<1>1. \A s \in Req \ {r} : req[s].node # n /\ req'[s] = req[s]
  BY Others DEF Serves
<1>2. \A s \in Req : req[s].pc # "idle" => req[s].node \in Node
  BY DEF InTurn, Shape
<1>3. /\ now' = now /\ reader' = reader /\ hidden' \subseteq hidden
      /\ \A k \in MeshKey : k[2] # n => /\ mesh'[k] = mesh[k]
                                        /\ k \in gone' <=> k \in gone
                                        /\ k \in hidden' <=> k \in hidden
      /\ \A m \in Node : m # n => proxy'[m] = proxy[m]
  BY DEF Serves
<1>4. gone \subseteq MeshKey /\ hidden \subseteq MeshKey
      /\ gone' \subseteq MeshKey /\ hidden' \subseteq MeshKey
  BY DEF StoreInv, TypeOK
<1>5. InTurn'
  <2>1. \A s \in Req : Shape(req[s])'
    BY <1>1 DEF InTurn, Shape
  <2>2. req'[r].node = n \/ req'[r].node = None
    BY DEF Serves, Idle
  <2>3. QED
    BY <1>1, <2>1, <2>2 DEF InTurn
<1>6. OrderInv'
  <2>1. ASSUME NEW s \in Req \ {r}, req[s].pc = "putMesh" PROVE InOrder(req[s])'
    <3>1. /\ <<req[s].net, req[s].node>> \in MeshKey
          /\ <<req[s].net, req[s].node>>[2] # n
      BY <1>1, <2>1, Keys DEF StoreInv, FlightsOK, FlightOK, CarriesRecord, Record
    <3>2. mesh'[<<req[s].net, req[s].node>>] = mesh[<<req[s].net, req[s].node>>]
      BY <1>3, <3>1
    <3>3. InOrder(req[s]) /\ req'[s] = req[s]
      BY <1>1 DEF OrderInv
    <3>4. QED
      BY <1>3, <3>2, <3>3 DEF InOrder, StaleHeartbeat, Live
  <2>2. \A s \in Req \ {r} : req[s].pc # "putMesh" => InOrder(req[s])'
    BY <1>1 DEF InOrder
  <2>3. QED
    BY <2>1, <2>2 DEF OrderInv
<1>7. \A m \in Node : GoneAt(m)'
  <2> SUFFICES ASSUME NEW m \in Node, m # n PROVE GoneAt(m)'
    OBVIOUS
  <2>1. GoneAt(m) /\ (Deregistering(m)' <=> Deregistering(m))
    BY OwnSlot DEF GoneInv
  <2>2. \A k \in KeysOf(m) : k \in MeshKey /\ k[2] # n
    BY DEF KeysOf
  <2>3. QED
    BY <1>3, <2>1, <2>2 DEF GoneAt, Live, KeysOf
<1>8. \A s \in Req : Unaware(req[s])'
  <2> SUFFICES ASSUME NEW s \in Req \ {r} PROVE Unaware(req[s])'
    OBVIOUS
  <2>1. Unaware(req[s]) /\ req'[s] = req[s] /\ req[s].node # n
    BY <1>1 DEF GoneInv
  <2>2. ASSUME req[s].pc = "putMesh", req[s].op = "meshHeartbeat"
        PROVE  <<req[s].net, req[s].node>> \notin gone' \cup hidden'
    <3>1. /\ <<req[s].net, req[s].node>> \in MeshKey
          /\ <<req[s].net, req[s].node>>[2] # n
      BY <2>1, <2>2, Keys DEF StoreInv, FlightsOK, FlightOK, CarriesRecord, Record
    <3>2. QED
      BY <1>3, <2>1, <2>2, <3>1 DEF Unaware
  <2>3. (gone' \cup hidden') \cap KeysOf(req[s].node)
            = (gone \cup hidden) \cap KeysOf(req[s].node)
    BY <1>3, <1>4, <2>1 DEF KeysOf
  <2>4. gone' \cap KeysOf(req[s].node) = gone \cap KeysOf(req[s].node)
    BY <1>3, <1>4, <2>1 DEF KeysOf
  <2>5. req[s].pc = "delProxy" => (Live(proxy[req[s].node])' => Live(proxy[req[s].node]))
    BY <1>2, <1>3, <2>1 DEF Live
  <2>6. KeysOf(req[s].node)' = KeysOf(req[s].node)
    BY <2>1 DEF KeysOf
  <2>7. (req[s].pc = "putMesh" /\ req[s].op = "meshHeartbeat" =>
            <<req[s].net, req[s].node>> \notin gone \cup hidden)'
    BY <2>1, <2>2
  <2>8. (req[s].pc = "putProxy" /\ req[s].op \notin Registering =>
            (gone \cup hidden) \cap KeysOf(req[s].node) = {})'
    BY <2>1, <2>3, <2>6 DEF Unaware
  <2>9. (req[s].pc = "delProxy" =>
           \A k \in gone \cap KeysOf(req[s].node) :
               k = <<req[s].net, req[s].node>> \/ ~Live(proxy[req[s].node]))'
    BY <2>1, <2>4, <2>5, <2>6 DEF Unaware
  <2>10. QED
    BY <2>7, <2>8, <2>9 DEF Unaware
<1>9. ListHidesDeregistered'
  BY <1>3 DEF ListHidesDeregistered
<1>10. ASSUME ~StoreMayFail PROVE MirrorInv'
  <2>1. ASSUME NEW c \in Config, c.id # n, c.id \in Node, Mirrors(c) PROVE Mirrors(c)'
    <3>1. ASSUME c.publicRecord # None
          PROVE  /\ <<c.publicRecord.networkId, c.id>> \in MeshKey
                 /\ <<c.publicRecord.networkId, c.id>>[2] # n
      BY <2>1, <3>1, Keys DEF Config, Record
    <3>2. QED
      BY <1>3, <2>1, <3>1 DEF Mirrors
  <2>2. \A m \in Node : MirrorAt(m)'
    <3> SUFFICES ASSUME NEW m \in Node, m # n, proxy[m] # None, ~Between(m)
                 PROVE  Mirrors(proxy[m].val)'
      BY <1>3, <1>10, OwnSlot DEF MirrorAt
    <3>1. Mirrors(proxy[m].val) /\ proxy[m].val \in Config /\ proxy[m].val.id = m
      BY <1>10 DEF MirrorInv, MirrorAt, StoreInv, ProxyOK, ProxyEntryOK, ConfigOK
    <3>2. proxy'[m].val = proxy[m].val
      BY <1>3
    <3>3. \A c : c = proxy[m].val => Mirrors(c)'
      BY <2>1, <3>1
    <3>4. QED
      BY <3>2, <3>3 DEF Mirrors
  <2>3. ASSUME NEW s \in Req \ {r} PROVE Faithful(req[s])'
    <3>1. Faithful(req[s]) /\ req'[s] = req[s] /\ req[s].node # n
      BY <1>1, <1>10 DEF MirrorInv
    <3>2. ASSUME req[s].pc = "putProxy" PROVE Mirrors(req[s].cfg)'
      <4>1. /\ Mirrors(req[s].cfg) /\ req[s].cfg \in Config
            /\ req[s].cfg.id = req[s].node /\ req[s].node \in Node
        BY <1>2, <3>1, <3>2 DEF Faithful, StoreInv, FlightsOK, FlightOK, ConfigOK
      <4>2. \A c : c = req[s].cfg => Mirrors(c)'
        BY <2>1, <3>1, <4>1
      <4>3. QED
        BY <3>1, <4>2 DEF Mirrors
    <3>3. req[s].pc = "putMesh" => proxy'[req[s].node] = proxy[req[s].node]
      BY <1>2, <1>3, <3>1
    <3>4. QED
      BY <3>1, <3>2, <3>3 DEF Faithful
  <2>4. QED
    BY <1>10, <2>2, <2>3 DEF MirrorInv
<1>11. QED
  BY <1>5, <1>6, <1>7, <1>8, <1>9, <1>10 DEF GoneInv

\* A step that serves no request: entries lapse, and what was gone may be hidden.
LEMMA RestStep ==
    ASSUME SerialInv, StoreInv', req' = req, gone' = gone,
           now \in Nat, now' \in Nat, now <= now',
           \A k \in MeshKey : mesh'[k] \in {mesh[k], None},
           \A n \in Node : proxy'[n] \in {proxy[n], None},
           \A k \in hidden' : k \in hidden \/ (k \in gone /\ ~Deregistering(k[2])),
           ListHidesDeregistered'
    PROVE  SerialInv'
<1> USE DEF SerialInv
<1>1. \A k \in MeshKey : Live(mesh[k])' => Live(mesh[k]) /\ mesh'[k] = mesh[k]
  <2>1. \A k \in MeshKey : mesh[k] # None => mesh[k].expires \in Nat
    BY DEF StoreInv, MeshOK, MeshEntryOK, Entry
  <2>2. QED
    BY <2>1 DEF Live
<1>2. \A n \in Node : Live(proxy[n])' => Live(proxy[n]) /\ proxy'[n] = proxy[n]
  <2>1. \A n \in Node : proxy[n] # None => proxy[n].expires \in Nat
    BY DEF StoreInv, ProxyOK, ProxyEntryOK, Entry
  <2>2. QED
    BY <2>1 DEF Live
<1>3. \A n \in Node : /\ (Deregistering(n)' <=> Deregistering(n))
                      /\ (Between(n)' <=> Between(n))
  BY DEF Deregistering, Between
<1>4. gone \subseteq MeshKey /\ hidden \subseteq MeshKey /\ hidden' \subseteq MeshKey
  BY DEF StoreInv, TypeOK
<1>5. InTurn'
  BY DEF InTurn, Shape
<1>6. \A s \in Req : /\ req[s].pc # "idle" => req[s].node \in Node
                     /\ req[s].pc = "putMesh" => <<req[s].net, req[s].node>> \in MeshKey
  BY Keys DEF StoreInv, FlightsOK, FlightOK, CarriesRecord, Record
<1>7. OrderInv'
  <2> SUFFICES ASSUME NEW s \in Req, req[s].pc = "putMesh" PROVE InOrder(req[s])'
    BY DEF OrderInv, InOrder
  <2> DEFINE key == <<req[s].net, req[s].node>>
  <2>1. key \in MeshKey /\ InOrder(req[s])
    BY <1>6 DEF OrderInv
  <2>2. /\ Live(mesh[key])' => Live(mesh[key]) /\ mesh'[key] = mesh[key]
        /\ mesh'[key] \in {mesh[key], None}
    BY <1>1, <2>1
  <2>3. key' = key
    OBVIOUS
  <2> HIDE DEF key
  <2>4. QED
    BY <2>1, <2>2, <2>3 DEF InOrder, StaleHeartbeat, key
<1>8. \A k \in hidden' : ~Live(mesh[k]) /\ ~Live(proxy[k[2]])
  <2>1. \A k \in MeshKey : k \in KeysOf(k[2]) /\ k[2] \in Node
    BY Keys DEF KeysOf
  <2>2. QED
    BY <1>4, <2>1 DEF GoneInv, GoneAt
<1>9. \A n \in Node : GoneAt(n)'
  <2> SUFFICES ASSUME NEW n \in Node, NEW k \in KeysOf(n)
               PROVE  /\ k \in gone' \cup hidden' => ~Live(mesh[k])'
                      /\ k \in gone' /\ ~Deregistering(n)' => ~Live(proxy[n])'
                      /\ k \in hidden' => ~Live(proxy[n])'
    BY DEF GoneAt, KeysOf
  <2>1. k \in MeshKey /\ k[2] = n
    BY DEF KeysOf
  <2>2. GoneAt(n)
    BY DEF GoneInv
  <2>3. (Live(mesh[k])' => Live(mesh[k])) /\ (Live(proxy[n])' => Live(proxy[n]))
    BY <1>1, <1>2, <2>1
  <2>4. k \in hidden' => ~Live(mesh[k]) /\ ~Live(proxy[n])
    BY <1>8, <2>1
  <2>5. Deregistering(n)' <=> Deregistering(n)
    BY <1>3
  <2>6. /\ k \in gone => ~Live(mesh[k])
        /\ k \in gone /\ ~Deregistering(n) => ~Live(proxy[n])
    BY <2>2 DEF GoneAt
  <2>7. QED
    BY <2>3, <2>4, <2>5, <2>6
<1>10. \A s \in Req : Unaware(req[s])'
  <2> SUFFICES ASSUME NEW s \in Req PROVE Unaware(req[s])'
    OBVIOUS
  <2>1. Unaware(req[s]) /\ gone' \cup hidden' \subseteq gone \cup hidden
    BY DEF GoneInv
  <2>2. req[s].pc = "delProxy" => (Live(proxy[req[s].node])' => Live(proxy[req[s].node]))
    BY <1>2, <1>6
  <2>3. KeysOf(req[s].node)' = KeysOf(req[s].node)
    BY DEF KeysOf
  <2>4. (req[s].pc = "putMesh" /\ req[s].op = "meshHeartbeat" =>
            <<req[s].net, req[s].node>> \notin gone \cup hidden)'
    BY <2>1 DEF Unaware
  <2>5. (req[s].pc = "putProxy" /\ req[s].op \notin Registering =>
            (gone \cup hidden) \cap KeysOf(req[s].node) = {})'
    BY <2>1, <2>3 DEF Unaware
  <2>6. (req[s].pc = "delProxy" =>
           \A k \in gone \cap KeysOf(req[s].node) :
               k = <<req[s].net, req[s].node>> \/ ~Live(proxy[req[s].node]))'
    BY <2>1, <2>2, <2>3 DEF Unaware
  <2>7. QED
    BY <2>4, <2>5, <2>6 DEF Unaware
<1>11. ASSUME ~StoreMayFail PROVE MirrorInv'
  <2>1. ASSUME NEW c \in Config, Mirrors(c) PROVE Mirrors(c)'
    <3>1. c.publicRecord # None => <<c.publicRecord.networkId, c.id>> \in MeshKey
      BY Keys DEF Config, Record
    <3>2. QED
      BY <2>1, <3>1 DEF Mirrors
  <2>2. ASSUME NEW n \in Node, proxy'[n] # None, ~Between(n) PROVE Mirrors(proxy[n].val)'
    <3>1. Mirrors(proxy[n].val) /\ proxy[n].val \in Config /\ proxy'[n] = proxy[n]
      BY <1>11, <2>2 DEF MirrorInv, MirrorAt, StoreInv, ProxyOK, ProxyEntryOK, ConfigOK
    <3>2. \A c : c = proxy[n].val => Mirrors(c)'
      BY <2>1, <3>1
    <3>3. QED
      BY <3>1, <3>2 DEF Mirrors
  <2>3. ASSUME NEW s \in Req PROVE Faithful(req[s])'
    <3>1. Faithful(req[s])
      BY <1>11 DEF MirrorInv
    <3>2. ASSUME req[s].pc = "putProxy" PROVE Mirrors(req[s].cfg)'
      <4>1. Mirrors(req[s].cfg) /\ req[s].cfg \in Config
        BY <3>1, <3>2 DEF Faithful, StoreInv, FlightsOK, FlightOK, ConfigOK
      <4>2. \A c : c = req[s].cfg => Mirrors(c)'
        BY <2>1, <4>1
      <4>3. QED
        BY <4>2 DEF Mirrors
    <3>3. req[s].pc = "putMesh" => proxy'[req[s].node] \in {proxy[req[s].node], None}
      BY <1>6
    <3>4. QED
      BY <3>1, <3>2, <3>3 DEF Faithful
  <2>4. QED
    BY <1>3, <2>2, <2>3 DEF MirrorInv, MirrorAt
<1>12. QED
  BY <1>5, <1>7, <1>9, <1>10, <1>11 DEF GoneInv

-----------------------------------------------------------------------------
(* Each step of a handler keeps the invariant when clients wait for their  *)
(* answers.                                                                *)

\* What a request finds when it arrives: its node is not being served.
LEMMA Started ==
    ASSUME SerialClients, SerialInv, NEW r \in Req, NEW n \in Node, NEW op,
           MayStart(r, op, n)
    PROVE  /\ req[r] = Idle /\ Quiet(n) /\ ~Between(n) /\ ~Deregistering(n)
           /\ \A k \in KeysOf(n) :
                  k \in gone \cup hidden => ~Live(mesh[k]) /\ ~Live(proxy[n])
           /\ ~StoreMayFail => MirrorAt(n)
<1>1. req[r] = Idle /\ Quiet(n)
  BY DEF MayStart
<1>2. ~Between(n) /\ ~Deregistering(n)
  BY <1>1 DEF Quiet, Between, Deregistering
<1>3. QED
  BY <1>1, <1>2 DEF SerialInv, GoneInv, GoneAt, MirrorInv

\* What a handler finds when it goes on: nobody else is serving its node.
LEMMA Resumed ==
    ASSUME SerialInv, NEW r \in Req, req[r].pc # "idle"
    PROVE  /\ req[r].node \in Node
           /\ Shape(req[r]) /\ FlightOK(req[r]) /\ InOrder(req[r])
           /\ Unaware(req[r]) /\ GoneAt(req[r].node)
           /\ ~StoreMayFail => MirrorAt(req[r].node) /\ Faithful(req[r])
           /\ Between(req[r].node) <=> req[r].pc = "putProxy"
           /\ Deregistering(req[r].node) <=> req[r].pc = "delProxy"
<1>1. req[r].node \in Node /\ Shape(req[r])
  BY DEF SerialInv, InTurn, Shape
<1>2. \A s \in Req : req[s].node = req[r].node => s = r
  BY <1>1 DEF SerialInv, InTurn
<1>3. /\ Between(req[r].node) <=> req[r].pc = "putProxy"
      /\ Deregistering(req[r].node) <=> req[r].pc = "delProxy"
  BY <1>2 DEF Between, Deregistering
<1>4. QED
  BY <1>1, <1>3
  DEF SerialInv, StoreInv, FlightsOK, OrderInv, GoneInv, MirrorInv

\* The config under an entry that mirrors the mesh still does so when entries
\* of the mesh have been evicted.
LEMMA MirrorsEvicted ==
    ASSUME NEW c \in Config, c.id \in Node, Mirrors(c),
           \A k \in MeshKey : mesh'[k] \in {mesh[k], None}
    PROVE  Mirrors(c)'
<1>1. c.publicRecord # None => <<c.publicRecord.networkId, c.id>> \in MeshKey
  BY Keys DEF Config, Record
<1>2. QED
  BY <1>1 DEF Mirrors

LEMMA IdleSlot ==
    ASSUME NEW r \in Req, req'[r] = Idle
    PROVE  /\ Shape(req[r])' /\ InOrder(req[r])' /\ Unaware(req[r])'
           /\ Faithful(req[r])'
BY DEF Idle, Shape, InOrder, Unaware, Faithful

LEMMA RegisterSerial ==
    ASSUME SerialClients, SerialInv, StoreInv', NEW r \in Req, NEW n \in Node,
           NEW e, Register(r, n, e)
    PROVE  SerialInv'
<1>1. MayStart(r, "register", n) /\ req \in [Req -> Slot]
  BY DEF TypeOK, Register, SerialInv, StoreInv
<1>2. /\ req[r] = Idle /\ Quiet(n) /\ ~Between(n) /\ ~Deregistering(n)
      /\ \A k \in KeysOf(n) :
             k \in gone \cup hidden => ~Live(mesh[k]) /\ ~Live(proxy[n])
  BY <1>1, Started
<1>3. /\ req'[r].pc = "putProxy" /\ req'[r].node = n /\ req'[r].op = "register"
      /\ req'[r].cfg.publicRecord = None
      /\ \A s \in Req \ {r} : req'[s] = req[s]
  BY <1>1 DEF Register, Run
<1>4. UNCHANGED <<now, mesh, proxy, reader, gone, hidden>>
  BY DEF Register
<1>5. Serves(r, n)
  BY <1>2, <1>3, <1>4 DEF Serves
<1>6. Shape(req[r])' /\ InOrder(req[r])'
  BY <1>3 DEF Shape, InOrder
<1>7. Unaware(req[r])'
  BY <1>3 DEF Unaware, Registering
<1>8. GoneAt(n)'
  BY <1>2, <1>4 DEF GoneAt, Live, KeysOf
<1>9. Between(n)'
  BY <1>3 DEF Between
<1>10. MirrorAt(n)' /\ Faithful(req[r])'
  BY <1>3, <1>9 DEF MirrorAt, Faithful, Mirrors
<1>11. QED
  BY <1>5, <1>6, <1>7, <1>8, <1>10, RequestStep

LEMMA HeartbeatSerial ==
    ASSUME SerialClients, SerialInv, StoreInv', NEW r \in Req, NEW n \in Node,
           NEW e, Heartbeat(r, n, e)
    PROVE  SerialInv'
<1>1. MayStart(r, "heartbeat", n) /\ TypeOK /\ req \in [Req -> Slot]
  BY DEF TypeOK, Heartbeat, SerialInv, StoreInv
<1>2. /\ req[r] = Idle /\ Quiet(n) /\ ~Between(n) /\ ~Deregistering(n)
      /\ \A k \in KeysOf(n) :
             k \in gone \cup hidden => ~Live(mesh[k]) /\ ~Live(proxy[n])
      /\ ~StoreMayFail => MirrorAt(n)
  BY <1>1, Started
<1>3. UNCHANGED <<now, mesh, reader, gone, hidden>>
  BY DEF Heartbeat
<1>4. /\ proxy'[n] \in {proxy[n], None}
      /\ \A m \in Node : m # n => proxy'[m] = proxy[m]
  BY <1>1, Evicted DEF Heartbeat, TypeOK
<1>5. GoneAt(n)'
  BY <1>2, <1>3, <1>4 DEF GoneAt, Live, KeysOf
<1>6. ASSUME proxy[n] # None, ~StoreMayFail PROVE Mirrors(proxy[n].val)
  BY <1>2, <1>6 DEF MirrorAt
<1>7. CASE UNCHANGED req
  <2>1. Serves(r, n)
    BY <1>2, <1>3, <1>4, <1>7 DEF Serves
  <2>2. ~StoreMayFail => MirrorAt(n)'
    BY <1>3, <1>4, <1>6 DEF MirrorAt, Mirrors
  <2>3. QED
    BY <1>2, <1>5, <1>7, <2>1, <2>2, IdleSlot, RequestStep
<1>8. CASE /\ Live(proxy[n])
           /\ Run(r, "heartbeat", "putProxy", None, n, None, proxy[n].val,
                  HeartbeatTtl(e))
  <2>1. /\ req'[r].pc = "putProxy" /\ req'[r].node = n
        /\ req'[r].op = "heartbeat" /\ req'[r].cfg = proxy[n].val
        /\ \A s \in Req \ {r} : req'[s] = req[s]
    BY <1>1, <1>8 DEF Run
  <2>2. Serves(r, n)
    BY <1>2, <1>3, <1>4, <2>1 DEF Serves
  <2>3. Shape(req[r])' /\ InOrder(req[r])'
    BY <2>1 DEF Shape, InOrder
  <2>4. Unaware(req[r])'
    BY <1>2, <1>3, <1>8, <2>1 DEF Unaware, KeysOf
  <2>5. Between(n)'
    BY <2>1 DEF Between
  <2>6. ~StoreMayFail => MirrorAt(n)' /\ Faithful(req[r])'
    <3>1. ~StoreMayFail => Mirrors(req[r].cfg)'
      BY <1>3, <1>6, <1>8, <2>1 DEF Mirrors, Live
    <3>2. QED
      BY <2>1, <2>5, <3>1 DEF MirrorAt, Faithful
  <2>7. QED
    BY <1>5, <2>2, <2>3, <2>4, <2>6, RequestStep
<1>9. QED
  BY <1>7, <1>8 DEF Heartbeat

\* A verified record waits for its put; nothing is stored yet.
LEMMA RecordArrivesSerial ==
    ASSUME SerialClients, SerialInv, StoreInv', NEW r \in Req, NEW n \in Node,
           NEW rec, rec.nodeId = n,
           MeshRegister(r, rec) \/ MeshHeartbeatRecord(r, rec)
    PROVE  SerialInv'
<1>1. req \in [Req -> Slot] /\ \E op : MayStart(r, op, n)
  BY DEF TypeOK, MeshRegister, MeshHeartbeatRecord, SerialInv, StoreInv
<1>2. /\ req[r] = Idle /\ Quiet(n) /\ ~Between(n) /\ ~Deregistering(n)
      /\ \A k \in KeysOf(n) :
             k \in gone \cup hidden => ~Live(mesh[k]) /\ ~Live(proxy[n])
      /\ ~StoreMayFail => MirrorAt(n)
  BY <1>1, Started
<1>3. UNCHANGED <<now, mesh, proxy, reader, gone, hidden>>
  BY DEF MeshRegister, MeshHeartbeatRecord
<1>4. /\ \/ req'[r].pc = "getMesh" /\ req'[r].op = "meshRegister"
         \/ req'[r].pc = "verified" /\ req'[r].op = "meshHeartbeatRecord"
      /\ req'[r].node = n
      /\ \A s \in Req \ {r} : req'[s] = req[s]
  BY <1>1 DEF MeshRegister, MeshHeartbeatRecord, Run
<1>5. Serves(r, n)
  BY <1>2, <1>3, <1>4 DEF Serves
<1>6. Shape(req[r])' /\ InOrder(req[r])' /\ Unaware(req[r])' /\ Faithful(req[r])'
  BY <1>4 DEF Shape, InOrder, Unaware, Faithful
<1>7. GoneAt(n)'
  BY <1>2, <1>3 DEF GoneAt, Live, KeysOf
<1>8. ~StoreMayFail => MirrorAt(n)'
  BY <1>2, <1>3 DEF MirrorAt, Mirrors
<1>9. QED
  BY <1>5, <1>6, <1>7, <1>8, RequestStep

\* A heartbeat without a record holds the record it has just read.
LEMMA MeshHeartbeatSerial ==
    ASSUME SerialClients, SerialInv, StoreInv', NEW r \in Req,
           NEW w \in Net \cup {None}, NEW n \in Node, NEW e,
           MeshHeartbeat(r, w, n, e)
    PROVE  SerialInv'
<1> DEFINE net == ResolveNet(w)
           key == <<net, n>>
<1>1. /\ MayStart(r, "meshHeartbeat", n)
      /\ req \in [Req -> Slot] /\ mesh \in [MeshKey -> Entry(Record) \cup {None}]
  BY DEF MeshHeartbeat, SerialInv, StoreInv, TypeOK
<1>2. /\ req[r] = Idle /\ Quiet(n) /\ ~Between(n) /\ ~Deregistering(n)
      /\ \A k \in KeysOf(n) :
             k \in gone \cup hidden => ~Live(mesh[k]) /\ ~Live(proxy[n])
      /\ ~StoreMayFail => MirrorAt(n)
  BY <1>1, Started
<1>3. UNCHANGED <<now, proxy, reader, gone, hidden>>
  BY DEF MeshHeartbeat
<1>4. net \in Net /\ key \in MeshKey /\ key \in KeysOf(n)
  BY DEF MeshHeartbeat, ResolveNet, MeshKey, KeysOf
<1>5. /\ \A k \in MeshKey : mesh'[k] \in {mesh[k], None}
      /\ \A k \in MeshKey : k[2] # n => mesh'[k] = mesh[k]
      /\ Live(mesh[key]) => mesh'[key] = mesh[key]
  BY <1>1, <1>4, Evicted, Keys DEF MeshHeartbeat
<1> HIDE DEF key, net
<1>6. GoneAt(n)'
  BY <1>2, <1>3, <1>5 DEF GoneAt, Live, KeysOf
<1>7. ~StoreMayFail => MirrorAt(n)'
  <2> SUFFICES ASSUME ~StoreMayFail, proxy[n] # None PROVE Mirrors(proxy[n].val)'
    BY <1>3 DEF MirrorAt
  <2>1. /\ Mirrors(proxy[n].val)
        /\ proxy[n].val \in Config /\ proxy[n].val.id = n
    BY <1>2 DEF MirrorAt, SerialInv, StoreInv, ProxyOK, ProxyEntryOK, ConfigOK
  <2>2. \A c : c = proxy[n].val => Mirrors(c)'
    BY <1>5, <2>1, MirrorsEvicted
  <2>3. QED
    BY <1>3, <2>2 DEF Mirrors
<1>8. CASE UNCHANGED req
  <2>1. Serves(r, n)
    BY <1>2, <1>3, <1>5, <1>8 DEF Serves
  <2>2. QED
    BY <1>2, <1>6, <1>7, <1>8, <2>1, IdleSlot, RequestStep
<1>9. ASSUME NEW t, Live(mesh[key]),
             Run(r, "meshHeartbeat", "putMesh", net, n, mesh[key].val, None, t)
      PROVE  SerialInv'
  <2>1. /\ req'[r].pc = "putMesh" /\ req'[r].node = n /\ req'[r].net = net
        /\ req'[r].op = "meshHeartbeat" /\ req'[r].rec = mesh[key].val
        /\ \A s \in Req \ {r} : req'[s] = req[s]
    BY <1>1, <1>9 DEF Run
  <2>2. Serves(r, n)
    BY <1>2, <1>3, <1>5, <2>1 DEF Serves
  <2>3. Shape(req[r])'
    BY <2>1 DEF Shape
  <2>4. InOrder(req[r])'
    BY <1>5, <1>9, <2>1 DEF InOrder, key
  <2>5. Unaware(req[r])'
    BY <1>2, <1>3, <1>4, <1>9, <2>1 DEF Unaware, key
  <2>6. ~StoreMayFail => Faithful(req[r])'
    <3> SUFFICES ASSUME ~StoreMayFail, proxy[n] # None,
                        proxy[n].val.publicRecord # None,
                        proxy[n].val.publicRecord.networkId = net
                 PROVE  proxy[n].val.publicRecord = mesh[key].val
      BY <1>3, <2>1 DEF Faithful
    <3>1. Mirrors(proxy[n].val) /\ proxy[n].val.id = n
      BY <1>2 DEF MirrorAt, SerialInv, StoreInv, ProxyOK, ProxyEntryOK, ConfigOK
    <3>2. mesh[key] # None
      BY <1>9 DEF Live
    <3>3. QED
      BY <3>1, <3>2 DEF Mirrors, key
  <2>7. QED
    BY <1>6, <1>7, <2>2, <2>3, <2>4, <2>5, <2>6, RequestStep
<1>10. QED
  BY <1>8, <1>9 DEF MeshHeartbeat, net, key

LEMMA MeshDeregisterSerial ==
    ASSUME SerialClients, SerialInv, StoreInv', NEW r \in Req,
           NEW w \in Net \cup {None}, NEW n \in Node, MeshDeregister(r, w, n)
    PROVE  SerialInv'
<1> DEFINE net == ResolveNet(w)
           key == <<net, n>>
<1>1. /\ MayStart(r, "meshDeregister", n)
      /\ req \in [Req -> Slot] /\ mesh \in [MeshKey -> Entry(Record) \cup {None}]
  BY DEF MeshDeregister, SerialInv, StoreInv, TypeOK
<1>2. /\ req[r] = Idle /\ Quiet(n) /\ ~Between(n) /\ ~Deregistering(n)
      /\ \A k \in KeysOf(n) :
             k \in gone \cup hidden => ~Live(mesh[k]) /\ ~Live(proxy[n])
      /\ ~StoreMayFail => MirrorAt(n)
  BY <1>1, Started
<1>3. UNCHANGED <<now, proxy, reader, hidden>>
  BY DEF MeshDeregister
<1>4. net \in Net /\ key \in MeshKey /\ key[2] = n
  BY DEF MeshDeregister, ResolveNet, MeshKey
<1>5. /\ mesh'[key] = None /\ gone' = gone \cup {key}
      /\ \A k \in MeshKey : k # key => mesh'[k] = mesh[k]
  BY <1>1, <1>4 DEF MeshDeregister
<1>6. /\ req'[r].pc = "delProxy" /\ req'[r].node = n /\ req'[r].net = net
      /\ \A s \in Req \ {r} : req'[s] = req[s]
  BY <1>1 DEF MeshDeregister, Run
<1>7. req'[r].node = n /\ <<req'[r].net, req'[r].node>> = key
  BY <1>6
<1> HIDE DEF key, net
<1>8. Serves(r, n)
  BY <1>2, <1>3, <1>4, <1>5, <1>6 DEF Serves
<1>9. Shape(req[r])' /\ InOrder(req[r])' /\ Faithful(req[r])'
  BY <1>6 DEF Shape, InOrder, Faithful
<1>10. Unaware(req[r])'
  BY <1>2, <1>3, <1>5, <1>6, <1>7 DEF Unaware, KeysOf, Live
<1>11. Deregistering(n)'
  BY <1>6 DEF Deregistering
<1>12. GoneAt(n)'
  BY <1>2, <1>3, <1>5, <1>11 DEF GoneAt, Live, KeysOf
<1>13. ~StoreMayFail => MirrorAt(n)'
  <2> SUFFICES ASSUME ~StoreMayFail, proxy[n] # None PROVE Mirrors(proxy[n].val)'
    BY <1>3 DEF MirrorAt
  <2>1. /\ Mirrors(proxy[n].val)
        /\ proxy[n].val \in Config /\ proxy[n].val.id = n
    BY <1>2 DEF MirrorAt, SerialInv, StoreInv, ProxyOK, ProxyEntryOK, ConfigOK
  <2>2. \A k \in MeshKey : mesh'[k] \in {mesh[k], None}
    BY <1>5
  <2>3. \A c : c = proxy[n].val => Mirrors(c)'
    BY <2>1, <2>2, MirrorsEvicted
  <2>4. QED
    BY <1>3, <2>3 DEF Mirrors
<1>14. QED
  BY <1>8, <1>9, <1>10, <1>12, <1>13, RequestStep

LEMMA DeleteSerial ==
    ASSUME SerialClients, SerialInv, StoreInv', NEW r \in Req, NEW n \in Node,
           Delete(r, n)
    PROVE  SerialInv'
<1>1. MayStart(r, "delete", n) /\ proxy \in [Node -> Entry(Config) \cup {None}]
  BY DEF Delete, SerialInv, StoreInv, TypeOK
<1>2. /\ req[r] = Idle /\ Quiet(n) /\ ~Between(n) /\ ~Deregistering(n)
      /\ \A k \in KeysOf(n) :
             k \in gone \cup hidden => ~Live(mesh[k]) /\ ~Live(proxy[n])
  BY <1>1, Started
<1>3. UNCHANGED <<now, mesh, req, reader, gone, hidden>>
  BY DEF Delete
<1>4. proxy'[n] = None /\ \A m \in Node : m # n => proxy'[m] = proxy[m]
  BY <1>1 DEF Delete
<1>5. Serves(r, n)
  BY <1>2, <1>3, <1>4 DEF Serves
<1>6. GoneAt(n)'
  BY <1>2, <1>3, <1>4 DEF GoneAt, Live, KeysOf
<1>7. MirrorAt(n)'
  BY <1>4 DEF MirrorAt
<1>8. QED
  BY <1>2, <1>3, <1>5, <1>6, <1>7, IdleSlot, RequestStep

\* Every request that arrives.
LEMMA ArriveSerial ==
    ASSUME SerialClients, SerialInv, StoreInv', NEW r \in Req, Arrive(r)
    PROVE  SerialInv'
<1>1. ASSUME NEW rec \in Record, MeshRegister(r, rec) \/ MeshHeartbeatRecord(r, rec)
      PROVE  SerialInv'
  <2>1. rec.nodeId \in Node
    BY DEF Record
  <2>2. QED
    BY <1>1, <2>1, RecordArrivesSerial
<1>2. QED
  BY <1>1, RegisterSerial, HeartbeatSerial, MeshHeartbeatSerial,
     MeshDeregisterSerial, DeleteSerial DEF Arrive

\* POST /mesh/register compares heartbeats before it puts its record.
LEMMA MeshRegisterCheckSerial ==
    ASSUME SerialInv, StoreInv', NEW r \in Req, NEW n \in Node,
           req[r].node = n, MeshRegisterCheck(r)
    PROVE  SerialInv'
<1> DEFINE rec == req[r].rec
           key == <<req[r].net, req[r].node>>
<1>1. /\ req \in [Req -> Slot] /\ mesh \in [MeshKey -> Entry(Record) \cup {None}]
      /\ req[r].pc = "getMesh"
  BY DEF MeshRegisterCheck, SerialInv, StoreInv, TypeOK
<1>2. /\ Shape(req[r]) /\ FlightOK(req[r]) /\ GoneAt(n)
      /\ ~StoreMayFail => MirrorAt(n)
      /\ ~Between(n) /\ ~Deregistering(n)
  BY <1>1, Resumed
<1>3. UNCHANGED <<now, proxy, reader, gone, hidden>>
  BY DEF MeshRegisterCheck
<1>4. key \in MeshKey /\ key[2] = n
  BY <1>1, <1>2, Keys DEF FlightOK, CarriesRecord, Record
<1>5. /\ \A k \in MeshKey : mesh'[k] \in {mesh[k], None}
      /\ \A k \in MeshKey : k[2] # n => mesh'[k] = mesh[k]
      /\ Live(mesh[key]) => mesh'[key] = mesh[key]
  BY <1>1, <1>4, Evicted DEF MeshRegisterCheck
<1>6. GoneAt(n)'
  <2>1. \A k \in KeysOf(n) : k \in MeshKey
    BY DEF KeysOf
  <2>2. Deregistering(n)' => FALSE
    BY <1>1, <1>2 DEF MeshRegisterCheck, Resume, Run, Finish, Idle, Deregistering
  <2>3. QED
    BY <1>2, <1>3, <1>5, <2>1, <2>2 DEF GoneAt, Live, KeysOf
<1>7. ~StoreMayFail => MirrorAt(n)'
  <2> SUFFICES ASSUME ~StoreMayFail, proxy[n] # None PROVE Mirrors(proxy[n].val)'
    BY <1>3 DEF MirrorAt
  <2>1. /\ Mirrors(proxy[n].val)
        /\ proxy[n].val \in Config /\ proxy[n].val.id = n
    BY <1>2 DEF MirrorAt, SerialInv, StoreInv, ProxyOK, ProxyEntryOK, ConfigOK
  <2>2. \A c : c = proxy[n].val => Mirrors(c)'
    BY <1>5, <2>1, MirrorsEvicted
  <2>3. QED
    BY <1>3, <2>2 DEF Mirrors
<1>8. CASE Finish(r)
  <2>1. req'[r] = Idle /\ \A s \in Req \ {r} : req'[s] = req[s]
    BY <1>1, <1>8 DEF Finish
  <2>2. Serves(r, n)
    BY <1>3, <1>5, <2>1 DEF Serves
  <2>3. QED
    BY <1>6, <1>7, <2>1, <2>2, IdleSlot, RequestStep
<1>9. ASSUME NEW t, ~StaleHeartbeat(mesh[key], rec), Resume(r, "putMesh", None, t)
      PROVE  SerialInv'
  <2>1. /\ req'[r].pc = "putMesh" /\ req'[r].node = n
        /\ req'[r].net = req[r].net /\ req'[r].rec = rec
        /\ req'[r].op = req[r].op
        /\ \A s \in Req \ {r} : req'[s] = req[s]
    BY <1>1, <1>9 DEF Resume, Run
  <2>2. req[r].op = "meshRegister"
    BY <1>1, <1>2 DEF Shape
  <2>3. Serves(r, n)
    BY <1>3, <1>5, <2>1 DEF Serves
  <2>4. Shape(req[r])' /\ Unaware(req[r])' /\ Faithful(req[r])'
    BY <2>1, <2>2 DEF Shape, Unaware, Faithful
  <2>5. InOrder(req[r])'
    <3>1. <<req'[r].net, req'[r].node>> = key
      BY <2>1
    <3>2. mesh'[key] \in {mesh[key], None}
      BY <1>4, <1>5
    <3> HIDE DEF key
    <3>3. QED
      BY <1>3, <1>9, <2>1, <2>2, <3>1, <3>2 DEF InOrder, StaleHeartbeat, Live
  <2>6. QED
    BY <1>6, <1>7, <2>3, <2>4, <2>5, RequestStep
<1>10. QED
  BY <1>8, <1>9 DEF MeshRegisterCheck

LEMMA MeshHeartbeatVerifiedSerial ==
    ASSUME SerialInv, StoreInv', NEW r \in Req, NEW n \in Node,
           req[r].node = n, MeshHeartbeatVerified(r)
    PROVE  SerialInv'
<1>1. req \in [Req -> Slot] /\ req[r].pc = "verified"
  BY DEF MeshHeartbeatVerified, SerialInv, StoreInv, TypeOK
<1>2. /\ Shape(req[r]) /\ GoneAt(n)
      /\ ~StoreMayFail => MirrorAt(n)
      /\ ~Between(n) /\ ~Deregistering(n)
  BY <1>1, Resumed
<1>3. UNCHANGED <<now, mesh, proxy, reader, gone, hidden>>
  BY DEF MeshHeartbeatVerified
<1>4. /\ req'[r].pc = "putMesh" /\ req'[r].node = n /\ req'[r].op = req[r].op
      /\ \A s \in Req \ {r} : req'[s] = req[s]
  BY <1>1 DEF MeshHeartbeatVerified, Resume, Run
<1>5. req[r].op = "meshHeartbeatRecord"
  BY <1>1, <1>2 DEF Shape
<1>6. Serves(r, n)
  BY <1>3, <1>4 DEF Serves
<1>7. Shape(req[r])' /\ InOrder(req[r])' /\ Unaware(req[r])' /\ Faithful(req[r])'
  BY <1>4, <1>5 DEF Shape, InOrder, Unaware, Faithful
<1>8. GoneAt(n)'
  BY <1>2, <1>3 DEF GoneAt, Live, KeysOf
<1>9. ~StoreMayFail => MirrorAt(n)'
  BY <1>2, <1>3 DEF MirrorAt, Mirrors
<1>10. QED
  BY <1>6, <1>7, <1>8, <1>9, RequestStep

\* The heartbeat without a record goes on with the proxy entry as it is now.
LEMMA MeshHeartbeatGetProxySerial ==
    ASSUME SerialInv, StoreInv', NEW r \in Req, NEW n \in Node,
           req[r].node = n, MeshHeartbeatGetProxy(r)
    PROVE  SerialInv'
<1>1. /\ req \in [Req -> Slot] /\ proxy \in [Node -> Entry(Config) \cup {None}]
      /\ req[r].pc = "getProxy"
  BY DEF MeshHeartbeatGetProxy, SerialInv, StoreInv, TypeOK
<1>2. /\ Shape(req[r]) /\ GoneAt(n)
      /\ ~StoreMayFail => MirrorAt(n)
      /\ ~Between(n) /\ ~Deregistering(n)
  BY <1>1, Resumed
<1>3. UNCHANGED <<now, mesh, reader, gone, hidden>>
  BY DEF MeshHeartbeatGetProxy
<1>4. /\ proxy'[n] \in {proxy[n], None}
      /\ \A m \in Node : m # n => proxy'[m] = proxy[m]
  BY <1>1, Evicted DEF MeshHeartbeatGetProxy
<1>5. GoneAt(n)'
  BY <1>2, <1>3, <1>4 DEF GoneAt, Live, KeysOf
<1>6. ASSUME proxy[n] # None, ~StoreMayFail PROVE Mirrors(proxy[n].val)
  BY <1>2, <1>6 DEF MirrorAt
<1>7. CASE Finish(r)
  <2>1. req'[r] = Idle /\ \A s \in Req \ {r} : req'[s] = req[s]
    BY <1>1, <1>7 DEF Finish
  <2>2. Serves(r, n)
    BY <1>3, <1>4, <2>1 DEF Serves
  <2>3. ~StoreMayFail => MirrorAt(n)'
    BY <1>3, <1>4, <1>6 DEF MirrorAt, Mirrors
  <2>4. QED
    BY <1>5, <2>1, <2>2, <2>3, IdleSlot, RequestStep
<1>8. ASSUME Live(proxy[n]), Resume(r, "putProxy", proxy[n].val, req[r].ttl)
      PROVE  SerialInv'
  <2>1. /\ req'[r].pc = "putProxy" /\ req'[r].node = n
        /\ req'[r].op = "meshHeartbeat" /\ req'[r].cfg = proxy[n].val
        /\ \A s \in Req \ {r} : req'[s] = req[s]
    BY <1>1, <1>2, <1>8 DEF Resume, Run, Shape
  <2>2. Serves(r, n)
    BY <1>3, <1>4, <2>1 DEF Serves
  <2>3. Shape(req[r])' /\ InOrder(req[r])'
    BY <2>1 DEF Shape, InOrder
  <2>4. Unaware(req[r])'
    BY <1>2, <1>3, <1>8, <2>1 DEF Unaware, KeysOf, GoneAt
  <2>5. Between(n)'
    BY <2>1 DEF Between
  <2>6. ~StoreMayFail => MirrorAt(n)' /\ Faithful(req[r])'
    <3>1. ~StoreMayFail => Mirrors(req[r].cfg)'
      BY <1>3, <1>6, <1>8, <2>1 DEF Mirrors, Live
    <3>2. QED
      BY <2>1, <2>5, <3>1 DEF MirrorAt, Faithful
  <2>7. QED
    BY <1>5, <2>2, <2>3, <2>4, <2>6, RequestStep
<1>9. QED
  BY <1>7, <1>8 DEF MeshHeartbeatGetProxy

\* The put under the mesh key.
LEMMA PutMeshSerial ==
    ASSUME SerialInv, StoreInv', NEW r \in Req, NEW n \in Node,
           req[r].node = n, PutMesh(r)
    PROVE  SerialInv'
<1> DEFINE net == req[r].net
           rec == req[r].rec
           key == <<req[r].net, req[r].node>>
<1>1. /\ req \in [Req -> Slot] /\ mesh \in [MeshKey -> Entry(Record) \cup {None}]
      /\ req[r].pc = "putMesh"
  BY DEF PutMesh, SerialInv, StoreInv, TypeOK
<1>2. /\ Shape(req[r]) /\ CarriesRecord(req[r]) /\ Unaware(req[r]) /\ GoneAt(n)
      /\ ~StoreMayFail => MirrorAt(n) /\ Faithful(req[r])
      /\ ~Between(n) /\ ~Deregistering(n)
  BY <1>1, Resumed DEF FlightOK
<1>3. UNCHANGED <<now, proxy, reader>>
  BY DEF PutMesh
<1>4. key \in MeshKey /\ key[2] = n /\ key = <<net, n>>
  BY <1>1, <1>2, Keys DEF CarriesRecord, Record
<1>5. /\ mesh'[key] # None => mesh'[key].val = rec
      /\ \A k \in MeshKey : k # key => mesh'[k] = mesh[k]
  BY <1>1, <1>4 DEF PutMesh, Stored
<1>6. /\ req'[r].node = n /\ req'[r].op = req[r].op
      /\ req'[r].pc \in {"getProxy", "putProxy"}
      /\ \A s \in Req \ {r} : req'[s] = req[s]
  BY <1>1 DEF PutMesh, Resume, Run
<1>7. Supersede(req[r].op, n)
  BY DEF PutMesh
<1>8. /\ hidden' \subseteq hidden /\ gone' \subseteq gone
      /\ \A k \in MeshKey : k[2] # n =>
             (k \in gone' <=> k \in gone) /\ (k \in hidden' <=> k \in hidden)
  BY <1>7 DEF Supersede, KeysOf
<1>9. Shape(req[r])' /\ InOrder(req[r])'
  BY <1>1, <1>2, <1>6 DEF Shape, InOrder, PutMesh, Resume, Run, Refreshes
<1> HIDE DEF key
<1>10. Serves(r, n)
  BY <1>3, <1>4, <1>5, <1>6, <1>8 DEF Serves
<1>11. CASE Refreshes(req[r].op)
  <2>1. req[r].op = "meshHeartbeat" /\ req'[r].pc = "getProxy"
    BY <1>1, <1>11 DEF PutMesh, Refreshes, Resume, Run
  <2>2. key \notin gone \cup hidden /\ gone' = gone /\ hidden' = hidden
    BY <1>1, <1>2, <1>7, <2>1 DEF Unaware, Supersede, Registering, key
  <2>3. Unaware(req[r])' /\ Faithful(req[r])'
    BY <2>1 DEF Unaware, Faithful
  <2>4. GoneAt(n)'
    <3>1. \A k \in KeysOf(n) : k \in gone \cup hidden => k # key /\ mesh'[k] = mesh[k]
      BY <1>5, <2>2 DEF KeysOf
    <3>2. ~Deregistering(n)'
      BY <1>2, <1>6 DEF Deregistering
    <3>3. QED
      BY <1>2, <1>3, <2>2, <3>1, <3>2 DEF GoneAt, Live, KeysOf
  <2>5. ~StoreMayFail => MirrorAt(n)'
    <3> SUFFICES ASSUME ~StoreMayFail, proxy[n] # None PROVE Mirrors(proxy[n].val)'
      BY <1>3 DEF MirrorAt
    <3> DEFINE c == proxy[n].val
    <3>1. Mirrors(c) /\ c \in Config /\ c.id = n
      BY <1>2 DEF MirrorAt, SerialInv, StoreInv, ProxyOK, ProxyEntryOK, ConfigOK
    <3>2. c.publicRecord # None /\ c.publicRecord.networkId = net
          => c.publicRecord = rec
      BY <1>1, <1>2, <2>1 DEF Faithful
    <3>3. c.publicRecord # None => <<c.publicRecord.networkId, n>> \in MeshKey
      BY <3>1, Keys DEF Config, Record
    <3>4. c.publicRecord # None /\ c.publicRecord.networkId = net
          => <<c.publicRecord.networkId, n>> = key
      BY <1>4
    <3>5. c.publicRecord # None /\ c.publicRecord.networkId # net
          => <<c.publicRecord.networkId, n>> # key
      BY <1>4
    <3>6. proxy'[n].val = c
      BY <1>3
    <3> HIDE DEF c
    <3>7. c.publicRecord # None /\ mesh'[<<c.publicRecord.networkId, c.id>>] # None
          => mesh'[<<c.publicRecord.networkId, c.id>>].val = c.publicRecord
      BY <1>5, <3>1, <3>2, <3>3, <3>4, <3>5 DEF Mirrors
    <3>8. QED
      BY <3>6, <3>7 DEF Mirrors
  <2>6. QED
    BY <1>9, <1>10, <2>3, <2>4, <2>5, RequestStep
<1>12. CASE ~Refreshes(req[r].op)
  <2>1. /\ req[r].op \in Registering
        /\ req'[r].pc = "putProxy" /\ req'[r].cfg = DeriveProxyConfig(rec)
    BY <1>1, <1>2, <1>12 DEF PutMesh, Refreshes, Resume, Run, Shape, Registering
  <2>2. \A k \in KeysOf(n) : k \notin gone' \cup hidden'
    BY <1>7, <2>1 DEF Supersede
  <2>3. Unaware(req[r])'
    BY <1>6, <2>1 DEF Unaware
  <2>4. GoneAt(n)'
    BY <2>2 DEF GoneAt, KeysOf
  <2>5. MirrorAt(n)'
    BY <1>6, <2>1 DEF MirrorAt, Between
  <2>6. Faithful(req[r])'
    <3>1. <<rec.networkId, rec.nodeId>> = key
      BY <1>2 DEF CarriesRecord, key
    <3>2. QED
      BY <1>5, <2>1, <3>1 DEF Faithful, Mirrors, DeriveProxyConfig
  <2>7. QED
    BY <1>9, <1>10, <2>3, <2>4, <2>5, <2>6, RequestStep
<1>13. QED
  BY <1>11, <1>12

\* The put under the proxy key is a handler's last step.
LEMMA PutProxySerial ==
    ASSUME SerialInv, StoreInv', NEW r \in Req, NEW n \in Node,
           req[r].node = n, PutProxy(r)
    PROVE  SerialInv'
<1>1. /\ req \in [Req -> Slot] /\ proxy \in [Node -> Entry(Config) \cup {None}]
      /\ req[r].pc = "putProxy"
  BY DEF PutProxy, SerialInv, StoreInv, TypeOK
<1>2. /\ Unaware(req[r]) /\ GoneAt(n)
      /\ ~StoreMayFail => Faithful(req[r])
  BY <1>1, Resumed
<1>3. UNCHANGED <<now, mesh, reader>>
  BY DEF PutProxy
<1>4. /\ proxy'[n].val = req[r].cfg
      /\ \A m \in Node : m # n => proxy'[m] = proxy[m]
  BY <1>1 DEF PutProxy, Stored
<1>5. req'[r] = Idle /\ \A s \in Req \ {r} : req'[s] = req[s]
  BY <1>1 DEF PutProxy, Finish
<1>6. Supersede(req[r].op, n)
  BY DEF PutProxy
<1>7. /\ hidden' \subseteq hidden /\ gone' \subseteq gone
      /\ \A k \in MeshKey : k[2] # n =>
             (k \in gone' <=> k \in gone) /\ (k \in hidden' <=> k \in hidden)
  BY <1>6 DEF Supersede, KeysOf
<1>8. Serves(r, n)
  BY <1>3, <1>4, <1>5, <1>7 DEF Serves
<1>9. \A k \in KeysOf(n) : k \notin gone' \cup hidden'
  BY <1>1, <1>2, <1>6 DEF Unaware, Supersede
<1>10. GoneAt(n)'
  BY <1>9 DEF GoneAt, KeysOf
<1>11. ~StoreMayFail => MirrorAt(n)'
  BY <1>1, <1>2, <1>3, <1>4 DEF MirrorAt, Faithful, Mirrors
<1>12. QED
  BY <1>5, <1>8, <1>10, <1>11, IdleSlot, RequestStep

LEMMA DeleteProxySerial ==
    ASSUME SerialInv, StoreInv', NEW r \in Req, NEW n \in Node,
           req[r].node = n, DeleteProxy(r)
    PROVE  SerialInv'
<1>1. /\ req \in [Req -> Slot] /\ proxy \in [Node -> Entry(Config) \cup {None}]
      /\ req[r].pc = "delProxy"
  BY DEF DeleteProxy, SerialInv, StoreInv, TypeOK
<1>2. GoneAt(n)
  BY <1>1, Resumed
<1>3. UNCHANGED <<now, mesh, reader, gone, hidden>>
  BY DEF DeleteProxy
<1>4. proxy'[n] = None /\ \A m \in Node : m # n => proxy'[m] = proxy[m]
  BY <1>1 DEF DeleteProxy
<1>5. req'[r] = Idle /\ \A s \in Req \ {r} : req'[s] = req[s]
  BY <1>1 DEF DeleteProxy, Finish
<1>6. Serves(r, n)
  BY <1>3, <1>4, <1>5 DEF Serves
<1>7. GoneAt(n)'
  BY <1>2, <1>3, <1>4 DEF GoneAt, Live, KeysOf
<1>8. MirrorAt(n)'
  BY <1>4 DEF MirrorAt
<1>9. QED
  BY <1>5, <1>6, <1>7, <1>8, IdleSlot, RequestStep

\* A handler that fails leaves what it has done; a deregistration that was not
\* answered is not one.
LEMMA InternalErrorSerial ==
    ASSUME SerialInv, StoreInv', NEW r \in Req, NEW n \in Node,
           req[r].node = n, InternalError(r)
    PROVE  SerialInv'
<1>1. req \in [Req -> Slot] /\ req[r].pc # "idle" /\ StoreMayFail
  BY DEF InternalError, SerialInv, StoreInv, TypeOK
<1>2. /\ Unaware(req[r]) /\ GoneAt(n)
      /\ Deregistering(n) <=> req[r].pc = "delProxy"
  BY <1>1, Resumed
<1>3. UNCHANGED <<now, mesh, proxy, reader, hidden>>
  BY DEF InternalError
<1>4. req'[r] = Idle /\ \A s \in Req \ {r} : req'[s] = req[s]
  BY <1>1 DEF InternalError, Finish
<1>5. gone' = IF req[r].pc = "delProxy" THEN gone \ {<<req[r].net, req[r].node>>}
              ELSE gone
  BY DEF InternalError
<1>6. \A k \in MeshKey : k[2] # n => (k \in gone' <=> k \in gone)
  BY <1>5
<1>7. Serves(r, n)
  BY <1>3, <1>4, <1>6 DEF Serves
<1>8. GoneAt(n)'
  <2> SUFFICES ASSUME NEW k \in KeysOf(n)
               PROVE  /\ k \in gone' \cup hidden' => ~Live(mesh[k])'
                      /\ k \in gone' => ~Live(proxy[n])'
                      /\ k \in hidden' => ~Live(proxy[n])'
    BY DEF GoneAt, KeysOf
  <2>1. k \in gone' => k \in gone
    BY <1>5
  <2>2. k \in gone' => ~Live(proxy[n])
    BY <1>2, <1>5, <2>1 DEF GoneAt, Unaware
  <2>3. QED
    BY <1>2, <1>3, <2>1, <2>2 DEF GoneAt, Live
<1>9. QED
  BY <1>1, <1>4, <1>7, <1>8, IdleSlot, RequestStep

\* Every step of a handler after an await.
LEMMA ContinueSerial ==
    ASSUME SerialInv, StoreInv', NEW r \in Req, Continue(r)
    PROVE  SerialInv'
<1>1. req[r].pc # "idle"
  BY DEF Continue, MeshRegisterCheck, MeshHeartbeatVerified,
         MeshHeartbeatGetProxy, PutMesh, PutProxy, DeleteProxy, InternalError
<1>2. \E n \in Node : req[r].node = n
  BY <1>1, Resumed
<1>3. PICK n \in Node : req[r].node = n
  BY <1>2
<1>4. QED
  BY <1>3, MeshRegisterCheckSerial, MeshHeartbeatVerifiedSerial,
     MeshHeartbeatGetProxySerial, PutMeshSerial, PutProxySerial,
     DeleteProxySerial, InternalErrorSerial DEF Continue

\* What is hidden from the list request is in neither family of keys.
LEMMA HiddenKeys ==
    ASSUME SerialInv, NEW k \in hidden
    PROVE  k \in MeshKey /\ k[2] \in Node /\ ~Live(mesh[k]) /\ ~Live(proxy[k[2]])
<1>1. k \in MeshKey
  BY DEF SerialInv, StoreInv, TypeOK
<1>2. k[2] \in Node /\ k \in KeysOf(k[2])
  BY <1>1, Keys DEF KeysOf
<1>3. QED
  BY <1>1, <1>2 DEF SerialInv, GoneInv, GoneAt

LEMMA ReadSerial ==
    ASSUME SerialInv, StoreInv', Read
    PROVE  SerialInv'
<1>1. /\ mesh \in [MeshKey -> Entry(Record) \cup {None}]
      /\ proxy \in [Node -> Entry(Config) \cup {None}]
      /\ now \in Nat /\ ListHidesDeregistered
  BY DEF SerialInv, StoreInv, TypeOK
<1>2. ASSUME NEW what, NEW store, List(what, store) PROVE SerialInv'
  <2>1. /\ req' = req /\ gone' = gone /\ now' = now /\ reader'.got = {}
        /\ hidden' = {k \in gone : ~Deregistering(k[2])}
    BY <1>2 DEF List
  <2>2. \A k \in MeshKey : mesh'[k] \in {mesh[k], None}
    BY <1>1, <1>2, Evicted DEF List
  <2>3. \A n \in Node : proxy'[n] \in {proxy[n], None}
    BY <1>1, <1>2, Evicted DEF List
  <2>4. ListHidesDeregistered'
    BY <2>1 DEF ListHidesDeregistered
  <2>5. QED
    BY <1>1, <2>1, <2>2, <2>3, <2>4, RestStep
<1>3. CASE ListAnswer
  <2>1. /\ req' = req /\ gone' = gone /\ now' = now /\ hidden' = {}
        /\ mesh' = mesh /\ proxy' = proxy
    BY <1>3 DEF ListAnswer
  <2>2. ListHidesDeregistered'
    BY <2>1 DEF ListHidesDeregistered
  <2>3. QED
    BY <1>1, <2>1, <2>2, RestStep
<1>4. ASSUME NEW key \in MeshKey, GetMeshRecord(key) PROVE SerialInv'
  <2>1. /\ req' = req /\ gone' = gone /\ now' = now /\ hidden' = hidden
        /\ proxy' = proxy /\ reader.what = "mesh" /\ reader'.what = "mesh"
    BY <1>4 DEF GetMeshRecord, Collect
  <2>2. \A k \in MeshKey : mesh'[k] \in {mesh[k], None}
    BY <1>1, <1>4, Evicted DEF GetMeshRecord
  <2>3. \A v \in reader'.got : v \in reader.got \/ (Live(mesh[key]) /\ v = mesh[key].val)
    BY <1>4 DEF GetMeshRecord, Collect
  <2>4. Live(mesh[key]) => key = <<mesh[key].val.networkId, mesh[key].val.nodeId>>
    BY DEF SerialInv, StoreInv, MeshOK, MeshEntryOK, Live
  <2>5. \A k \in hidden : ~Live(mesh[k])
    BY HiddenKeys
  <2>6. ListHidesDeregistered'
    BY <1>1, <2>1, <2>3, <2>4, <2>5 DEF ListHidesDeregistered
  <2>7. QED
    BY <1>1, <2>1, <2>2, <2>6, RestStep
<1>5. ASSUME NEW n \in Node, GetProxyConfig(n) PROVE SerialInv'
  <2>1. /\ req' = req /\ gone' = gone /\ now' = now /\ hidden' = hidden
        /\ mesh' = mesh /\ reader.what = "proxy" /\ reader'.what = "proxy"
    BY <1>5 DEF GetProxyConfig, Collect
  <2>2. \A m \in Node : proxy'[m] \in {proxy[m], None}
    BY <1>1, <1>5, Evicted DEF GetProxyConfig
  <2>3. \A v \in reader'.got : v \in reader.got \/ (Live(proxy[n]) /\ v = proxy[n].val)
    BY <1>5 DEF GetProxyConfig, Collect
  <2>4. Live(proxy[n]) => proxy[n].val.id = n
    BY DEF SerialInv, StoreInv, ProxyOK, ProxyEntryOK, ConfigOK, Live
  <2>5. \A k \in hidden : ~Live(proxy[k[2]])
    BY HiddenKeys
  <2>6. ListHidesDeregistered'
    BY <1>1, <2>1, <2>3, <2>4, <2>5 DEF ListHidesDeregistered
  <2>7. QED
    BY <1>1, <2>1, <2>2, <2>6, RestStep
<1>6. ASSUME NEW n \in Node, SubOne(n) PROVE SerialInv'
  <2>1. UNCHANGED <<now, mesh, req, reader, gone, hidden>>
    BY <1>6 DEF SubOne
  <2>2. \A m \in Node : proxy'[m] \in {proxy[m], None}
    BY <1>1, <1>6, Evicted DEF SubOne
  <2>3. ListHidesDeregistered'
    BY <1>1, <2>1 DEF ListHidesDeregistered
  <2>4. QED
    BY <1>1, <2>1, <2>2, <2>3, RestStep
<1>7. QED
  BY <1>2, <1>3, <1>4, <1>5, <1>6
  DEF Read, ListMeshRecords, ListProxyConfigs

LEMMA TickSerial ==
    ASSUME SerialInv, StoreInv', Tick \/ UNCHANGED vars
    PROVE  SerialInv'
<1>1. /\ UNCHANGED <<mesh, proxy, req, reader, gone, hidden>>
      /\ now \in Nat /\ now' \in Nat /\ now <= now'
  BY DEF Tick, vars, SerialInv, StoreInv, TypeOK
<1>2. ListHidesDeregistered'
  BY <1>1 DEF SerialInv, ListHidesDeregistered
<1>3. QED
  BY <1>1, <1>2, RestStep

LEMMA InitSerial == Init => SerialInv
<1> SUFFICES ASSUME Init PROVE SerialInv
  OBVIOUS
<1>1. \A r \in Req : req[r] = Idle
  BY DEF Init
<1>2. InTurn /\ OrderInv
  BY <1>1 DEF Idle, InTurn, Shape, OrderInv, InOrder
<1>3. GoneInv
  <2>1. \A n \in Node : GoneAt(n)
    BY DEF Init, GoneAt
  <2>2. \A r \in Req : Unaware(req[r])
    BY <1>1 DEF Idle, Unaware
  <2>3. QED
    BY <2>1, <2>2 DEF GoneInv
<1>4. MirrorInv
  BY <1>1 DEF Init, Idle, MirrorInv, MirrorAt, Faithful
<1>5. ListHidesDeregistered
  BY DEF Init, ListHidesDeregistered
<1>6. QED
  BY <1>2, <1>3, <1>4, <1>5, InitStore DEF SerialInv

LEMMA NextSerial ==
    ASSUME SerialClients
    PROVE  SerialInv /\ [Next]_vars => SerialInv'
<1> SUFFICES ASSUME SerialInv, [Next]_vars PROVE SerialInv'
  OBVIOUS
<1>1. StoreInv'
  BY NextStore DEF SerialInv
<1>2. QED
  BY <1>1, ArriveSerial, ContinueSerial, ReadSerial, TickSerial DEF Next

\* What the invariant is for.
LEMMA SerialInvImplies ==
    SerialInv => /\ DeregisteredStaysGone /\ ListHidesDeregistered
                 /\ ~StoreMayFail => ProxyMirrorsMesh
<1> SUFFICES ASSUME SerialInv
             PROVE  /\ DeregisteredStaysGone
                    /\ ~StoreMayFail => ProxyMirrorsMesh
  BY DEF SerialInv
<1>1. DeregisteredStaysGone
  <2>1. \A k \in gone : k \in MeshKey /\ k[2] \in Node /\ k \in KeysOf(k[2])
    BY Keys DEF SerialInv, StoreInv, TypeOK, KeysOf
  <2>2. QED
    BY <2>1 DEF SerialInv, GoneInv, GoneAt, DeregisteredStaysGone
<1>2. ASSUME ~StoreMayFail, NEW n \in Node, Quiet(n), Live(proxy[n]),
             proxy[n].val.publicRecord # None,
             Live(mesh[<<proxy[n].val.publicRecord.networkId, n>>])
      PROVE  mesh[<<proxy[n].val.publicRecord.networkId, n>>].val
                 = proxy[n].val.publicRecord
  <2>1. MirrorAt(n) /\ ~Between(n)
    BY <1>2 DEF SerialInv, MirrorInv, Between, Quiet
  <2>2. proxy[n].val.id = n
    BY <1>2 DEF SerialInv, StoreInv, ProxyOK, ProxyEntryOK, ConfigOK, Live
  <2>3. QED
    BY <1>2, <2>1, <2>2 DEF MirrorAt, Mirrors, Live
<1>3. QED
  BY <1>1, <1>2 DEF ProxyMirrorsMesh

\* The one step that replaces a mesh record by another is the put of a handler.
LEMMA MeshReplaced ==
    ASSUME SerialInv, [Next]_vars, NEW k \in MeshKey,
           mesh[k] # None, mesh'[k] # None, mesh'[k].val # mesh[k].val
    PROVE  \E r \in Req : /\ PutMesh(r) /\ k = <<req[r].net, req[r].node>>
                          /\ mesh'[k].val = req[r].rec
<1>1. mesh \in [MeshKey -> Entry(Record) \cup {None}]
  BY DEF SerialInv, StoreInv, TypeOK
<1>2. ~(mesh'[k] \in {mesh[k], None})
  OBVIOUS
<1>3. ASSUME NEW keys, mesh' = Evict(mesh, keys) PROVE FALSE
  BY <1>1, <1>2, <1>3, Evicted
<1>4. ~Read /\ ~Tick /\ ~UNCHANGED vars
  BY <1>2, <1>3
  DEF Read, List, ListMeshRecords, ListProxyConfigs, ListAnswer, GetMeshRecord,
      GetProxyConfig, SubOne, Tick, vars
<1>5. \A r \in Req : ~Arrive(r)
  <2> SUFFICES ASSUME NEW r \in Req, Arrive(r) PROVE FALSE
    OBVIOUS
  <2>1. ASSUME NEW w, NEW n, MeshDeregister(r, w, n) PROVE FALSE
    BY <1>1, <1>2, <2>1 DEF MeshDeregister
  <2>2. ASSUME NEW w, NEW n, NEW e, MeshHeartbeat(r, w, n, e) PROVE FALSE
    BY <1>3, <2>2 DEF MeshHeartbeat
  <2>3. mesh' = mesh => FALSE
    BY <1>2
  <2>4. QED
    BY <2>1, <2>2, <2>3
    DEF Arrive, Register, Heartbeat, MeshRegister, MeshHeartbeatRecord, Delete
<1>6. PICK r \in Req : Continue(r)
  BY <1>4, <1>5 DEF Next
<1>7. PutMesh(r)
  <2>1. ~MeshRegisterCheck(r)
    BY <1>3 DEF MeshRegisterCheck
  <2>2. mesh' = mesh => FALSE
    BY <1>2
  <2>3. QED
    BY <1>6, <2>1, <2>2
    DEF Continue, MeshHeartbeatVerified, MeshHeartbeatGetProxy, PutProxy,
        DeleteProxy, InternalError
<1>8. k = <<req[r].net, req[r].node>> /\ mesh'[k].val = req[r].rec
  <2>1. mesh' = [mesh EXCEPT ![<<req[r].net, req[r].node>>] =
                     Stored(req[r].rec, req[r].ttl)]
    BY <1>7 DEF PutMesh
  <2>2. k = <<req[r].net, req[r].node>>
    BY <1>1, <1>2, <2>1
  <2>3. mesh'[k] = Stored(req[r].rec, req[r].ttl)
    BY <1>1, <2>1, <2>2
  <2>4. QED
    BY <2>2, <2>3 DEF Stored
<1>9. QED
  BY <1>7, <1>8

\* That put compares heartbeats first, puts back what is there, or is a
\* heartbeat that carries a record.
LEMMA OrderStep ==
    ASSUME SerialInv, [Next]_vars, NEW k \in MeshKey, Live(mesh[k]), mesh'[k] # None,
           mesh'[k].val.heartbeatAt < mesh[k].val.heartbeatAt
    PROVE  \E r \in Req : /\ req[r].op = "meshHeartbeatRecord"
                          /\ req[r].rec = mesh'[k].val
<1>1. mesh[k] # None
  BY DEF Live
<1>2. mesh[k].val.heartbeatAt \in Nat
  BY <1>1 DEF SerialInv, StoreInv, MeshOK, MeshEntryOK, Entry, Record
<1>3. mesh'[k].val # mesh[k].val
  BY <1>2
<1>4. PICK r \in Req : /\ PutMesh(r) /\ k = <<req[r].net, req[r].node>>
                       /\ mesh'[k].val = req[r].rec
  BY <1>1, <1>3, MeshReplaced
<1>5. req[r].pc = "putMesh"
  BY <1>4 DEF PutMesh
<1>6. InOrder(req[r]) /\ Shape(req[r]) /\ CarriesRecord(req[r])
  BY <1>5, Resumed DEF FlightOK
<1>7. req[r].rec.heartbeatAt \in Nat
  BY <1>6 DEF CarriesRecord, Record
<1>8. req[r].op # "meshRegister"
  <2>1. req[r].op = "meshRegister" => ~(mesh[k].val.heartbeatAt > req[r].rec.heartbeatAt)
    BY <1>4, <1>5, <1>6 DEF InOrder, StaleHeartbeat
  <2>2. QED
    BY <1>2, <1>4, <1>7, <2>1
<1>9. req[r].op # "meshHeartbeat"
  BY <1>1, <1>3, <1>4, <1>5, <1>6 DEF InOrder
<1>10. QED
  BY <1>4, <1>5, <1>6, <1>8, <1>9 DEF Shape

-----------------------------------------------------------------------------
(* The theorems.                                                           *)

\* Every reachable state of the coordinator is well-typed.
THEOREM TypeCorrect == Spec => []TypeOK
BY InitStore, NextStore, StoreInvImplies, PTL DEF Spec

\* However requests interleave and whichever store operations fail, only
\* records that passed verifyPublicRecord are ever stored, each under its own
\* key: a handler keeps nothing else across its awaits.
THEOREM AdmittedOnly == Spec => []OnlyAdmittedRecords
BY InitStore, NextStore, StoreInvImplies, PTL DEF Spec

\* However requests interleave, no mesh entry outlives its last put by more
\* than the cap of ttlFromExpiresAt.
THEOREM LeaseBound == Spec => []MeshLeaseBounded
BY InitStore, NextStore, StoreInvImplies, PTL DEF Spec

\* However requests interleave, when no heartbeat body carries an expiresAt of
\* its own, the store keeps every record at least until the record expires: no
\* node drops out of /mesh/status while its signed record is still good.
THEOREM LeaseCovers ==
    ASSUME HeartbeatExps = {None}
    PROVE  Spec => []MeshLeaseCoversRecord
BY InitStore, NextStore, StoreInvImplies, PTL DEF Spec

\* When a client waits for the answer to one request about a node before it sends
\* the next, a stored record gives way to one with an older heartbeat only where
\* a client sent the older one in a heartbeat; store operations may fail.
THEOREM HeartbeatOrder ==
    ASSUME SerialClients
    PROVE  Spec => HeartbeatNeverRegresses
<1>1. SerialInv /\ [Next]_vars =>
      [\A k \in MeshKey :
           /\ Live(mesh[k]) /\ mesh'[k] # None
           /\ mesh'[k].val.heartbeatAt < mesh[k].val.heartbeatAt
           => \E r \in Req : /\ req[r].op = "meshHeartbeatRecord"
                             /\ req[r].rec = mesh'[k].val]_vars
  BY OrderStep
<1>2. QED
  BY <1>1, InitSerial, NextSerial, PTL DEF Spec, HeartbeatNeverRegresses

\* When a client waits for the answer to one request about a node before it sends
\* the next, no entry of a deregistered node comes back before a registration
\* puts it; store operations may fail.
THEOREM DeregisteredGone ==
    ASSUME SerialClients
    PROVE  Spec => []DeregisteredStaysGone
BY InitSerial, NextSerial, SerialInvImplies, PTL DEF Spec

\* Under the same assumption, a list request that reads the keys one at a time
\* never shows a node whose deregistration had been answered when it started.
THEOREM ListsHide ==
    ASSUME SerialClients
    PROVE  Spec => []ListHidesDeregistered
BY InitSerial, NextSerial, SerialInvImplies, PTL DEF Spec

\* Under the same assumption, and when no store operation fails between the two
\* puts of a request, /sub/all and /mesh/status agree about every node.
THEOREM ProxyMirrors ==
    ASSUME SerialClients, ~StoreMayFail
    PROVE  Spec => []ProxyMirrorsMesh
BY InitSerial, NextSerial, SerialInvImplies, PTL DEF Spec
=============================================================================
