----------------------------- MODULE Coordinator -----------------------------
(***************************************************************************)
(* The Cloudflare Worker coordinator, worker/src/index.ts.                 *)
(*                                                                         *)
(* A key/value store with expiring entries holds two families of keys,     *)
(*     mesh:{networkId}:{nodeId} -> PublicProxyRecord     (mesh)           *)
(*     proxy:{id}                -> ProxyConfig           (proxy)          *)
(* and every HTTP handler is a short program over it.  A handler is        *)
(* suspended at each await, so requests being served at the same time      *)
(* interleave between any two store operations; each slot of Req serves    *)
(* one request and req[r] is the local state of its handler.  One action   *)
(* is one store operation together with the code that follows it up to     *)
(* the next await.                                                         *)
(*                                                                         *)
(* Time is counted in units of the five-minute grace period.               *)
(***************************************************************************)
EXTENDS Integers, FiniteSets

CONSTANTS
    Net,            \* networkIds
    Node,           \* nodeIds; a legacy proxy id is drawn from the same set
    Req,            \* slots for the requests that are served concurrently
    Ops,            \* the endpoints clients call
    EnvNet,         \* env.NETWORK_ID, None when it is not set
    None,           \* null, undefined or an absent key
    MinTtl,         \*   60 s
    Grace,          \*  300 s
    DefaultTtl,     \* 3600 s
    MaxTtl,         \* 7200 s, the cap on a time to live
    MaxAhead,       \* 2 h, how far in the future a record may expire
    ExpTimes,       \* values of expiresAt that clients put in records
    HeartbeatExps,  \* values of expiresAt in heartbeat bodies (None: left out)
    HbTimes,        \* values of heartbeatAt that clients put in records
    MaxNow,         \* bound of the model: time stops here
    SerialClients,  \* requests about one node id never overlap
    PromptHandlers, \* no handler is still running when a time unit ends
    StoreMayFail    \* a store operation may throw

AllOps == {"register", "heartbeat", "meshRegister", "meshHeartbeatRecord",
           "meshHeartbeat", "meshDeregister", "delete", "list"}

ASSUME CoordinatorAssumption ==
    /\ Ops \subseteq AllOps
    /\ None \notin Net /\ None \notin Node
    /\ EnvNet \in Net \cup {None}
    /\ MinTtl \in Nat /\ Grace \in Nat /\ DefaultTtl \in Nat
    /\ MaxTtl \in Nat /\ MaxAhead \in Nat /\ MaxNow \in Nat
    /\ MinTtl <= MaxTtl /\ MaxAhead <= MaxTtl
    /\ ExpTimes \subseteq Nat
    /\ HeartbeatExps \subseteq Nat \cup {None}
    /\ HbTimes \subseteq Nat
    /\ SerialClients \in BOOLEAN /\ PromptHandlers \in BOOLEAN
    /\ StoreMayFail \in BOOLEAN

VARIABLES
    now,      \* Date.now()
    mesh,     \* the entries under "mesh:", each with its expiry, or None
    proxy,    \* the entries under "proxy:"
    req,      \* the handler each slot is running
    reader,   \* one list request: GET /sub/all, /proxies, /mesh/status, ...
    gone,     \* history: deregistered and not registered again since
    hidden    \* history: the part of gone that precedes the list request

vars == <<now, mesh, proxy, req, reader, gone, hidden>>

-----------------------------------------------------------------------------
(* What is stored.                                                         *)

\* "signed" abstracts every check of verifyPublicRecord that depends on the
\* record and the configuration alone: schema, identifiers, endpoint,
\* protocol, ttlSeconds, a known public key and a signature that verifies.
Record == [networkId : Net, nodeId : Node, heartbeatAt : HbTimes,
           expiresAt : ExpTimes, signed : BOOLEAN]

\* A proxy registered through /register carries no public record.
Config == [id : Node, expiresAt : ExpTimes \cup {None},
           publicRecord : Record \cup {None}]

MeshKey == Net \X Node

Entry(V) == [val : V, expires : Nat]

Stages == {"idle", "getMesh", "verified", "putMesh", "getProxy", "putProxy",
           "delProxy"}

Slot == [op : Ops \cup {"none"}, pc : Stages, net : Net \cup {None},
         node : Node \cup {None}, rec : Record \cup {None},
         cfg : Config \cup {None}, ttl : Nat]

Idle == [op |-> "none", pc |-> "idle", net |-> None, node |-> None,
         rec |-> None, cfg |-> None, ttl |-> 0]

NotReading == [what |-> "none", pending |-> {}, got |-> {}]

TypeOK ==
    /\ now \in 0..MaxNow
    /\ mesh \in [MeshKey -> Entry(Record) \cup {None}]
    /\ proxy \in [Node -> Entry(Config) \cup {None}]
    /\ req \in [Req -> Slot]
    /\ reader \in [what : {"none", "mesh", "proxy"},
                   pending : SUBSET (MeshKey \cup Node),
                   got : SUBSET (Record \cup Config)]
    /\ gone \subseteq MeshKey
    /\ hidden \subseteq MeshKey

-----------------------------------------------------------------------------
(* The store and its helpers.                                              *)

\* kvGet returns null for a missing key and for one past its expiry.
Live(e) == e # None /\ now <= e.expires

\* The in-memory store deletes an expired entry when a get or a list meets it.
Evict(store, keys) ==
    [k \in DOMAIN store |->
        IF k \in keys /\ ~Live(store[k]) THEN None ELSE store[k]]

Stored(v, ttl) == [val |-> v, expires |-> now + ttl]

Lesser(a, b) == IF a <= b THEN a ELSE b
Greater(a, b) == IF a >= b THEN a ELSE b

\* A lapsed expiresAt counts as a full default lifetime.
Remaining(e) == IF e > now THEN e - now ELSE DefaultTtl

\* Mutant: the wrong cap.
MutTtlCap(e) == Greater(MinTtl, Lesser(Remaining(e) + Grace, DefaultTtl))
\* ttlFromExpiresAt, for the /mesh endpoints.
TtlFromExpiresAt(e) == Greater(MinTtl, Lesser(Remaining(e) + Grace, MaxTtl))

\* /register computes its own; without expiresAt it is the default, no grace.
RegisterTtl(e) ==
    IF e = None THEN DefaultTtl ELSE Lesser(Remaining(e) + Grace, MaxTtl)

\* /heartbeat as well, with no cap, and no grace when expiresAt has lapsed.
HeartbeatTtl(e) ==
    IF e # None /\ e > now THEN (e - now) + Grace ELSE DefaultTtl

\* Mutant: records of other networks are let in.
MutVerifyAnyNetwork(rec) ==
    rec.signed /\ rec.expiresAt > now /\ rec.expiresAt - now <= MaxAhead
VerifyPublicRecord(rec) ==
    /\ EnvNet # None => rec.networkId = EnvNet
    /\ rec.signed
    /\ rec.expiresAt > now
    /\ rec.expiresAt - now <= MaxAhead

DeriveProxyConfig(rec) ==
    [id |-> rec.nodeId, expiresAt |-> rec.expiresAt, publicRecord |-> rec]

\* data.networkId || env.NETWORK_ID
ResolveNet(w) == IF w # None THEN w ELSE EnvNet

\* A client may be waiting for the answer to its previous request.
Quiet(n) == \A r \in Req : req[r].node # n
MayStart(r, op, n) ==
    /\ op \in Ops
    /\ req[r] = Idle
    /\ SerialClients => Quiet(n)

Finish(r) == req' = [req EXCEPT ![r] = Idle]

\* The handler runs on to its next store operation and waits for it there.
Run(r, op, pc, net, node, rec, cfg, ttl) ==
    req' = [req EXCEPT ![r] =
              [op |-> op, pc |-> pc, net |-> net, node |-> node,
               rec |-> rec, cfg |-> cfg, ttl |-> ttl]]
Resume(r, pc, cfg, ttl) ==
    Run(r, req[r].op, pc, req[r].net, req[r].node, req[r].rec, cfg, ttl)

\* Bookkeeping for the history variables: a put made for a request that
\* carries a registration supersedes an earlier deregistration.
Registering == {"register", "meshRegister", "meshHeartbeatRecord"}
KeysOf(n) == {k \in MeshKey : k[2] = n}
Supersede(op, n) ==
    IF op \in Registering
    THEN /\ gone' = gone \ KeysOf(n)
         /\ hidden' = hidden \ KeysOf(n)
    ELSE UNCHANGED <<gone, hidden>>

-----------------------------------------------------------------------------
(* POST /register and POST /heartbeat: the legacy proxy endpoints.         *)

Register(r, id, e) ==
    /\ MayStart(r, "register", id)
    /\ Run(r, "register", "putProxy", None, id, None,
           [id |-> id, expiresAt |-> e, publicRecord |-> None], RegisterTtl(e))
    /\ UNCHANGED <<now, mesh, proxy, reader, gone, hidden>>

\* 404 for an unknown proxy; otherwise the stored config is put back as it was
\* read, the expiresAt of the request only sets the time to live.
Heartbeat(r, id, e) ==
    /\ MayStart(r, "heartbeat", id)
    /\ proxy' = Evict(proxy, {id})
    /\ \/ ~Live(proxy[id]) /\ UNCHANGED req
       \/ /\ Live(proxy[id])
          /\ Run(r, "heartbeat", "putProxy", None, id, None, proxy[id].val,
                 HeartbeatTtl(e))
    /\ UNCHANGED <<now, mesh, reader, gone, hidden>>

(* POST /mesh/register: verify, refuse a heartbeat older than the stored   *)
(* one, put the record, put the proxy derived from it.                     *)

MeshRegister(r, rec) ==
    /\ MayStart(r, "meshRegister", rec.nodeId)
    /\ VerifyPublicRecord(rec)
    /\ Run(r, "meshRegister", "getMesh", rec.networkId, rec.nodeId, rec, None, 0)
    /\ UNCHANGED <<now, mesh, proxy, reader, gone, hidden>>

\* Mutant: compares the wrong timestamp.
MutStaleHeartbeat(e, rec) == Live(e) /\ e.val.expiresAt > rec.expiresAt
StaleHeartbeat(e, rec) == Live(e) /\ e.val.heartbeatAt > rec.heartbeatAt

MeshRegisterCheck(r) ==
    /\ req[r].pc = "getMesh"
    /\ LET rec == req[r].rec
           key == <<req[r].net, req[r].node>>
       IN  /\ mesh' = Evict(mesh, {key})
           /\ \/ StaleHeartbeat(mesh[key], rec) /\ Finish(r)
              \/ /\ ~StaleHeartbeat(mesh[key], rec)
                 /\ Resume(r, "putMesh", None, TtlFromExpiresAt(rec.expiresAt))
    /\ UNCHANGED <<now, proxy, reader, gone, hidden>>

(* POST /mesh/heartbeat with a record: verify, then put it.                *)

MeshHeartbeatRecord(r, rec) ==
    /\ MayStart(r, "meshHeartbeatRecord", rec.nodeId)
    /\ VerifyPublicRecord(rec)
    /\ Run(r, "meshHeartbeatRecord", "verified", rec.networkId, rec.nodeId, rec,
           None, 0)
    /\ UNCHANGED <<now, mesh, proxy, reader, gone, hidden>>

MeshHeartbeatVerified(r) ==
    /\ req[r].pc = "verified"
    /\ Resume(r, "putMesh", None, TtlFromExpiresAt(req[r].rec.expiresAt))
    /\ UNCHANGED <<now, mesh, proxy, reader, gone, hidden>>

(* POST /mesh/heartbeat without a record: extend the entries of a node.    *)

MeshHeartbeat(r, w, n, e) ==
    /\ MayStart(r, "meshHeartbeat", n)
    /\ ResolveNet(w) # None
    /\ LET old == mesh[<<ResolveNet(w), n>>]
       IN  /\ mesh' = Evict(mesh, {<<ResolveNet(w), n>>})
           /\ \/ ~Live(old) /\ UNCHANGED req
              \/ /\ Live(old)
                 /\ Run(r, "meshHeartbeat", "putMesh", ResolveNet(w), n, old.val,
                        None, TtlFromExpiresAt(IF e # None THEN e
                                               ELSE old.val.expiresAt))
    /\ UNCHANGED <<now, proxy, reader, gone, hidden>>

MeshHeartbeatGetProxy(r) ==
    /\ req[r].pc = "getProxy"
    /\ LET old == proxy[req[r].node]
       IN  /\ proxy' = Evict(proxy, {req[r].node})
           /\ \/ ~Live(old) /\ Finish(r)
              \/ Live(old) /\ Resume(r, "putProxy", old.val, req[r].ttl)
    /\ UNCHANGED <<now, mesh, reader, gone, hidden>>

(* The puts the handlers have in common.                                   *)

\* Mutant: a heartbeat with a record only refreshes the proxy entry.
MutRefreshes(op) == op \in {"meshHeartbeat", "meshHeartbeatRecord"}
\* A heartbeat without a record reads the proxy entry and puts it back.
Refreshes(op) == op = "meshHeartbeat"

PutMesh(r) ==
    /\ req[r].pc = "putMesh"
    /\ mesh' = [mesh EXCEPT ![<<req[r].net, req[r].node>>] =
                  Stored(req[r].rec, req[r].ttl)]
    /\ \/ /\ Refreshes(req[r].op)
          /\ Resume(r, "getProxy", None, req[r].ttl)
       \/ /\ ~Refreshes(req[r].op)
          /\ Resume(r, "putProxy", DeriveProxyConfig(req[r].rec), req[r].ttl)
    /\ Supersede(req[r].op, req[r].node)
    /\ UNCHANGED <<now, proxy, reader>>

\* Mutant: the proxy is always put with the default time to live.
MutPutProxy(r) ==
    /\ req[r].pc = "putProxy"
    /\ proxy' = [proxy EXCEPT ![req[r].node] = Stored(req[r].cfg, DefaultTtl)]
    /\ Finish(r)
    /\ Supersede(req[r].op, req[r].node)
    /\ UNCHANGED <<now, mesh, reader>>
PutProxy(r) ==
    /\ req[r].pc = "putProxy"
    /\ proxy' = [proxy EXCEPT ![req[r].node] = Stored(req[r].cfg, req[r].ttl)]
    /\ Finish(r)
    /\ Supersede(req[r].op, req[r].node)
    /\ UNCHANGED <<now, mesh, reader>>

(* POST /mesh/deregister and DELETE /delete/{id}.                          *)

\* Mutant: only the proxy key is deleted, as by DELETE /delete/{id}.
MutMeshDeregister(r, w, n) ==
    /\ MayStart(r, "meshDeregister", n)
    /\ ResolveNet(w) # None
    /\ Run(r, "meshDeregister", "delProxy", ResolveNet(w), n, None, None, 0)
    /\ gone' = gone \cup {<<ResolveNet(w), n>>}
    /\ UNCHANGED <<now, mesh, proxy, reader, hidden>>
MeshDeregister(r, w, n) ==
    /\ MayStart(r, "meshDeregister", n)
    /\ ResolveNet(w) # None
    /\ mesh' = [mesh EXCEPT ![<<ResolveNet(w), n>>] = None]
    /\ Run(r, "meshDeregister", "delProxy", ResolveNet(w), n, None, None, 0)
    /\ gone' = gone \cup {<<ResolveNet(w), n>>}
    /\ UNCHANGED <<now, proxy, reader, hidden>>

\* Mutant: only the mesh key is deleted.
MutDeleteProxy(r) ==
    /\ req[r].pc = "delProxy"
    /\ Finish(r)
    /\ UNCHANGED <<now, mesh, proxy, reader, gone, hidden>>
DeleteProxy(r) ==
    /\ req[r].pc = "delProxy"
    /\ proxy' = [proxy EXCEPT ![req[r].node] = None]
    /\ Finish(r)
    /\ UNCHANGED <<now, mesh, reader, gone, hidden>>

Delete(r, id) ==
    /\ MayStart(r, "delete", id)
    /\ proxy' = [proxy EXCEPT ![id] = None]
    /\ UNCHANGED <<now, mesh, req, reader, gone, hidden>>

\* A store operation throws: the handler's catch answers 500 and what was
\* already put or deleted stays.
InternalError(r) ==
    /\ StoreMayFail
    /\ req[r].pc # "idle"
    /\ Finish(r)
    /\ gone' = IF req[r].pc = "delProxy" THEN gone \ {<<req[r].net, req[r].node>>}
               ELSE gone
    /\ UNCHANGED <<now, mesh, proxy, reader, hidden>>

(* The list endpoints: kvList, then one kvGet per key found.               *)

Deregistering(n) == \E r \in Req : req[r].pc = "delProxy" /\ req[r].node = n

\* Listing either prefix deletes whatever has expired in the whole store.
List(what, store) ==
    /\ "list" \in Ops
    /\ reader = NotReading
    /\ reader' = [what |-> what, got |-> {},
                  pending |-> {k \in DOMAIN store : Live(store[k])}]
    /\ hidden' = {k \in gone : ~Deregistering(k[2])}
    /\ mesh' = Evict(mesh, MeshKey)
    /\ proxy' = Evict(proxy, Node)
    /\ UNCHANGED <<now, req, gone>>

ListMeshRecords == List("mesh", mesh)
ListProxyConfigs == List("proxy", proxy)

\* GET /mesh/status and /mesh/snapshot keep the records of the network only.
InNetwork(rec) == EnvNet # None => rec.networkId = EnvNet

Collect(key, found) ==
    reader' = [what |-> reader.what, pending |-> reader.pending \ {key},
               got |-> reader.got \cup found]

GetMeshRecord(key) ==
    /\ reader.what = "mesh" /\ key \in reader.pending
    /\ mesh' = Evict(mesh, {key})
    /\ Collect(key, IF Live(mesh[key]) /\ InNetwork(mesh[key].val)
                    THEN {mesh[key].val} ELSE {})
    /\ UNCHANGED <<now, proxy, req, gone, hidden>>

GetProxyConfig(id) ==
    /\ reader.what = "proxy" /\ id \in reader.pending
    /\ proxy' = Evict(proxy, {id})
    /\ Collect(id, IF Live(proxy[id]) THEN {proxy[id].val} ELSE {})
    /\ UNCHANGED <<now, mesh, req, gone, hidden>>

\* GET /sub/{id} reads one key and answers at once.
SubOne(id) ==
    /\ "list" \in Ops
    /\ proxy' = Evict(proxy, {id})
    /\ UNCHANGED <<now, mesh, req, reader, gone, hidden>>

ListAnswer ==
    /\ reader.what # "none" /\ reader.pending = {}
    /\ reader' = NotReading
    /\ hidden' = {}
    /\ UNCHANGED <<now, mesh, proxy, req, gone>>

Tick ==
    /\ now < MaxNow
    /\ PromptHandlers => \A r \in Req : req[r] = Idle
    /\ now' = now + 1
    /\ UNCHANGED <<mesh, proxy, req, reader, gone, hidden>>

-----------------------------------------------------------------------------

Init ==
    /\ now = 0
    /\ mesh = [k \in MeshKey |-> None]
    /\ proxy = [n \in Node |-> None]
    /\ req = [r \in Req |-> Idle]
    /\ reader = NotReading
    /\ gone = {}
    /\ hidden = {}

\* The first action of a handler: a request arrives.
Arrive(r) ==
    \/ \E n \in Node, e \in ExpTimes \cup {None} : Register(r, n, e)
    \/ \E n \in Node, e \in HeartbeatExps : Heartbeat(r, n, e)
    \/ \E rec \in Record : MeshRegister(r, rec) \/ MeshHeartbeatRecord(r, rec)
    \/ \E w \in Net \cup {None}, n \in Node, e \in HeartbeatExps :
           MeshHeartbeat(r, w, n, e)
    \/ \E w \in Net \cup {None}, n \in Node : MeshDeregister(r, w, n)
    \/ \E n \in Node : Delete(r, n)

\* The rest of it: what happens after an await.
Continue(r) ==
    \/ MeshRegisterCheck(r)
    \/ MeshHeartbeatVerified(r)
    \/ MeshHeartbeatGetProxy(r)
    \/ PutMesh(r)
    \/ PutProxy(r)
    \/ DeleteProxy(r)
    \/ InternalError(r)

Read ==
    \/ ListMeshRecords \/ ListProxyConfigs \/ ListAnswer
    \/ \E k \in MeshKey : GetMeshRecord(k)
    \/ \E n \in Node : GetProxyConfig(n) \/ SubOne(n)

Next == (\E r \in Req : Arrive(r) \/ Continue(r)) \/ Read \/ Tick

Spec == Init /\ [][Next]_vars

-----------------------------------------------------------------------------
(* Properties that hold however requests interleave.                       *)

\* Whatever the order in which handlers resume and whichever of them fail, the
\* record under mesh:{networkId}:{nodeId} is about that node of that network,
\* passed verifyPublicRecord, and does not expire further ahead than it allows;
\* the same goes for the public record inside a derived proxy config.
Admitted(rec) ==
    /\ rec.signed
    /\ EnvNet # None => rec.networkId = EnvNet
    /\ rec.expiresAt <= now + MaxAhead

OnlyAdmittedRecords ==
    /\ \A k \in MeshKey : mesh[k] # None =>
           /\ Admitted(mesh[k].val)
           /\ k = <<mesh[k].val.networkId, mesh[k].val.nodeId>>
    /\ \A n \in Node : proxy[n] # None =>
           /\ proxy[n].val.id = n
           /\ proxy[n].val.publicRecord # None =>
                  /\ Admitted(proxy[n].val.publicRecord)
                  /\ proxy[n].val.publicRecord.nodeId = n

\* No /mesh endpoint keeps a record for more than two hours past its last put:
\* the cap of ttlFromExpiresAt holds for lapsed and for far expiresAt alike.
MeshLeaseBounded ==
    \A k \in MeshKey : mesh[k] # None => mesh[k].expires <= now + MaxTtl

\* When heartbeats leave expiresAt out, the store never drops a mesh record
\* before the record itself says it has expired.
MeshLeaseCoversRecord ==
    \A k \in MeshKey : mesh[k] # None => mesh[k].expires >= mesh[k].val.expiresAt

(* Properties that need requests about one node to be served in turn.      *)

\* A signed record is replaced by one with an older heartbeat only where a client
\* sends the older one in a heartbeat, which no stored heartbeat is compared with.
HeartbeatNeverRegresses ==
    [][\A k \in MeshKey :
           /\ Live(mesh[k]) /\ mesh'[k] # None
           /\ mesh'[k].val.heartbeatAt < mesh[k].val.heartbeatAt
           => \E r \in Req : /\ req[r].op = "meshHeartbeatRecord"
                             /\ req[r].rec = mesh'[k].val]_vars

\* Between requests about a node, the record that /sub/all serves for it is the
\* one /mesh/status shows for its network, if that one is still there.
ProxyMirrorsMesh ==
    \A n \in Node : Quiet(n) /\ Live(proxy[n]) =>
        LET rec == proxy[n].val.publicRecord
        IN  rec # None /\ Live(mesh[<<rec.networkId, n>>]) =>
                mesh[<<rec.networkId, n>>].val = rec

\* Once /mesh/deregister has answered, neither key of the node comes back
\* before somebody registers it again.
DeregisteredStaysGone ==
    \A k \in gone :
        /\ ~Live(mesh[k])
        /\ ~Deregistering(k[2]) => ~Live(proxy[k[2]])

\* A list request that starts after a deregistration was answered never shows
\* the node, even though it reads the keys one at a time.
ListHidesDeregistered ==
    \A k \in hidden :
        \A v \in reader.got :
            IF reader.what = "mesh" THEN k # <<v.networkId, v.nodeId>>
            ELSE k[2] # v.id
=============================================================================
