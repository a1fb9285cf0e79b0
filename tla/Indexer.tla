------------------------------ MODULE Indexer ------------------------------
(***************************************************************************)
(* The DHT indexer, node/src/indexer.ts, with discover.ts and snapshot.ts, *)
(* over the mesh nodes of MeshNode.  It polls: for each protocol it finds  *)
(* the providers, dials them all at once, verifies what they answer and    *)
(* keeps one record per node; it mirrors the records to the Worker and     *)
(* publishes what is still alive as a snapshot.  Time goes on and nodes    *)
(* take steps at every await.                                              *)
(***************************************************************************)
EXTENDS MeshNode, Sequences, FiniteSetsExt

CONSTANTS
    NodeId,          \* node ids, the hash of a run and its endpoint
    Placements,      \* the ways the processes may belong to nodes: one that is
                     \* started again in a run keeps the node id
    Protocol,        \* the proxy protocol of each node
    WithKeyId,       \* the peers that are given MESH_PUBLIC_KEY_ID
    PollInterval     \* POLL_INTERVAL_SECONDS

ASSUME IndexerAssumption ==
    /\ Placements \subseteq [Peer -> NodeId]
    /\ Protocol \in [NodeId -> {"vless", "hysteria2"}]
    /\ WithKeyId \subseteq Peer
    /\ PollInterval \in Nat \ {0}

VARIABLES
    nodeIdOf,    \* the node of each process, which does not change
    phase,       \* where the poll loop is
    nextPoll,    \* when the next poll may start
    protocols,   \* the protocols the poll has still to discover
    dialing,     \* the providers whose record is awaited
    fetched,     \* the records they answered with
    discovered,  \* the verified records still to be mirrored
    allRecords,  \* the records of the poll so far
    snapshot,    \* the snapshot being published
    pinned,      \* external: the snapshots the IPFS node has pinned
    ipns,        \* external: the snapshot the IPNS name points to, or None
    steady       \* history: the peers that have run, and been listed, since the
                 \* poll began, and whose record it has not failed to get

meshVars == <<vars, nodeIdOf>>
pollVars == <<protocols, dialing, fetched, discovered, allRecords>>
storeVars == <<pinned, ipns>>
indexerVars == <<meshVars, phase, nextPoll, pollVars, snapshot, storeVars, steady>>

Record == [peer : Peer, heartbeatAt : 0..MaxTime]
Snapshot == [records : SUBSET Record, expiresAt : Nat]

IndexerTypeOK ==
    /\ TypeOK
    /\ nodeIdOf \in Placements
    /\ phase \in {"idle", "find", "fetch", "mirror", "snapshot", "add", "pin", "name"}
    /\ nextPoll \in Nat
    /\ protocols \in {<<>>, <<"hysteria2">>, <<"vless", "hysteria2">>}
    /\ dialing \subseteq Peer
    /\ fetched \subseteq Record /\ discovered \subseteq Record
    /\ allRecords \subseteq Record
    /\ allRecords # {} => phase \in {"find", "fetch", "mirror", "snapshot"}
    /\ snapshot \in Snapshot \cup {None} /\ ipns \in Snapshot \cup {None}
    /\ pinned \subseteq Snapshot
    /\ steady \subseteq Peer

RecordExpiresAt(r) == ExpiresAt(r.heartbeatAt)
IsRecordExpired(r) == RecordExpiresAt(r) <= now
Node(r) == nodeIdOf[r.peer]
ProtocolOf(p) == Protocol[nodeIdOf[p]]

-----------------------------------------------------------------------------
(* discoverAndVerify, once per protocol                                    *)

Poll ==
    /\ phase = "idle"
    /\ now >= nextPoll
    /\ nextPoll' = now + PollInterval
    /\ protocols' = <<"vless", "hysteria2">>
    /\ steady' = {p \in Peer : stage[p] = "running" /\ "protocol" \in provides[p]}
    /\ phase' = "find"
    /\ UNCHANGED <<meshVars, dialing, fetched, discovered, allRecords, snapshot,
                   storeVars>>

\* Mutant: looks the wrong rendezvous key up, the first protocol's each time.
MutProviders == {p \in Peer : "protocol" \in provides[p] /\ ProtocolOf(p) = "vless"}
Providers == {p \in Peer : "protocol" \in provides[p] /\ ProtocolOf(p) = Head(protocols)}

\* discoverProviders returns whom it has found when it ends or times out.
DiscoverProviders ==
    /\ phase = "find"
    /\ dialing' \in SUBSET Providers
    /\ fetched' = {}
    /\ steady' = steady \ (Providers \ dialing')
    /\ phase' = "fetch"
    /\ UNCHANGED <<meshVars, nextPoll, protocols, discovered, allRecords, snapshot,
                   storeVars>>

\* One of the dials ends: with the record the peer's handler captured, or null.
FetchRecord(p) ==
    /\ phase = "fetch"
    /\ p \in dialing
    /\ dialing' = dialing \ {p}
    /\ \/ /\ server[p] # None
          /\ fetched' = fetched \cup {[peer |-> p, heartbeatAt |-> server[p]]}
          /\ UNCHANGED steady
       \/ /\ steady' = IF server[p] = None THEN steady ELSE steady \ {p}
          /\ UNCHANGED fetched
    /\ UNCHANGED <<meshVars, phase, nextPoll, protocols, discovered, allRecords,
                   snapshot, storeVars>>

\* createPublicProxyRecord copies publicKeyId from the configuration.  The key
\* map of the indexer knows every key by its id, the hash of it by default.
PublicKeyId(r) == IF r.peer \in WithKeyId THEN r.peer ELSE ""
Verified(r) ==
    /\ ProtocolOf(r.peer) = Head(protocols)
    /\ ~IsRecordExpired(r)
    /\ PublicKeyId(r) \in Peer

\* Mutant: no deduplication.
MutDeduplicateByNodeId(records) == {records}
\* What may be kept of some records: one of the newest of each node.
DeduplicateByNodeId(records) ==
    {kept \in SUBSET records :
        \A r \in records : \E k \in kept :
            /\ \A other \in kept : Node(other) = Node(r) => other = k
            /\ Node(k) = Node(r) /\ k.heartbeatAt >= r.heartbeatAt}

VerifyRecords ==
    /\ phase = "fetch"
    /\ dialing = {}
    /\ discovered' \in DeduplicateByNodeId({r \in fetched : Verified(r)})
    /\ fetched' = {}
    /\ steady' = steady \ {r.peer : r \in {r \in fetched : IsRecordExpired(r)}}
    /\ phase' = "mirror"
    /\ UNCHANGED <<meshVars, nextPoll, protocols, dialing, allRecords, snapshot,
                   storeVars>>

-----------------------------------------------------------------------------
(* mirrorToWorker, once per record                                         *)

\* The answer of the Worker is only logged.
MirrorToWorker(r) ==
    /\ phase = "mirror"
    /\ r \in discovered
    /\ discovered' = discovered \ {r}
    /\ allRecords' = allRecords \cup {r}
    /\ UNCHANGED <<meshVars, phase, nextPoll, protocols, dialing, fetched, snapshot,
                   storeVars, steady>>

NextProtocol ==
    /\ phase = "mirror"
    /\ discovered = {}
    /\ protocols' = Tail(protocols)
    /\ phase' = IF Tail(protocols) = <<>> THEN "snapshot" ELSE "find"
    /\ UNCHANGED <<meshVars, nextPoll, dialing, fetched, discovered, allRecords,
                   snapshot, storeVars, steady>>

-----------------------------------------------------------------------------
(* publishSnapshotToIPFS                                                   *)

\* Mutant: it expires with the last of its records.
MutSnapshotExpiry(records) == Max({RecordExpiresAt(r) : r \in records})
SnapshotExpiry(records) == Min({RecordExpiresAt(r) : r \in records})

CreateSnapshot(records) ==
    [records |-> records, expiresAt |-> SnapshotExpiry(records)]

LiveRecords == {r \in allRecords : ~IsRecordExpired(r)}

\* Mutant: allRecords is declared outside the loop, and is never emptied.
MutNoRecords == allRecords
NoRecords == {}

\* The poll is complete; what has expired meanwhile is left out, and nothing is
\* published when nothing is left.
TakeSnapshot ==
    /\ phase = "snapshot"
    /\ IF LiveRecords = {}
       THEN phase' = "idle" /\ UNCHANGED snapshot
       ELSE phase' = "add" /\ snapshot' = CreateSnapshot(LiveRecords)
    /\ allRecords' = NoRecords
    /\ steady' = {}
    /\ UNCHANGED <<meshVars, nextPoll, protocols, dialing, fetched, discovered, storeVars>>

AddJSON ==
    /\ phase = "add"
    /\ \/ phase' = "pin" /\ UNCHANGED snapshot
       \/ phase' = "idle" /\ snapshot' = None
    /\ UNCHANGED <<meshVars, nextPoll, pollVars, storeVars, steady>>

\* Mutant: a failed pin is only logged.
MutAfterFailedPin == "name"
AfterFailedPin == "idle"

\* A call that fails may have been carried out all the same.
PinAdd ==
    /\ phase = "pin"
    /\ \/ phase' = "name" /\ pinned' = pinned \cup {snapshot}
       \/ phase' = AfterFailedPin /\ pinned' \in {pinned, pinned \cup {snapshot}}
    /\ snapshot' = IF phase' = "idle" THEN None ELSE snapshot
    /\ UNCHANGED <<meshVars, nextPoll, pollVars, ipns, steady>>

PublishIPNS ==
    /\ phase = "name"
    /\ phase' = "idle"
    /\ ipns' \in {snapshot, ipns}
    /\ snapshot' = None
    /\ UNCHANGED <<meshVars, nextPoll, pollVars, pinned, steady>>

NoPoll ==
    /\ phase' = "idle"
    /\ protocols' = <<>> /\ dialing' = {} /\ fetched' = {} /\ discovered' = {}
    /\ allRecords' = {} /\ snapshot' = None /\ steady' = {}

\* The verification throws, and the loop goes on with the next poll.
PollError ==
    /\ phase = "fetch" /\ dialing = {}
    /\ NoPoll
    /\ UNCHANGED <<meshVars, nextPoll, storeVars>>

\* The process ends and is started again: it polls at once.
Restart ==
    /\ NoPoll
    /\ nextPoll' = now
    /\ UNCHANGED <<meshVars, storeVars>>

-----------------------------------------------------------------------------

MeshStep ==
    /\ Next
    /\ steady' = {p \in steady : stage'[p] = "running"}
    /\ UNCHANGED <<nodeIdOf, phase, nextPoll, pollVars, snapshot, storeVars>>

IndexerInit ==
    /\ Init
    /\ nodeIdOf \in Placements
    /\ phase = "idle" /\ nextPoll = 0
    /\ protocols = <<>> /\ dialing = {} /\ fetched = {} /\ discovered = {}
    /\ allRecords = {}
    /\ snapshot = None /\ pinned = {} /\ ipns = None
    /\ steady = {}

IndexerNext ==
    \/ MeshStep
    \/ Poll
    \/ DiscoverProviders
    \/ \E p \in dialing : FetchRecord(p)
    \/ VerifyRecords
    \/ \E r \in discovered : MirrorToWorker(r)
    \/ NextProtocol
    \/ TakeSnapshot
    \/ AddJSON
    \/ PinAdd
    \/ PublishIPNS
    \/ PollError
    \/ Restart

IndexerSpec == IndexerInit /\ [][IndexerNext]_indexerVars

-----------------------------------------------------------------------------

\* A published snapshot that has not expired holds live records only, whatever
\* time the steps take that collect and publish it.
SnapshotHonest ==
    ipns # None /\ now < ipns.expiresAt => \A r \in ipns.records : ~IsRecordExpired(r)

\* A snapshot shows a node once, even while a process that was started again is
\* listed in the DHT beside its predecessor.
OneRecordPerNode ==
    ipns # None =>
        \A r, other \in ipns.records : Node(other) = Node(r) => other = r

\* The name never points to a snapshot that the IPFS node may drop.
NameIsPinned == ipns # None => ipns \in pinned

\* A poll finds every node that signs with a key id, runs and is listed in the DHT
\* from the beginning of the poll to its end, unless the lookup misses it, its dial
\* fails or the record it answers with expires on the way.
PollFindsSteadyPeers ==
    phase = "snapshot" =>
        \A p \in steady \cap WithKeyId : \E r \in allRecords : Node(r) = nodeIdOf[p]

\* When heartbeats do not overlap, the heartbeat that the published snapshots show
\* of a peer never goes back, although a poll keeps nothing of the one before.
SnapshotNeverRegresses ==
    [][\A r \in (IF ipns = None THEN {} ELSE ipns.records) :
           ipns' # None =>
               \A s \in ipns'.records : s.peer = r.peer => s.heartbeatAt >= r.heartbeatAt
      ]_indexerVars
=============================================================================
