---------------------------- MODULE GhostDetector ----------------------------
(***************************************************************************)
(* The ghost node scanner, tools/monitor/ghost-detector.ts.  It joins the  *)
(* DHT as a client and, for each protocol and each peer it is connected to *)
(* at that moment, gets the record of the peer and, once per peer, its     *)
(* tombstone.  A ghost is a peer whose record has expired while it has no  *)
(* tombstone.  Every get is an await, and meanwhile time goes on, records  *)
(* are put again, peers are buried and connections come and go; the time   *)
(* that records are compared with is taken once, before the first get.     *)
(***************************************************************************)
EXTENDS Integers, Sequences, FiniteSets

CONSTANTS
    Peer,
    None,      \* no record, no answer
    Ttl,       \* the life of a record that is put
    MaxTime    \* bound of the model: the clock stops there

ASSUME GhostDetectorAssumption ==
    /\ Ttl \in Nat /\ MaxTime \in Nat \ {0}
    /\ None \notin Nat /\ None \notin BOOLEAN /\ None \notin {"none", "some", "failed"}

Protocol == {"vless", "hysteria2"}
PROTOCOLS == <<"vless", "hysteria2">>

VARIABLES
    now,       \* the clock
    record,    \* external: expiresAt of the value under the key of a protocol and a
               \* peer, None when there is none
    buried,    \* external: the peers that have a tombstone
    linked     \* external: the peers the scanner is connected to

VARIABLES
    scan,      \* what the scanner does next
    scanTime,  \* now, as scanDHT has captured it
    protocols, \* the protocols still to be scanned
    peers,     \* the known peers still to be looked up for the first of them
    got,       \* the record whose peer's tombstone is awaited, or None
    tombstoneCache, results,
    ghosts     \* how the scan ended: "none", "some" or "failed", None before

VARIABLES
    early,     \* history: the peers that were buried when the scan began
    unseen,    \* history: the peers whose tombstone a get has failed to return
    steady     \* history: the ghosts from the beginning of the scan, which the
               \* scanner stayed connected to and whose record it got if it asked

dht == <<record, buried, linked>>
reading == <<scanTime, protocols, peers, got, tombstoneCache, results, ghosts>>
scanHistory == <<early, unseen, steady>>
ghostVars == <<dht, scan, reading, scanHistory>>

Key == Protocol \X Peer
Time == 0..(MaxTime + Ttl)
Result == [protocol : Protocol, peer : Peer, expiresAt : Time, tombstoned : BOOLEAN]

GhostTypeOK ==
    /\ record \in [Key -> Time \cup {None}]
    /\ buried \subseteq Peer /\ linked \subseteq Peer
    /\ scan \in {"off", "protocol", "record", "tombstone", "done"}
    /\ scanTime \in 0..now
    /\ protocols \in {<<>>, <<"hysteria2">>, PROTOCOLS}
    /\ peers \subseteq Peer
    /\ got \in Result \cup {None} /\ (scan = "tombstone" => got \in Result)
    /\ tombstoneCache \in [Peer -> BOOLEAN \cup {None}]
    /\ results \subseteq Result
    /\ \A r \in results : r.tombstoned = tombstoneCache[r.peer]
    /\ ghosts \in {"none", "some", "failed", None}
    /\ early \subseteq buried /\ unseen \subseteq Peer
    /\ steady \subseteq Key

-----------------------------------------------------------------------------
(* classifyPeer                                                            *)

\* Mutants: the tombstone does not matter; the last moment counts as alive.
MutClassifyPeer(r, t) == IF t < r.expiresAt THEN "alive" ELSE "ghost"
MutClassifyAtExpiry(r, t) ==
    IF t <= r.expiresAt THEN "alive"
    ELSE IF r.tombstoned THEN "stale" ELSE "ghost"
\* With --probe an alive peer that does not answer is shown as unreachable, which
\* no verdict depends on.
ClassifyPeer(r, t) ==
    IF t < r.expiresAt THEN "alive"
    ELSE IF r.tombstoned THEN "stale" ELSE "ghost"

IsGhost(r, t) == ClassifyPeer(r, t) = "ghost"

-----------------------------------------------------------------------------
(* The DHT                                                                 *)

Put(protocol, p) ==
    /\ record' = [record EXCEPT ![<<protocol, p>>] = now + Ttl]
    /\ steady' = steady \ {<<protocol, p>>}
    /\ UNCHANGED <<buried, linked, scan, reading, early, unseen>>

Bury(p) ==
    /\ buried' = buried \cup {p}
    /\ steady' = steady \ (Protocol \X {p})
    /\ UNCHANGED <<record, linked, scan, reading, early, unseen>>

Connect(p) ==
    /\ linked' = linked \cup {p}
    /\ UNCHANGED <<record, buried, scan, reading, early, unseen, steady>>

Disconnect(p) ==
    /\ linked' = linked \ {p}
    /\ steady' = steady \ (Protocol \X {p})
    /\ UNCHANGED <<record, buried, scan, reading, early, unseen>>

DhtStep ==
    \/ \E protocol \in Protocol, p \in Peer : Put(protocol, p)
    \/ \E p \in Peer \ buried : Bury(p)
    \/ \E p \in Peer \ linked : Connect(p)
    \/ \E p \in linked : Disconnect(p)

-----------------------------------------------------------------------------
(* scanDHT                                                                 *)

\* The node has started, and has had three seconds to meet peers.
BeginScan ==
    /\ scan = "off"
    /\ scan' = "protocol"
    /\ scanTime' = now
    /\ protocols' = PROTOCOLS
    /\ early' = buried
    /\ steady' = {k \in Key : /\ k[2] \in linked \ buried
                              /\ record[k] # None /\ record[k] <= now}
    /\ UNCHANGED <<dht, peers, got, tombstoneCache, results, ghosts, unseen>>

\* node.getPeers, once per protocol.
KnownPeers ==
    /\ scan = "protocol"
    /\ protocols # <<>>
    /\ peers' = linked
    /\ scan' = "record"
    /\ UNCHANGED <<dht, scanTime, protocols, got, tombstoneCache, results, ghosts, early,
                   unseen, steady>>

\* Mutant: the cache is not consulted.
MutCached(p) == None
Cached(p) == tombstoneCache[p]

\* What there is to be said of the record of p when it arrives.
PeerRecord(p, tombstoned) ==
    [protocol |-> Head(protocols), peer |-> p,
     expiresAt |-> record[<<Head(protocols), p>>], tombstoned |-> tombstoned]

\* The get of a record ends.  With no answer, or one that does not parse, the peer
\* is passed over.
GetRecord(p) ==
    /\ scan = "record"
    /\ p \in peers
    /\ peers' = peers \ {p}
    /\ \/ /\ steady' = steady \ {<<Head(protocols), p>>}
          /\ UNCHANGED <<scan, got, results>>
       \/ /\ record[<<Head(protocols), p>>] # None
          /\ IF Cached(p) = None
             THEN /\ scan' = "tombstone"
                  /\ got' = PeerRecord(p, FALSE)
                  /\ UNCHANGED results
             ELSE /\ results' = results \cup {PeerRecord(p, Cached(p))}
                  /\ UNCHANGED <<scan, got>>
          /\ UNCHANGED steady
    /\ UNCHANGED <<dht, scanTime, protocols, tombstoneCache, ghosts, early, unseen>>

\* The get of a tombstone ends; one that throws counts as no tombstone.
GetTombstone ==
    /\ scan = "tombstone"
    /\ \E throws \in BOOLEAN :
          LET tombstoned == ~throws /\ got.peer \in buried
          IN  /\ tombstoneCache' = [tombstoneCache EXCEPT ![got.peer] = tombstoned]
              /\ results' = results \cup
                    {[protocol |-> got.protocol, peer |-> got.peer,
                      expiresAt |-> got.expiresAt, tombstoned |-> tombstoned]}
              /\ unseen' = IF throws THEN unseen \cup {got.peer} ELSE unseen
    /\ got' = None
    /\ scan' = "record"
    /\ UNCHANGED <<dht, scanTime, protocols, peers, ghosts, early, steady>>

ProtocolScanned ==
    /\ scan = "record"
    /\ peers = {}
    /\ protocols' = Tail(protocols)
    /\ scan' = "protocol"
    /\ UNCHANGED <<dht, scanTime, peers, got, tombstoneCache, results, ghosts, early,
                   unseen, steady>>

\* main: the exit code is 1 for some, 0 for none.
EndScan ==
    /\ scan = "protocol"
    /\ protocols = <<>>
    /\ ghosts' = IF \E r \in results : IsGhost(r, scanTime) THEN "some" ELSE "none"
    /\ scan' = "done"
    /\ UNCHANGED <<dht, scanTime, protocols, peers, got, tombstoneCache, results, early,
                   unseen, steady>>

\* The node does not start, the bootstrap peer cannot be dialed, or the node does
\* not stop: the exit code is 2.
ScanFails ==
    /\ scan = "off" \/ (scan = "protocol" /\ protocols = <<>>)
    /\ ghosts' = "failed"
    /\ scan' = "done"
    /\ UNCHANGED <<dht, scanTime, protocols, peers, got, tombstoneCache, results, early,
                   unseen, steady>>

ScanStep ==
    \/ BeginScan
    \/ KnownPeers
    \/ \E p \in Peer : GetRecord(p)
    \/ GetTombstone
    \/ ProtocolScanned
    \/ EndScan
    \/ ScanFails

DhtInit ==
    /\ record \in [Key -> {1, None}]
    /\ buried \in SUBSET Peer /\ linked \in SUBSET Peer

ScanInit ==
    /\ scan = "off" /\ scanTime = 0 /\ protocols = <<>> /\ peers = {}
    /\ got = None
    /\ tombstoneCache = [p \in Peer |-> None]
    /\ results = {} /\ ghosts = None
    /\ early = {} /\ unseen = {} /\ steady = {}

-----------------------------------------------------------------------------

\* A scan that ends well has reported a ghost if there was one that the scanner was
\* connected to from its beginning to its end, whatever else happened meanwhile.
SteadyGhostsReported == ghosts = "none" => steady = {}

\* A peer that was buried before the scan is never reported as a ghost, unless a get
\* of its tombstone failed.
BuriedAreNoGhosts ==
    \A r \in results : IsGhost(r, scanTime) => r.peer \notin early \ unseen
=============================================================================
