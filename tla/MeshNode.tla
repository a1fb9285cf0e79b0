------------------------------ MODULE MeshNode ------------------------------
(***************************************************************************)
(* The libp2p process that runs beside a proxy, node/src/index.ts and      *)
(* node/src/announce.ts.  It signs a record of its proxy, announces itself *)
(* in the DHT, serves the record to whoever dials it, and repeats that on  *)
(* a timer.  A heartbeat awaits the announcement, which the timer does not *)
(* wait for: heartbeats overlap when an announcement takes longer than the *)
(* interval, and one may outlast the start of the shutdown.                *)
(*                                                                         *)
(* A peer is one run of the process.  Its records differ only in           *)
(* heartbeatAt, the time they were made, and expire Ttl later.             *)
(***************************************************************************)
EXTENDS Integers, FiniteSets

CONSTANTS
    Peer,               \* the processes, each with a libp2p identity of its own
    None,               \* an absent value
    HeartbeatInterval,  \* HEARTBEAT_INTERVAL_MS
    Ttl,                \* ttlMinutes, the life of a record
    MaxStart,           \* bound: from the first record to its being served
    MaxAnnounce,        \* bound: how long the announcement of a heartbeat takes
    MaxTime             \* bound of the model: the clock stops there

ASSUME MeshNodeAssumption ==
    /\ HeartbeatInterval \in Nat \ {0}
    /\ Ttl \in Nat
    /\ MaxStart \in Nat /\ MaxAnnounce \in Nat /\ MaxTime \in Nat
    /\ None \notin Nat

VARIABLES
    now,         \* the clock
    stage,       \* how far main, or shutdown, has come in each process
    announcing,  \* the records whose announcement is awaited
    server,      \* the record that the protocol handler captured, or None
    timer,       \* when the heartbeat timer fires next, None without a timer
    provides     \* external: the rendezvous keys the DHT lists the peer under

vars == <<now, stage, announcing, server, timer, provides>>

\* The rendezvous keys that are told apart: that of the record's protocol.  Nobody looks
\* up the one for all protocols, which each announcement provides as well.
Rendezvous == {"protocol"}

TypeOK ==
    /\ now \in Nat
    /\ stage \in [Peer -> {"off", "starting", "announcing", "running",
                           "stopping", "exited"}]
    /\ announcing \in [Peer -> SUBSET (0..now)]
    /\ server \in [Peer -> (0..now) \cup {None}]
    /\ timer \in [Peer -> (now..(now + HeartbeatInterval)) \cup {None}]
    /\ provides \in [Peer -> SUBSET Rendezvous]

ExpiresAt(heartbeatAt) == heartbeatAt + Ttl

\* Mutant: an interval in other units.
MutNextBeatSoon == now + 1
NextBeat == now + HeartbeatInterval

-----------------------------------------------------------------------------
(* main                                                                    *)

\* The process starts: it signs its first record, and then awaits startNode.
Start(p) ==
    /\ stage[p] = "off"
    /\ stage' = [stage EXCEPT ![p] = "starting"]
    /\ announcing' = [announcing EXCEPT ![p] = {now}]
    /\ UNCHANGED <<now, server, timer, provides>>

\* startNode resolves; it does so with no peer in sight if it has to.
Started(p) ==
    /\ stage[p] = "starting"
    /\ stage' = [stage EXCEPT ![p] = "announcing"]
    /\ UNCHANGED <<now, announcing, server, timer, provides>>

\* announceRecord waits for its calls of provide, which may fail.
Announce(p) == \E keys \in SUBSET Rendezvous :
    provides' = [provides EXCEPT ![p] = @ \cup keys]

StopRecordServer(s) == None
StartRecordServer(s, record) == IF s # None THEN s ELSE record

\* The first announcement is over: main starts the record server and the timer.
Announced(p) ==
    /\ stage[p] = "announcing"
    /\ Announce(p)
    /\ \E record \in announcing[p] :
           server' = [server EXCEPT ![p] = StartRecordServer(@, record)]
    /\ announcing' = [announcing EXCEPT ![p] = {}]
    /\ timer' = [timer EXCEPT ![p] = NextBeat]
    /\ stage' = [stage EXCEPT ![p] = "running"]
    /\ UNCHANGED now

-----------------------------------------------------------------------------
(* doHeartbeat                                                             *)

\* The timer fires: a fresh record, and its announcement.
DoHeartbeat(p) ==
    /\ timer[p] = now
    /\ announcing' = [announcing EXCEPT ![p] = @ \cup {now}]
    /\ timer' = [timer EXCEPT ![p] = NextBeat]
    /\ UNCHANGED <<now, stage, server, provides>>

\* Mutant: it is not stopped first, so it is not started either.
MutHeartbeatServer(s, record) == StartRecordServer(s, record)
\* The record server is stopped and started again with the new record.
HeartbeatServer(s, record) == StartRecordServer(StopRecordServer(s), record)

\* The announcement is over, whether provide failed or not.
HeartbeatAnnounced(p, record) ==
    /\ stage[p] \in {"running", "stopping"}
    /\ record \in announcing[p]
    /\ Announce(p)
    /\ announcing' = [announcing EXCEPT ![p] = @ \ {record}]
    /\ server' = [server EXCEPT ![p] = HeartbeatServer(@, record)]
    /\ UNCHANGED <<now, stage, timer>>

-----------------------------------------------------------------------------
(* shutdown, which a second signal enters again                            *)

Shutdown(p) ==
    /\ stage[p] \in {"running", "stopping"}
    /\ stage' = [stage EXCEPT ![p] = "stopping"]
    /\ timer' = [timer EXCEPT ![p] = None]
    /\ server' = [server EXCEPT ![p] = StopRecordServer(@)]
    /\ UNCHANGED <<now, announcing, provides>>

\* The end of the process: node.stop has resolved, main has thrown, a signal
\* came before there was a handler for it, or the runner is gone.  Nobody takes
\* the provider records out of the DHT.
Exit(p) ==
    /\ stage[p] \notin {"off", "exited"}
    /\ stage' = [stage EXCEPT ![p] = "exited"]
    /\ announcing' = [announcing EXCEPT ![p] = {}]
    /\ timer' = [timer EXCEPT ![p] = None]
    /\ server' = [server EXCEPT ![p] = None]
    /\ UNCHANGED <<now, provides>>

-----------------------------------------------------------------------------

\* A timer that is due fires, and an announcement ends, before time goes on.
Patience(p) == IF stage[p] \in {"starting", "announcing"} THEN MaxStart ELSE MaxAnnounce

Tick ==
    /\ now < MaxTime
    /\ \A p \in Peer : /\ timer[p] # now
                       /\ \A record \in announcing[p] : now < record + Patience(p)
    /\ now' = now + 1
    /\ UNCHANGED <<stage, announcing, server, timer, provides>>

Init ==
    /\ now = 0
    /\ stage = [p \in Peer |-> "off"]
    /\ announcing = [p \in Peer |-> {}]
    /\ server = [p \in Peer |-> None]
    /\ timer = [p \in Peer |-> None]
    /\ provides = [p \in Peer |-> {}]

PeerNext(p) ==
    \/ Start(p)
    \/ Started(p)
    \/ Announced(p)
    \/ DoHeartbeat(p)
    \/ \E record \in announcing[p] : HeartbeatAnnounced(p, record)
    \/ Shutdown(p)
    \/ Exit(p)

Next == Tick \/ \E p \in Peer : PeerNext(p)

Spec == Init /\ [][Next]_vars

\* Every await ends: startNode gives up waiting for peers after 10 seconds, and
\* announceRecord settles for whatever provide did.
Fairness == \A p \in Peer :
    /\ WF_vars(Started(p))
    /\ WF_vars(Announced(p))
    /\ WF_vars(DoHeartbeat(p))
    /\ \A record \in 0..MaxTime : WF_vars(HeartbeatAnnounced(p, record))

FairSpec == Spec /\ Fairness

-----------------------------------------------------------------------------
(* What a dialer can rely on.                                              *)

\* A running node always serves a record that has not expired, however its
\* heartbeats overlap, when a record lives longer than two announcements and
\* an interval.
ServesLiveRecord ==
    \A p \in Peer : stage[p] = "running" =>
        server[p] # None /\ now < ExpiresAt(server[p])

\* The record served is replaced by an older one only when the announcement of
\* the older one has taken an interval or more, and the next heartbeat has
\* overtaken it.
ServedNeverRegresses ==
    [][\A p \in Peer : server[p] # None /\ server'[p] # None =>
           server'[p] >= server[p] \/ now - server'[p] >= HeartbeatInterval]_vars

\* Every heartbeat of a node that keeps running reaches its record server, it
\* or a later one, even if announcements fail.
HeartbeatReachesServer ==
    \A p \in Peer, record \in 0..MaxTime :
        record \in announcing[p] ~>
            \/ server[p] # None /\ server[p] >= record
            \/ stage[p] \in {"stopping", "exited"}
=============================================================================
