---------------------------- MODULE IndexerProofs ----------------------------
(***************************************************************************)
(* Proofs about MeshNode and about Indexer over it, for any processes,     *)
(* nodes, protocols, intervals, lives of records and bounds, with every    *)
(* call and the indexer failing anywhere.                                  *)
(***************************************************************************)
EXTENDS Indexer, WellFoundedInduction, TLAPS

(***************************************************************************)
(* The mesh nodes by themselves, for any peers, interval, life of a record *)
(* and bounds on announcements.                                            *)
(***************************************************************************)

LEMMA MeshTypeStep == TypeOK /\ [Next]_vars => TypeOK'
<1> USE MeshNodeAssumption
<1> SUFFICES ASSUME TypeOK, [Next]_vars PROVE TypeOK'
  OBVIOUS
<1> USE DEF TypeOK
<1>1. CASE Tick
  <2>1. now' \in Nat /\ now' = now + 1
    BY <1>1 DEF Tick
  <2>2. announcing' \in [Peer -> SUBSET (0..now')]
    <3>1. \A S \in SUBSET (0..now) : S \in SUBSET (0..now')
      BY <2>1
    <3> QED
      BY <1>1, <3>1 DEF Tick
  <2>3. server' \in [Peer -> (0..now') \cup {None}]
    <3>1. \A x \in (0..now) \cup {None} : x \in (0..now') \cup {None}
      BY <2>1
    <3> QED
      BY <1>1, <3>1 DEF Tick
  <2>4. timer' \in [Peer -> (now'..(now' + HeartbeatInterval)) \cup {None}]
    <3>1. \A p \in Peer : timer[p] # now
      BY <1>1 DEF Tick
    <3>2. \A x \in (now..(now + HeartbeatInterval)) \cup {None} :
            x # now => x \in (now'..(now' + HeartbeatInterval)) \cup {None}
      BY <2>1
    <3> QED
      BY <1>1, <3>1, <3>2 DEF Tick
  <2> QED
    BY <1>1, <2>1, <2>2, <2>3, <2>4 DEF Tick
<1>2. ASSUME NEW p \in Peer, PeerNext(p) PROVE TypeOK'
  <2>1. CASE Start(p)
    BY <2>1 DEF Start
  <2>2. CASE Started(p)
    BY <2>2 DEF Started
  <2>3. CASE Announced(p)
    BY <2>3 DEF Announced, Announce, StartRecordServer, NextBeat
  <2>4. CASE DoHeartbeat(p)
    BY <2>4 DEF DoHeartbeat, NextBeat
  <2>5. CASE \E record \in announcing[p] : HeartbeatAnnounced(p, record)
    BY <2>5 DEF HeartbeatAnnounced, Announce, HeartbeatServer,
                StartRecordServer,
                StopRecordServer
  <2>6. CASE Shutdown(p)
    BY <2>6 DEF Shutdown, StopRecordServer
  <2>7. CASE Exit(p)
    BY <2>7 DEF Exit
  <2> QED
    BY <1>2, <2>1, <2>2, <2>3, <2>4, <2>5, <2>6, <2>7 DEF PeerNext
<1>3. CASE UNCHANGED vars
  BY <1>3 DEF vars
<1> QED
  BY <1>1, <1>2, <1>3 DEF Next

LEMMA MeshTyped ==
  ASSUME TypeOK, Next, now <= MaxTime
  PROVE  TypeOK' /\ now' <= MaxTime /\ now <= now'
<1>1. TypeOK'
  BY MeshTypeStep
<1>2. now' <= MaxTime /\ now <= now'
  BY MeshNodeAssumption
     DEF Next, Tick, PeerNext, Start, Started, Announced,
         DoHeartbeat, HeartbeatAnnounced, Shutdown, Exit,
         TypeOK
<1>3. QED
  BY <1>1, <1>2

\* A node serves a record from the moment it runs, and no key is ever taken away.
LEMMA MeshServes ==
  ASSUME TypeOK, Next,
         \A p \in Peer : stage[p] = "running" => server[p] # None
  PROVE  /\ \A p \in Peer : stage'[p] = "running" => server'[p] # None
         /\ \A p \in Peer : provides[p] \subseteq provides'[p]
<1> USE MeshNodeAssumption DEF TypeOK
<1>1. CASE Tick
  BY <1>1 DEF Tick
<1>2. ASSUME NEW p \in Peer, PeerNext(p)
      PROVE  /\ \A q \in Peer : stage'[q] = "running" => server'[q] # None
             /\ \A q \in Peer : provides[q] \subseteq provides'[q]
  <2>1. CASE Start(p)
    BY <2>1 DEF Start
  <2>2. CASE Started(p)
    BY <2>2 DEF Started
  <2>3. CASE Announced(p)
    BY <2>3 DEF Announced, Announce, StartRecordServer
  <2>4. CASE DoHeartbeat(p)
    BY <2>4 DEF DoHeartbeat
  <2>5. CASE \E record \in announcing[p] : HeartbeatAnnounced(p, record)
    BY <2>5 DEF HeartbeatAnnounced, Announce, HeartbeatServer,
                StartRecordServer, StopRecordServer
  <2>6. CASE Shutdown(p)
    BY <2>6 DEF Shutdown
  <2>7. CASE Exit(p)
    BY <2>7 DEF Exit
  <2>8. QED
    BY <1>2, <2>1, <2>2, <2>3, <2>4, <2>5, <2>6, <2>7 DEF PeerNext
<1>3. QED
  BY <1>1, <1>2 DEF Next

(* The stage of a process and its timer and announcements go together, and *)
(* no announcement takes longer than its bound.                            *)
Stages ==
    \A p \in Peer :
        /\ timer[p] # None <=> stage[p] = "running"
        /\ stage[p] \notin {"running", "stopping"} => server[p] = None
        /\ \A r \in announcing[p] : now <= r + Patience(p)

LEMMA StagesStep == TypeOK /\ Stages /\ [Next]_vars => Stages'
<1> USE MeshNodeAssumption
<1> SUFFICES ASSUME TypeOK, Stages, [Next]_vars PROVE Stages'
  OBVIOUS
<1> USE DEF TypeOK, Stages, Patience
<1>1. CASE Tick
  <2>1. now \in Nat /\ now' = now + 1
    BY <1>1 DEF Tick
  <2>2. ASSUME NEW p \in Peer, NEW r \in announcing[p] PROVE now' <= r + Patience(p)
    <3>1. now < r + Patience(p) /\ r \in Nat
      BY <1>1 DEF Tick
    <3> QED
      BY <2>1, <3>1
  <2> QED
    BY <1>1, <2>2 DEF Tick
<1>2. ASSUME NEW p \in Peer, PeerNext(p) PROVE Stages'
  <2>1. CASE Start(p)
    BY <2>1 DEF Start
  <2>2. CASE Started(p)
    BY <2>2 DEF Started
  <2>3. CASE Announced(p)
    BY <2>3 DEF Announced, NextBeat
  <2>4. CASE DoHeartbeat(p)
    <3>1. timer[p] # None /\ now + HeartbeatInterval # None /\ stage[p] = "running"
      BY <2>4 DEF DoHeartbeat
    <3> QED
      BY <2>4, <3>1 DEF DoHeartbeat, NextBeat
  <2>5. CASE \E record \in announcing[p] : HeartbeatAnnounced(p, record)
    BY <2>5 DEF HeartbeatAnnounced
  <2>6. CASE Shutdown(p)
    BY <2>6 DEF Shutdown
  <2>7. CASE Exit(p)
    BY <2>7 DEF Exit
  <2> QED
    BY <1>2, <2>1, <2>2, <2>3, <2>4, <2>5, <2>6, <2>7 DEF PeerNext
<1>3. CASE UNCHANGED vars
  BY <1>3 DEF vars
<1> QED
  BY <1>1, <1>2, <1>3 DEF Next

(* How old the record served may be.  Take q, the newest heartbeat whose   *)
(* announcement is over.  The record served was made at most one           *)
(* announcement (or the start) before q; and of all heartbeats from q on   *)
(* the next one is still being announced, or is the one the timer waits    *)
(* for.                                                                    *)
Settled(p, q) ==
    /\ q <= now
    /\ server[p] \in Nat
    /\ server[p] + MaxAnnounce >= q \/ server[p] + MaxStart >= q
    /\ \A b \in announcing[p] \cup {q} :
           b >= q => \/ b + HeartbeatInterval \in announcing[p]
                     \/ b + HeartbeatInterval = timer[p]

Chain == \A p \in Peer : stage[p] = "running" => \E q \in Nat : Settled(p, q)

LEMMA ChainStep == TypeOK /\ Stages /\ Chain /\ [Next]_vars => Chain'
<1> USE MeshNodeAssumption
<1> SUFFICES ASSUME TypeOK, Stages, Chain, [Next]_vars,
                    NEW p \in Peer, stage'[p] = "running"
             PROVE  \E q \in Nat : Settled(p, q)'
  BY DEF Chain
<1>t. /\ now \in Nat /\ announcing[p] \subseteq Nat
      /\ \A r \in announcing[p] : r <= now
  BY DEF TypeOK
<1>1. ASSUME UNCHANGED <<stage[p], announcing[p], server[p], timer[p]>>,
             now' \in Nat, now' >= now
      PROVE  \E q \in Nat : Settled(p, q)'
  <2>1. PICK q \in Nat : Settled(p, q)
    BY <1>1 DEF Chain
  <2>2. Settled(p, q)'
    BY <1>1, <1>t, <2>1 DEF Settled
  <2> QED
    BY <2>2
<1>2. CASE Tick
  BY <1>1, <1>2, <1>t DEF Tick
<1>3. CASE UNCHANGED vars
  BY <1>1, <1>3, <1>t DEF vars
<1>4. ASSUME NEW o \in Peer, o # p, PeerNext(o)
      PROVE  \E q \in Nat : Settled(p, q)'
  <2>1. UNCHANGED <<now, stage[p], announcing[p], server[p], timer[p]>>
    BY <1>4 DEF PeerNext, Start, Started, Announced,
                DoHeartbeat, HeartbeatAnnounced,
                Shutdown, Exit, TypeOK
  <2> QED
    BY <1>1, <1>t, <2>1
<1>5. CASE Announced(p)
  <2>1. PICK r \in announcing[p] : server'[p] = r
    BY <1>5 DEF Announced, StartRecordServer, Stages, TypeOK
  <2>2. now <= r + MaxStart /\ r \in Nat
    BY <1>5, <1>t, <2>1 DEF Announced, Stages, Patience
  <2>3. announcing'[p] = {} /\ timer'[p] = now + HeartbeatInterval /\ now' = now
    BY <1>5 DEF Announced, NextBeat, TypeOK
  <2>4. Settled(p, now)'
    BY <1>t, <2>1, <2>2, <2>3 DEF Settled
  <2> QED
    BY <1>t, <2>3, <2>4 DEF Settled
<1>6. CASE DoHeartbeat(p)
  <2>1. stage[p] = "running"
    BY <1>6 DEF DoHeartbeat
  <2>2. PICK q \in Nat : Settled(p, q)
    BY <2>1 DEF Chain
  <2>3. /\ announcing'[p] = announcing[p] \cup {now}
        /\ timer[p] = now /\ timer'[p] = now + HeartbeatInterval
        /\ now' = now /\ server'[p] = server[p]
    BY <1>6 DEF DoHeartbeat, NextBeat, TypeOK
  <2>4. Settled(p, q)'
    BY <1>t, <2>2, <2>3 DEF Settled
  <2> QED
    BY <2>4
<1>7. ASSUME NEW r \in announcing[p], HeartbeatAnnounced(p, r)
      PROVE  \E q \in Nat : Settled(p, q)'
  <2>1. stage[p] = "running" /\ now <= r + MaxAnnounce /\ r \in Nat
    BY <1>7, <1>t DEF HeartbeatAnnounced, Stages, Patience
  <2>2. PICK q \in Nat : Settled(p, q)
    BY <2>1 DEF Chain
  <2>3. /\ announcing'[p] = announcing[p] \ {r} /\ server'[p] = r
        /\ timer'[p] = timer[p] /\ now' = now
    BY <1>7 DEF HeartbeatAnnounced, HeartbeatServer, StopRecordServer,
                StartRecordServer, TypeOK
  <2>4. CASE r >= q
    <3>1. Settled(p, r)'
      BY <1>t, <2>1, <2>2, <2>3, <2>4 DEF Settled
    <3> QED
      BY <2>1, <3>1
  <2>5. CASE r < q
    <3>1. Settled(p, q)'
      BY <1>t, <2>1, <2>2, <2>3, <2>5 DEF Settled
    <3> QED
      BY <3>1
  <2> QED
    BY <2>1, <2>4, <2>5
<1>8. ASSUME PeerNext(p) PROVE \E q \in Nat : Settled(p, q)'
  <2>1. ~ Start(p) /\ ~ Started(p) /\ ~ Shutdown(p) /\ ~ Exit(p)
    BY DEF Start, Started, Shutdown, Exit, TypeOK
  <2> QED
    BY <1>5, <1>6, <1>7, <1>8, <2>1 DEF PeerNext
<1> QED
  BY <1>2, <1>3, <1>4, <1>8 DEF Next

(* The heartbeats of a process are an interval apart, those whose         *)
(* announcement is awaited and the one served alike.                       *)
Apart(older, newer) == newer > older => newer >= older + HeartbeatInterval

Spaced ==
    \A p \in Peer :
        /\ \A r, s \in announcing[p] : Apart(r, s)
        /\ server[p] # None => \A r \in announcing[p] : Apart(r, server[p])
        /\ stage[p] = "running" => \A r \in announcing[p] : r + HeartbeatInterval <= timer[p]

LEMMA SpacedStep == TypeOK /\ Stages /\ Spaced /\ [Next]_vars => Spaced'
<1> USE MeshNodeAssumption
<1> SUFFICES ASSUME TypeOK, Stages, Spaced, [Next]_vars PROVE Spaced'
  OBVIOUS
<1> USE DEF TypeOK, Spaced, Apart
<1>1. CASE Tick
  BY <1>1 DEF Tick
<1>2. CASE UNCHANGED vars
  BY <1>2 DEF vars
<1>3. ASSUME NEW p \in Peer, PeerNext(p) PROVE Spaced'
  <2>1. CASE Start(p)
    BY <2>1 DEF Start, Stages
  <2>2. CASE Started(p)
    BY <2>2 DEF Started
  <2>3. CASE Announced(p)
    BY <2>3 DEF Announced
  <2>4. CASE DoHeartbeat(p)
    <3>1. stage[p] = "running" /\ timer[p] = now /\ now \in Nat
      BY <2>4 DEF DoHeartbeat, Stages
    <3>2. \A r \in announcing[p] : r \in Nat /\ r <= now /\ r + HeartbeatInterval <= now
      BY <3>1
    <3>3. server[p] # None => server[p] \in Nat /\ server[p] <= now
      OBVIOUS
    <3> QED
      BY <2>4, <3>1, <3>2, <3>3 DEF DoHeartbeat, NextBeat
  <2>5. ASSUME NEW r \in announcing[p], HeartbeatAnnounced(p, r) PROVE Spaced'
    <3>1. server' = [server EXCEPT ![p] = r]
      BY <2>5 DEF HeartbeatAnnounced, HeartbeatServer, StopRecordServer,
                  StartRecordServer
    <3>2. announcing' = [announcing EXCEPT ![p] = announcing[p] \ {r}]
      BY <2>5 DEF HeartbeatAnnounced
    <3> QED
      BY <2>5, <3>1, <3>2 DEF HeartbeatAnnounced
  <2>6. CASE Shutdown(p)
    BY <2>6 DEF Shutdown, StopRecordServer
  <2>7. CASE Exit(p)
    BY <2>7 DEF Exit
  <2> QED
    BY <1>3, <2>1, <2>2, <2>3, <2>4, <2>5, <2>6, <2>7 DEF PeerNext
<1> QED
  BY <1>1, <1>2, <1>3 DEF Next

LEMMA MeshStart == Init => TypeOK /\ Stages /\ Chain /\ Spaced
<1> SUFFICES ASSUME Init PROVE TypeOK /\ Stages /\ Chain /\ Spaced
  OBVIOUS
<1>1. TypeOK
  BY MeshNodeAssumption DEF Init, TypeOK
<1>2. Stages /\ Chain /\ Spaced
  BY MeshNodeAssumption DEF Init, Stages, Chain, Spaced
<1>3. QED
  BY <1>1, <1>2

\* Type correctness of the mesh nodes: no record comes from the future and no timer is
\* overdue.
THEOREM TypeCorrect == Spec => []TypeOK
BY MeshStart, MeshTypeStep, PTL DEF Spec

LEMMA MeshInvariant == Spec => [](TypeOK /\ Stages /\ Chain /\ Spaced)
BY MeshStart, MeshTypeStep, StagesStep, ChainStep, SpacedStep, PTL DEF Spec

\* A running node always serves a record that has not expired, if a record lives
\* longer than two announcements, or the start and an announcement, and an
\* interval.
THEOREM ServesLive ==
    ASSUME Ttl > 2 * MaxAnnounce + HeartbeatInterval,
           Ttl > MaxStart + MaxAnnounce + HeartbeatInterval
    PROVE  Spec => []ServesLiveRecord
<1> USE MeshNodeAssumption
<1>1. TypeOK /\ Stages /\ Chain => ServesLiveRecord
  <2> SUFFICES ASSUME TypeOK, Stages, Chain, NEW p \in Peer, stage[p] = "running"
               PROVE  server[p] # None /\ now < ExpiresAt(server[p])
    BY DEF ServesLiveRecord
  <2>1. PICK q \in Nat : Settled(p, q)
    BY DEF Chain
  <2>2. now \in Nat /\ server[p] \in Nat
    BY <2>1 DEF Settled, TypeOK
  <2>3. now <= q + HeartbeatInterval + MaxAnnounce
    <3>1. CASE q + HeartbeatInterval \in announcing[p]
      BY <3>1 DEF Stages, Patience
    <3>2. CASE q + HeartbeatInterval = timer[p]
      <4>1. timer[p] \in now..(now + HeartbeatInterval)
        BY <3>2 DEF TypeOK
      <4> QED
        BY <2>2, <3>2, <4>1
    <3> QED
      BY <2>1, <3>1, <3>2 DEF Settled
  <2>4. server[p] + MaxAnnounce >= q \/ server[p] + MaxStart >= q
    BY <2>1 DEF Settled
  <2> QED
    BY <2>2, <2>3, <2>4 DEF ExpiresAt
<1> QED
  BY <1>1, MeshInvariant, PTL

\* A dialer is given a record older than one that was served before only after
\* an announcement that has taken an interval or more.
THEOREM ServedInOrder == Spec => ServedNeverRegresses
<1> USE MeshNodeAssumption
<1> DEFINE Fresher == \A p \in Peer : server[p] # None /\ server'[p] # None =>
                         server'[p] >= server[p] \/ now - server'[p] >= HeartbeatInterval
<1>1. TypeOK /\ Stages /\ Spaced /\ [Next]_vars => [Fresher]_vars
  <2> SUFFICES ASSUME TypeOK, Stages, Spaced, Next, NEW p \in Peer,
                      server[p] # None, server'[p] # None
               PROVE  server'[p] >= server[p] \/ now - server'[p] >= HeartbeatInterval
    OBVIOUS
  <2>t. server[p] \in Nat /\ server[p] <= now /\ now \in Nat
    BY DEF TypeOK
  <2>1. CASE server'[p] = server[p]
    BY <2>t, <2>1
  <2>2. ASSUME server'[p] # server[p]
        PROVE  \E r \in announcing[p] : HeartbeatAnnounced(p, r)
    BY <2>2 DEF Next, Tick, PeerNext, Start, Started,
                Announced, DoHeartbeat, Shutdown,
                Exit, StopRecordServer, HeartbeatAnnounced, Stages,
                TypeOK
  <2>3. ASSUME NEW r \in announcing[p], HeartbeatAnnounced(p, r)
        PROVE  server'[p] >= server[p] \/ now - server'[p] >= HeartbeatInterval
    <3>1. server'[p] = r /\ r \in Nat
      BY <2>3 DEF HeartbeatAnnounced, HeartbeatServer, StopRecordServer,
                  StartRecordServer, TypeOK
    <3>2. server[p] > r => server[p] >= r + HeartbeatInterval
      BY DEF Spaced, Apart
    <3> QED
      BY <2>t, <3>1, <3>2
  <2> QED
    BY <2>1, <2>2, <2>3
<1>2. QED
  BY <1>1, MeshInvariant, PTL DEF Spec, ServedNeverRegresses

-----------------------------------------------------------------------------
(* The inductive invariant, in parts.                                      *)

\* The mesh nodes are well typed, and one that runs has its record server.
MeshOK ==
    /\ TypeOK
    /\ now <= MaxTime
    /\ \A p \in Peer : stage[p] = "running" => server[p] # None

\* What each phase of a poll works with.
PhaseOK ==
    /\ phase \in {"find", "fetch", "mirror"} <=> protocols # <<>>
    /\ fetched # {} => phase = "fetch"
    /\ discovered # {} => phase = "mirror"

\* A snapshot expires no later than any of its records, and shows a node once.
OneEach(records) == \A r, other \in records : Node(other) = Node(r) => other = r
SnapOK(s) ==
    /\ s \in Snapshot
    /\ \A r \in s.records : s.expiresAt <= RecordExpiresAt(r)
    /\ OneEach(s.records)

StoreOK ==
    /\ phase \in {"add", "pin", "name"} => SnapOK(snapshot)
    /\ phase = "name" => snapshot \in pinned
    /\ ipns # None => SnapOK(ipns) /\ ipns \in pinned

\* The protocols that the poll is done with.
Done ==
    IF protocols = <<"vless", "hysteria2">> THEN {}
    ELSE IF protocols = <<"hysteria2">> THEN {"vless"} ELSE {"vless", "hysteria2"}

\* The records kept so far are of those protocols, or of the one being mirrored.
RecordsOK ==
    /\ OneEach(allRecords \cup discovered)
    /\ \A r \in allRecords :
           \/ ProtocolOf(r.peer) \in Done
           \/ phase = "mirror" /\ ProtocolOf(r.peer) = Head(protocols)
    /\ \A r \in discovered : ProtocolOf(r.peer) = Head(protocols)

\* Where the record of a steady peer is: among those kept, or on its way.
SteadyOK == \A p \in steady :
    /\ stage[p] = "running" /\ "protocol" \in provides[p]
    /\ p \in WithKeyId =>
         /\ ProtocolOf(p) \in Done => \E r \in allRecords : Node(r) = nodeIdOf[p]
         /\ phase = "fetch" /\ ProtocolOf(p) = Head(protocols) =>
              p \in dialing \/ \E r \in fetched : r.peer = p
         /\ phase = "mirror" /\ ProtocolOf(p) = Head(protocols) =>
              \E r \in allRecords \cup discovered : Node(r) = nodeIdOf[p]

IInv == IndexerTypeOK /\ MeshOK /\ PhaseOK /\ StoreOK /\ RecordsOK /\ SteadyOK

-----------------------------------------------------------------------------
(* Lists of protocols, and the least of some records.                      *)

LEMMA Lists ==
  /\ <<"vless", "hysteria2">> # <<"hysteria2">> /\ <<"vless", "hysteria2">> # <<>>
  /\ <<"hysteria2">> # <<>>
  /\ Head(<<"vless", "hysteria2">>) = "vless" /\ Head(<<"hysteria2">>) = "hysteria2"
  /\ Tail(<<"vless", "hysteria2">>) = <<"hysteria2">> /\ Tail(<<"hysteria2">>) = <<>>
OBVIOUS

LEMMA Placed ==
  ASSUME IndexerTypeOK, NEW p \in Peer
  PROVE  nodeIdOf[p] \in NodeId /\ ProtocolOf(p) \in {"vless", "hysteria2"}
<1>1. nodeIdOf \in [Peer -> NodeId]
  BY IndexerAssumption DEF IndexerTypeOK
<1>2. QED
  BY <1>1, IndexerAssumption DEF ProtocolOf

\* One protocol after the other is done with.
LEMMA Progress ==
  ASSUME IndexerTypeOK, PhaseOK, protocols # <<>>
  PROVE  /\ Head(protocols) \notin Done
         /\ protocols' = Tail(protocols) =>
              Done' = Done \cup {Head(protocols)}
              /\ protocols' \in {<<>>, <<"hysteria2">>, <<"vless", "hysteria2">>}
<1>1. CASE protocols = <<"vless", "hysteria2">>
  BY <1>1, Lists DEF Done
<1>2. CASE protocols = <<"hysteria2">>
  BY <1>2, Lists DEF Done
<1>3. QED
  BY <1>1, <1>2 DEF IndexerTypeOK

\* A set of records that is not empty has an expiry that none of them undercuts.
LEMMA LeastExpiry ==
  ASSUME NEW records \in SUBSET Record, records # {}
  PROVE  /\ SnapshotExpiry(records) \in Nat
         /\ \A r \in records : SnapshotExpiry(records) <= RecordExpiresAt(r)
<1> DEFINE times == {RecordExpiresAt(r) : r \in records}
<1>1. times \subseteq Nat /\ times # {}
  BY MeshNodeAssumption DEF Record, RecordExpiresAt, ExpiresAt
<1>2. SnapshotExpiry(records) = CHOOSE x \in times : \A y \in times : x =< y
  BY DEF SnapshotExpiry, Min
<1>3. \A r \in records : RecordExpiresAt(r) \in times
  OBVIOUS
<1> HIDE DEF times
<1>4. PICK x \in times : \A y \in times : <<y, x>> \notin OpToRel(<, Nat)
  BY <1>1, NatLessThanWellFounded, WFMin
<1>5. \A y \in times : ~ (y < x)
  BY <1>1, <1>4 DEF OpToRel
<1>6. \A y \in times : x =< y
  BY <1>1, <1>5
<1>7. SnapshotExpiry(records) \in times /\ \A y \in times : SnapshotExpiry(records) <= y
  BY <1>2, <1>6
<1>8. QED
  BY <1>1, <1>3, <1>7

-----------------------------------------------------------------------------
(* One lemma per step.                                                     *)

LEMMA InitIInv == IndexerInit => IInv
<1> SUFFICES ASSUME IndexerInit PROVE IInv
  OBVIOUS
<1>1. TypeOK
  BY MeshNodeAssumption DEF IndexerInit, Init, TypeOK
<1>2. IndexerTypeOK
  BY <1>1 DEF IndexerInit, IndexerTypeOK
<1>3. MeshOK
  <2>1. now <= MaxTime /\ \A p \in Peer : stage[p] = "off"
    BY MeshNodeAssumption DEF IndexerInit, Init
  <2>2. QED
    BY <1>1, <2>1 DEF MeshOK
<1>4. PhaseOK /\ StoreOK /\ RecordsOK /\ SteadyOK
  BY DEF IndexerInit, PhaseOK, StoreOK, RecordsOK, OneEach, SteadyOK
<1>5. QED
  BY <1>2, <1>3, <1>4 DEF IInv

LEMMA MeshInv == IInv /\ MeshStep => IInv'
<1> SUFFICES ASSUME IInv, MeshStep PROVE IInv'
  OBVIOUS
<1> USE DEF IInv
<1>1. /\ TypeOK' /\ now' <= MaxTime
      /\ \A p \in Peer : stage'[p] = "running" => server'[p] # None
      /\ \A p \in Peer : provides[p] \subseteq provides'[p]
  BY MeshTyped, MeshServes DEF MeshOK, MeshStep
<1>2. IndexerTypeOK'
  BY <1>1 DEF IndexerTypeOK, MeshStep, pollVars, storeVars
<1>3. MeshOK'
  BY <1>1 DEF MeshOK
<1>4. PhaseOK' /\ StoreOK' /\ RecordsOK'
  BY DEF MeshStep, pollVars, storeVars, PhaseOK, StoreOK, SnapOK, RecordsOK, OneEach,
         Node, Done, ProtocolOf, Snapshot, RecordExpiresAt, ExpiresAt
<1>5. SteadyOK'
  <2>1. Done' = Done /\ \A r \in allRecords \cup discovered : Node(r)' = Node(r)
    BY DEF MeshStep, pollVars, Done, Node
  <2>2. \A p \in steady' : p \in steady /\ stage'[p] = "running" /\ ProtocolOf(p)' = ProtocolOf(p)
    BY DEF MeshStep, ProtocolOf
  <2>3. \A p \in steady' : "protocol" \in provides'[p]
    BY <1>1, <2>2 DEF SteadyOK, IndexerTypeOK
  <2>4. QED
    BY <2>1, <2>2, <2>3 DEF SteadyOK, MeshStep, pollVars, Node
<1>6. QED
  BY <1>2, <1>3, <1>4, <1>5

\* What the steps of the indexer leave as it is when they leave the mesh alone.
LEMMA MeshStill ==
  ASSUME IInv, UNCHANGED meshVars
  PROVE  /\ TypeOK' /\ nodeIdOf' \in Placements /\ MeshOK'
         /\ now' = now /\ stage' = stage /\ server' = server /\ provides' = provides
         /\ nodeIdOf' = nodeIdOf
<1>1. TypeOK'
  BY DEF IInv, MeshOK, meshVars, vars, TypeOK
<1>2. QED
  BY <1>1 DEF IInv, IndexerTypeOK, MeshOK, meshVars, vars

\* A snapshot that was right stays right.
LEMMA SnapStill ==
  ASSUME UNCHANGED nodeIdOf
  PROVE  \A s : SnapOK(s) => SnapOK(s)'
BY DEF SnapOK, OneEach, Node, RecordExpiresAt, ExpiresAt, Snapshot, Record

\* A step that touches neither the snapshot in the making nor what is published.
LEMMA StoreStill ==
  ASSUME IInv, UNCHANGED meshVars, UNCHANGED storeVars,
         phase' \notin {"add", "pin", "name"}
  PROVE  StoreOK'
<1>1. \A s : SnapOK(s) => SnapOK(s)'
  BY SnapStill, MeshStill
<1>2. ipns' = ipns /\ pinned' = pinned
  BY DEF storeVars
<1>3. SnapOK(ipns)' <=> SnapOK(ipns)
  BY <1>2, MeshStill
     DEF SnapOK, OneEach, Node, RecordExpiresAt, ExpiresAt, Snapshot, Record
<1>4. QED
  BY <1>2, <1>3 DEF IInv, StoreOK

LEMMA PollInv == IInv /\ Poll => IInv'
<1> SUFFICES ASSUME IInv, Poll PROVE IInv'
  OBVIOUS
<1>1. /\ phase = "idle" /\ phase' = "find" /\ protocols' = <<"vless", "hysteria2">>
      /\ UNCHANGED <<meshVars, dialing, fetched, discovered, allRecords, snapshot,
                     storeVars>>
  BY DEF Poll
<1>2. fetched = {} /\ discovered = {} /\ allRecords = {}
  BY <1>1 DEF IInv, IndexerTypeOK, PhaseOK
<1>3. IndexerTypeOK'
  <2>1. nextPoll' \in Nat
    BY IndexerAssumption, MeshNodeAssumption DEF Poll, IInv, MeshOK, TypeOK
  <2>2. steady' \subseteq Peer
    BY DEF Poll
  <2>3. QED
    BY <1>1, <1>2, <2>1, <2>2, MeshStill DEF IInv, IndexerTypeOK, storeVars
<1>4. PhaseOK'
  BY <1>1, <1>2, Lists DEF PhaseOK
<1>5. StoreOK'
  BY <1>1, StoreStill
<1>6. RecordsOK'
  BY <1>1, <1>2 DEF RecordsOK, OneEach
<1>7. SteadyOK'
  <2>1. Done' = {}
    BY <1>1 DEF Done
  <2>2. \A p \in steady' : stage'[p] = "running" /\ "protocol" \in provides'[p]
    BY <1>1, MeshStill DEF Poll
  <2>3. QED
    BY <1>1, <2>1, <2>2 DEF SteadyOK
<1>8. QED
  BY <1>1, <1>3, <1>4, <1>5, <1>6, <1>7, MeshStill DEF IInv

LEMMA DiscoverInv == IInv /\ DiscoverProviders => IInv'
<1> SUFFICES ASSUME IInv, DiscoverProviders PROVE IInv'
  OBVIOUS
<1>1. /\ phase = "find" /\ phase' = "fetch" /\ fetched' = {}
      /\ dialing' \subseteq Providers /\ steady' = steady \ (Providers \ dialing')
      /\ UNCHANGED <<meshVars, nextPoll, protocols, discovered, allRecords, snapshot,
                     storeVars>>
  BY DEF DiscoverProviders
<1>2. discovered = {}
  BY <1>1 DEF IInv, PhaseOK
<1>3. IndexerTypeOK'
  BY <1>1, MeshStill DEF IInv, IndexerTypeOK, storeVars, Providers
<1>4. PhaseOK'
  BY <1>1, <1>2 DEF IInv, PhaseOK
<1>5. StoreOK'
  BY <1>1, StoreStill
<1>6. Done' = Done /\ \A p : ProtocolOf(p)' = ProtocolOf(p)
  BY <1>1, MeshStill DEF Done, ProtocolOf
<1>7. \A r : Node(r)' = Node(r)
  BY <1>1, MeshStill DEF Node
<1>8. RecordsOK'
  BY <1>1, <1>2, <1>6, <1>7 DEF IInv, RecordsOK, OneEach
<1>9. SteadyOK'
  <2> SUFFICES ASSUME NEW p \in steady'
               PROVE  /\ stage'[p] = "running" /\ "protocol" \in provides'[p]
                      /\ p \in WithKeyId =>
                           /\ ProtocolOf(p) \in Done =>
                                \E r \in allRecords : Node(r) = nodeIdOf[p]
                           /\ ProtocolOf(p) = Head(protocols) => p \in dialing'
    BY <1>1, <1>6, <1>7, MeshStill DEF SteadyOK
  <2>1. p \in steady /\ p \in Peer /\ p \notin Providers \ dialing'
    BY <1>1 DEF IInv, IndexerTypeOK
  <2>2. stage'[p] = "running" /\ "protocol" \in provides'[p] /\ "protocol" \in provides[p]
    BY <1>1, <2>1, MeshStill DEF IInv, SteadyOK
  <2>3. QED
    BY <2>1, <2>2 DEF IInv, SteadyOK, Providers
<1>10. QED
  BY <1>1, <1>3, <1>4, <1>5, <1>8, <1>9, MeshStill DEF IInv

LEMMA FetchInv == ASSUME NEW p \in dialing, IInv, FetchRecord(p) PROVE IInv'
<1> DEFINE answer == [peer |-> p, heartbeatAt |-> server[p]]
<1>1. /\ phase = "fetch" /\ dialing' = dialing \ {p}
      /\ UNCHANGED <<meshVars, phase, nextPoll, protocols, discovered, allRecords,
                     snapshot, storeVars>>
  BY DEF FetchRecord
<1>2. \/ server[p] # None /\ fetched' = fetched \cup {answer} /\ steady' = steady
      \/ /\ steady' = IF server[p] = None THEN steady ELSE steady \ {p}
         /\ fetched' = fetched
  BY DEF FetchRecord
<1>3. p \in Peer
  BY DEF IInv, IndexerTypeOK
<1>4. server[p] # None => answer \in Record
  <2>1. server[p] # None => server[p] \in 0..MaxTime
    BY <1>3, MeshNodeAssumption DEF IInv, MeshOK, TypeOK
  <2>2. QED
    BY <1>3, <2>1 DEF Record
<1>5. IndexerTypeOK'
  <2>1. fetched' \subseteq Record /\ steady' \subseteq Peer
    <3> HIDE DEF answer
    <3>1. QED
      BY <1>2, <1>4 DEF IInv, IndexerTypeOK
  <2>2. QED
    BY <1>1, <2>1, MeshStill DEF IInv, IndexerTypeOK, storeVars
<1>6. PhaseOK'
  BY <1>1 DEF IInv, PhaseOK
<1>7. StoreOK'
  BY <1>1, StoreStill
<1>8. Done' = Done /\ \A q : ProtocolOf(q)' = ProtocolOf(q)
  BY <1>1, MeshStill DEF Done, ProtocolOf
<1>9. \A r : Node(r)' = Node(r)
  BY <1>1, MeshStill DEF Node
<1>10. RecordsOK'
  BY <1>1, <1>8, <1>9 DEF IInv, RecordsOK, OneEach
<1>11. SteadyOK'
  <2> SUFFICES ASSUME NEW q \in steady'
               PROVE  /\ stage'[q] = "running" /\ "protocol" \in provides'[q]
                      /\ q \in WithKeyId =>
                           /\ ProtocolOf(q) \in Done =>
                                \E r \in allRecords : Node(r) = nodeIdOf[q]
                           /\ ProtocolOf(q) = Head(protocols) =>
                                q \in dialing' \/ \E r \in fetched' : r.peer = q
    BY <1>1, <1>8, <1>9, MeshStill DEF SteadyOK
  <2>1. q \in steady /\ q \in Peer /\ fetched \subseteq fetched'
    BY <1>2 DEF IInv, IndexerTypeOK
  <2>2. stage[q] = "running" /\ server[q] # None
    BY <2>1 DEF IInv, SteadyOK, MeshOK
  <2>3. stage'[q] = "running" /\ "protocol" \in provides'[q]
    BY <1>1, <2>1, MeshStill DEF IInv, SteadyOK
  <2>4. q = p => \E r \in fetched' : r.peer = q
    <3>1. answer.peer = p
      OBVIOUS
    <3> HIDE DEF answer
    <3>2. QED
      BY <1>2, <2>2, <3>1
  <2>5. QED
    BY <1>1, <2>1, <2>3, <2>4 DEF IInv, SteadyOK
<1>12. QED
  BY <1>1, <1>5, <1>6, <1>7, <1>10, <1>11, MeshStill DEF IInv

\* What is kept of some records: of each node one, and one of each node.
LEMMA Kept ==
  ASSUME NEW records \in SUBSET Record, NEW kept \in DeduplicateByNodeId(records)
  PROVE  /\ kept \subseteq records
         /\ OneEach(kept)
         /\ \A r \in records : \E k \in kept : Node(k) = Node(r)
BY DEF DeduplicateByNodeId, OneEach

LEMMA VerifyInv == IInv /\ VerifyRecords => IInv'
<1> SUFFICES ASSUME IInv, VerifyRecords PROVE IInv'
  OBVIOUS
<1> DEFINE V == {r \in fetched : Verified(r)}
<1>1. /\ phase = "fetch" /\ phase' = "mirror" /\ dialing = {} /\ fetched' = {}
      /\ discovered' \in DeduplicateByNodeId(V)
      /\ steady' = steady \ {r.peer : r \in {r \in fetched : IsRecordExpired(r)}}
      /\ UNCHANGED <<meshVars, nextPoll, protocols, dialing, allRecords, snapshot,
                     storeVars>>
  BY DEF VerifyRecords
<1>2. V \subseteq Record /\ fetched \subseteq Record
  BY DEF IInv, IndexerTypeOK
<1>3. /\ discovered' \subseteq V /\ OneEach(discovered')
      /\ \A r \in V : \E k \in discovered' : Node(k) = Node(r)
  <2> HIDE DEF V
  <2>1. QED
    BY <1>1, <1>2, Kept
<1>4. IndexerTypeOK'
  <2>1. discovered' \subseteq Record /\ steady' \subseteq Peer
    BY <1>1, <1>2, <1>3 DEF IInv, IndexerTypeOK
  <2>2. QED
    BY <1>1, <2>1, MeshStill DEF IInv, IndexerTypeOK, storeVars
<1>5. PhaseOK'
  BY <1>1 DEF IInv, PhaseOK
<1>6. StoreOK'
  BY <1>1, StoreStill
<1>7. Done' = Done /\ \A q : ProtocolOf(q)' = ProtocolOf(q)
  BY <1>1, MeshStill DEF Done, ProtocolOf
<1>8. \A r : Node(r)' = Node(r)
  BY <1>1, MeshStill DEF Node
<1>9. Head(protocols) \notin Done
  BY <1>1, Progress DEF IInv, PhaseOK
<1>10. \A r \in discovered' : ProtocolOf(r.peer) = Head(protocols)
  BY <1>3 DEF Verified
<1>11. \A r \in allRecords : ProtocolOf(r.peer) \in Done
  BY <1>1 DEF IInv, RecordsOK
<1>12. OneEach(allRecords \cup discovered')
  <2>1. \A r, other : Node(r) = Node(other) => ProtocolOf(r.peer) = ProtocolOf(other.peer)
    BY DEF Node, ProtocolOf
  <2>2. OneEach(allRecords)
    BY DEF IInv, RecordsOK, OneEach
  <2>3. QED
    BY <1>3, <1>9, <1>10, <1>11, <2>1, <2>2 DEF OneEach
<1>13. RecordsOK'
  BY <1>1, <1>7, <1>8, <1>10, <1>11, <1>12 DEF RecordsOK, OneEach
<1>14. SteadyOK'
  <2> SUFFICES ASSUME NEW p \in steady'
               PROVE  /\ stage'[p] = "running" /\ "protocol" \in provides'[p]
                      /\ p \in WithKeyId =>
                           /\ ProtocolOf(p) \in Done =>
                                \E r \in allRecords : Node(r) = nodeIdOf[p]
                           /\ ProtocolOf(p) = Head(protocols) =>
                                \E r \in discovered' : Node(r) = nodeIdOf[p]
    BY <1>1, <1>7, <1>8, MeshStill DEF SteadyOK
  <2>1. /\ p \in steady /\ p \in Peer
        /\ \A r \in fetched : r.peer = p => ~IsRecordExpired(r)
    BY <1>1 DEF IInv, IndexerTypeOK
  <2>2. stage'[p] = "running" /\ "protocol" \in provides'[p]
    BY <1>1, <2>1, MeshStill DEF IInv, SteadyOK
  <2>3. ASSUME p \in WithKeyId, ProtocolOf(p) = Head(protocols)
        PROVE  \E r \in discovered' : Node(r) = nodeIdOf[p]
    <3>1. PICK r \in fetched : r.peer = p
      BY <1>1, <2>1, <2>3 DEF IInv, SteadyOK
    <3>2. Verified(r)
      BY <2>1, <2>3, <3>1 DEF Verified, PublicKeyId
    <3>3. QED
      BY <1>3, <3>1, <3>2 DEF Node
  <2>4. QED
    BY <2>1, <2>2, <2>3 DEF IInv, SteadyOK
<1>15. QED
  BY <1>1, <1>4, <1>5, <1>6, <1>13, <1>14, MeshStill DEF IInv

LEMMA MirrorInv == ASSUME NEW r \in discovered, IInv, MirrorToWorker(r) PROVE IInv'
<1>1. /\ phase = "mirror" /\ discovered' = discovered \ {r}
      /\ allRecords' = allRecords \cup {r}
      /\ UNCHANGED <<meshVars, phase, nextPoll, protocols, dialing, fetched, snapshot,
                     storeVars, steady>>
  BY DEF MirrorToWorker
<1>2. IndexerTypeOK'
  BY <1>1, MeshStill DEF IInv, IndexerTypeOK, storeVars
<1>3. PhaseOK'
  BY <1>1 DEF IInv, PhaseOK
<1>4. StoreOK'
  BY <1>1, StoreStill
<1>5. Done' = Done /\ \A q : ProtocolOf(q)' = ProtocolOf(q)
  BY <1>1, MeshStill DEF Done, ProtocolOf
<1>6. \A s : Node(s)' = Node(s)
  BY <1>1, MeshStill DEF Node
<1>7. allRecords' \cup discovered' = allRecords \cup discovered
  BY <1>1
<1>8. RecordsOK'
  <2>1. OneEach(allRecords \cup discovered)'
    BY <1>6, <1>7 DEF IInv, RecordsOK, OneEach
  <2>2. QED
    BY <1>1, <1>5, <2>1 DEF IInv, RecordsOK
<1>9. SteadyOK'
  BY <1>1, <1>5, <1>6, <1>7, MeshStill DEF IInv, SteadyOK
<1>10. QED
  BY <1>1, <1>2, <1>3, <1>4, <1>8, <1>9, MeshStill DEF IInv

LEMMA NextProtocolInv == IInv /\ NextProtocol => IInv'
<1> SUFFICES ASSUME IInv, NextProtocol PROVE IInv'
  OBVIOUS
<1>1. /\ phase = "mirror" /\ discovered = {} /\ protocols' = Tail(protocols)
      /\ phase' = IF Tail(protocols) = <<>> THEN "snapshot" ELSE "find"
      /\ UNCHANGED <<meshVars, nextPoll, dialing, fetched, discovered, allRecords,
                     snapshot, storeVars, steady>>
  BY DEF NextProtocol
<1>2. /\ Done' = Done \cup {Head(protocols)}
      /\ protocols' \in {<<>>, <<"hysteria2">>, <<"vless", "hysteria2">>}
  BY <1>1, Progress DEF IInv, PhaseOK
<1>3. IndexerTypeOK'
  BY <1>1, <1>2, MeshStill DEF IInv, IndexerTypeOK, storeVars
<1>4. PhaseOK'
  BY <1>1 DEF IInv, PhaseOK
<1>5. StoreOK'
  BY <1>1, StoreStill
<1>6. \A q : ProtocolOf(q)' = ProtocolOf(q)
  BY <1>1, MeshStill DEF ProtocolOf
<1>7. \A r : Node(r)' = Node(r)
  BY <1>1, MeshStill DEF Node
<1>8. RecordsOK'
  BY <1>1, <1>2, <1>6, <1>7 DEF IInv, RecordsOK, OneEach
<1>9. SteadyOK'
  BY <1>1, <1>2, <1>6, <1>7, MeshStill DEF IInv, SteadyOK
<1>10. QED
  BY <1>1, <1>3, <1>4, <1>5, <1>8, <1>9, MeshStill DEF IInv

LEMMA TakeSnapshotInv == IInv /\ TakeSnapshot => IInv'
<1> SUFFICES ASSUME IInv, TakeSnapshot PROVE IInv'
  OBVIOUS
<1>1. /\ phase = "snapshot" /\ allRecords' = {} /\ steady' = {}
      /\ \/ phase' = "idle" /\ snapshot' = snapshot
         \/ /\ phase' = "add" /\ LiveRecords # {}
            /\ snapshot' = CreateSnapshot(LiveRecords)
      /\ UNCHANGED <<meshVars, nextPoll, protocols, dialing, fetched, discovered,
                     storeVars>>
  BY DEF TakeSnapshot, NoRecords
<1>2. discovered = {}
  BY <1>1 DEF IInv, PhaseOK
<1>3. \A s : SnapOK(s) => SnapOK(s)'
  BY <1>1, SnapStill, MeshStill
<1>4. LiveRecords # {} => SnapOK(CreateSnapshot(LiveRecords))
  <2> SUFFICES ASSUME LiveRecords # {} PROVE SnapOK(CreateSnapshot(LiveRecords))
    OBVIOUS
  <2>1. LiveRecords \in SUBSET Record /\ LiveRecords \subseteq allRecords
    BY DEF LiveRecords, IInv, IndexerTypeOK
  <2>2. /\ SnapshotExpiry(LiveRecords) \in Nat
        /\ \A r \in LiveRecords : SnapshotExpiry(LiveRecords) <= RecordExpiresAt(r)
    BY <2>1, LeastExpiry
  <2>3. OneEach(LiveRecords)
    BY <2>1 DEF IInv, RecordsOK, OneEach
  <2>4. /\ CreateSnapshot(LiveRecords) \in Snapshot
        /\ CreateSnapshot(LiveRecords).records = LiveRecords
        /\ CreateSnapshot(LiveRecords).expiresAt = SnapshotExpiry(LiveRecords)
    BY <2>1, <2>2 DEF CreateSnapshot, Snapshot
  <2>5. QED
    BY <2>2, <2>3, <2>4 DEF SnapOK
<1>5. phase' = "add" => SnapOK(snapshot)'
  <2>1. SnapOK(snapshot') => SnapOK(snapshot)'
    BY <1>1, MeshStill
       DEF SnapOK, OneEach, Node, RecordExpiresAt, ExpiresAt, Snapshot, Record
  <2>2. QED
    BY <1>1, <1>4, <2>1
<1>6. IndexerTypeOK'
  <2>1. snapshot' \in Snapshot \cup {None}
    BY <1>1, <1>4 DEF IInv, IndexerTypeOK, SnapOK
  <2>2. QED
    BY <1>1, <2>1, MeshStill DEF IInv, IndexerTypeOK, storeVars
<1>7. PhaseOK'
  BY <1>1 DEF IInv, PhaseOK
<1>8. StoreOK'
  <2>1. ipns' = ipns /\ pinned' = pinned
    BY <1>1 DEF storeVars
  <2>2. SnapOK(ipns)' <=> SnapOK(ipns)
    BY <1>1, <2>1, MeshStill
       DEF SnapOK, OneEach, Node, RecordExpiresAt, ExpiresAt, Snapshot, Record
  <2>3. QED
    BY <1>1, <1>5, <2>1, <2>2 DEF IInv, StoreOK
<1>9. RecordsOK' /\ SteadyOK'
  BY <1>1, <1>2 DEF RecordsOK, OneEach, SteadyOK
<1>10. QED
  BY <1>1, <1>6, <1>7, <1>8, <1>9, MeshStill DEF IInv

\* The steps that publish keep nothing of the poll, which is over.
LEMMA PublishStill ==
  ASSUME IInv, UNCHANGED meshVars, UNCHANGED pollVars, steady' = steady,
         phase \in {"add", "pin", "name"}, phase' \in {"idle", "add", "pin", "name"}
  PROVE  PhaseOK' /\ RecordsOK' /\ SteadyOK'
<1>1. allRecords = {} /\ fetched = {} /\ discovered = {} /\ protocols = <<>>
  BY DEF IInv, IndexerTypeOK, PhaseOK
<1>2. allRecords' = {} /\ fetched' = {} /\ discovered' = {} /\ protocols' = <<>>
  BY <1>1 DEF pollVars
<1>3. PhaseOK'
  BY <1>2 DEF PhaseOK
<1>4. RecordsOK'
  BY <1>2 DEF RecordsOK, OneEach
<1>5. Done' = Done /\ \A q : ProtocolOf(q)' = ProtocolOf(q)
  BY <1>1, <1>2, MeshStill DEF Done, ProtocolOf
<1>6. SteadyOK'
  BY <1>1, <1>2, <1>5, MeshStill DEF IInv, SteadyOK
<1>7. QED
  BY <1>3, <1>4, <1>6

LEMMA PublishInv == IInv /\ (AddJSON \/ PinAdd \/ PublishIPNS) => IInv'
<1> SUFFICES ASSUME IInv, AddJSON \/ PinAdd \/ PublishIPNS PROVE IInv'
  OBVIOUS
<1>1. /\ UNCHANGED meshVars /\ UNCHANGED pollVars /\ steady' = steady
      /\ nextPoll' = nextPoll
      /\ phase \in {"add", "pin", "name"} /\ phase' \in {"idle", "pin", "name"}
  BY DEF AddJSON, PinAdd, PublishIPNS, AfterFailedPin
<1>2. SnapOK(snapshot) /\ snapshot \in Snapshot
  BY <1>1 DEF IInv, StoreOK, SnapOK
<1>3. /\ snapshot' \in {snapshot, None} /\ (phase' # "idle" => snapshot' = snapshot)
      /\ pinned \subseteq pinned' /\ pinned' \subseteq pinned \cup {snapshot}
      /\ phase' = "name" => snapshot \in pinned'
      /\ ipns' = ipns \/ (ipns' = snapshot /\ snapshot \in pinned')
  <2>1. CASE AddJSON
    BY <2>1 DEF AddJSON, storeVars
  <2>2. CASE PinAdd
    BY <2>2 DEF PinAdd, AfterFailedPin
  <2>3. CASE PublishIPNS
    BY <2>3 DEF PublishIPNS, IInv, StoreOK
  <2>4. QED
    BY <2>1, <2>2, <2>3
<1>4. IndexerTypeOK'
  <2>1. /\ snapshot' \in Snapshot \cup {None} /\ ipns' \in Snapshot \cup {None}
        /\ pinned' \subseteq Snapshot
    BY <1>2, <1>3 DEF IInv, IndexerTypeOK
  <2>2. /\ protocols' = protocols /\ dialing' = dialing /\ fetched' = fetched
        /\ discovered' = discovered /\ allRecords' = allRecords
    BY <1>1 DEF pollVars
  <2>3. allRecords = {}
    BY <1>1 DEF IInv, IndexerTypeOK
  <2>4. QED
    BY <1>1, <2>1, <2>2, <2>3, MeshStill DEF IInv, IndexerTypeOK
<1>5. StoreOK'
  <2>1. \A s : SnapOK(s) => /\ s \in Snapshot
                            /\ \A r \in s.records : s.expiresAt <= RecordExpiresAt(r)'
                            /\ \A r, other \in s.records :
                                  Node(other)' = Node(r)' => other = r
    BY <1>1, MeshStill DEF SnapOK, OneEach, Node, RecordExpiresAt, ExpiresAt
  <2>2. ipns' # None => SnapOK(ipns)'
    <3> SUFFICES ASSUME ipns' # None PROVE SnapOK(ipns)'
      OBVIOUS
    <3>1. SnapOK(ipns')
      BY <1>2, <1>3 DEF IInv, StoreOK
    <3>2. QED
      BY <2>1, <3>1 DEF SnapOK, OneEach, Snapshot, Record
  <2>3. phase' # "idle" => SnapOK(snapshot)'
    <3> SUFFICES ASSUME phase' # "idle" PROVE SnapOK(snapshot)'
      OBVIOUS
    <3>1. SnapOK(snapshot')
      BY <1>2, <1>3
    <3>2. QED
      BY <2>1, <3>1 DEF SnapOK, OneEach, Snapshot, Record
  <2>4. /\ phase' = "name" => snapshot' \in pinned'
        /\ ipns' # None => ipns' \in pinned'
    BY <1>3 DEF IInv, StoreOK
  <2>5. QED
    BY <1>1, <2>2, <2>3, <2>4 DEF StoreOK
<1>6. QED
  BY <1>1, <1>4, <1>5, PublishStill, MeshStill DEF IInv

LEMMA AbandonInv == IInv /\ (PollError \/ Restart) => IInv'
<1> SUFFICES ASSUME IInv, PollError \/ Restart PROVE IInv'
  OBVIOUS
<1>1. /\ phase' = "idle" /\ protocols' = <<>> /\ dialing' = {} /\ fetched' = {}
      /\ discovered' = {} /\ allRecords' = {} /\ snapshot' = None /\ steady' = {}
      /\ UNCHANGED meshVars /\ UNCHANGED storeVars
  BY DEF PollError, Restart, NoPoll
<1>2. nextPoll' \in Nat
  BY DEF PollError, Restart, IInv, IndexerTypeOK, MeshOK, TypeOK
<1>3. IndexerTypeOK'
  BY <1>1, <1>2, MeshStill DEF IInv, IndexerTypeOK, storeVars
<1>4. PhaseOK' /\ RecordsOK' /\ SteadyOK'
  BY <1>1 DEF PhaseOK, RecordsOK, OneEach, SteadyOK
<1>5. StoreOK'
  BY <1>1, StoreStill
<1>6. QED
  BY <1>1, <1>3, <1>4, <1>5, MeshStill DEF IInv

LEMMA StutterInv == IInv /\ UNCHANGED indexerVars => IInv'
BY DEF IInv, indexerVars, meshVars, vars, pollVars, storeVars, IndexerTypeOK, MeshOK,
       TypeOK, PhaseOK, StoreOK, SnapOK, RecordsOK, SteadyOK, OneEach, Done, Node, ProtocolOf, RecordExpiresAt,
       ExpiresAt

\* The invariant holds of every behaviour.
LEMMA Invariant == IndexerSpec => []IInv
<1>1. IInv /\ [IndexerNext]_indexerVars => IInv'
  <2> SUFFICES ASSUME IInv, [IndexerNext]_indexerVars PROVE IInv'
    OBVIOUS
  <2>1. CASE MeshStep
    BY <2>1, MeshInv
  <2>2. CASE Poll
    BY <2>2, PollInv
  <2>3. CASE DiscoverProviders
    BY <2>3, DiscoverInv
  <2>4. CASE \E p \in dialing : FetchRecord(p)
    BY <2>4, FetchInv
  <2>5. CASE VerifyRecords
    BY <2>5, VerifyInv
  <2>6. CASE \E r \in discovered : MirrorToWorker(r)
    BY <2>6, MirrorInv
  <2>7. CASE NextProtocol
    BY <2>7, NextProtocolInv
  <2>8. CASE TakeSnapshot
    BY <2>8, TakeSnapshotInv
  <2>9. CASE AddJSON \/ PinAdd \/ PublishIPNS
    BY <2>9, PublishInv
  <2>10. CASE PollError \/ Restart
    BY <2>10, AbandonInv
  <2>11. CASE UNCHANGED indexerVars
    BY <2>11, StutterInv
  <2>12. QED
    BY <2>1, <2>2, <2>3, <2>4, <2>5, <2>6, <2>7, <2>8, <2>9, <2>10, <2>11 DEF IndexerNext
<1>2. QED
  BY InitIInv, <1>1, PTL DEF IndexerSpec

-----------------------------------------------------------------------------
(* What holds of every behaviour.                                          *)

\* Type correctness: what a poll has collected is gone before anything is published,
\* and every record is one that some process has signed.
THEOREM IndexerTypeCorrect == IndexerSpec => []IndexerTypeOK
<1>1. IInv => IndexerTypeOK
  BY DEF IInv
<1>2. QED
  BY Invariant, <1>1, PTL

\* Whatever time a poll takes, and wherever the calls that publish fail, a published
\* snapshot that has not expired holds live records only: it carries the least of their
\* expiries.
THEOREM SnapshotsAreHonest == IndexerSpec => []SnapshotHonest
<1>1. IInv => SnapshotHonest
  <2> SUFFICES ASSUME IInv, ipns # None, now < ipns.expiresAt, NEW r \in ipns.records
               PROVE  ~IsRecordExpired(r)
    BY DEF SnapshotHonest
  <2>1. ipns.expiresAt <= RecordExpiresAt(r) /\ ipns.expiresAt \in Nat /\ r \in Record
    BY DEF IInv, StoreOK, SnapOK, Snapshot
  <2>2. RecordExpiresAt(r) \in Nat /\ now \in Nat
    BY <2>1, MeshNodeAssumption
       DEF IInv, MeshOK, TypeOK, Record, RecordExpiresAt, ExpiresAt
  <2>3. QED
    BY <2>1, <2>2 DEF IsRecordExpired
<1>2. QED
  BY Invariant, <1>1, PTL

\* A snapshot shows a node once, although the DHT lists each process of it and the two
\* protocols are deduplicated apart: a node has one protocol.
THEOREM NodesAppearOnce == IndexerSpec => []OneRecordPerNode
<1>1. IInv => OneRecordPerNode
  BY DEF IInv, StoreOK, SnapOK, OneEach, OneRecordPerNode
<1>2. QED
  BY Invariant, <1>1, PTL

\* The name points only to what the IPFS node has pinned.
THEOREM NamesArePinned == IndexerSpec => []NameIsPinned
<1>1. IInv => NameIsPinned
  BY DEF IInv, StoreOK, NameIsPinned
<1>2. QED
  BY Invariant, <1>1, PTL

\* A poll that ends has a record of the node of every process that was up, listed and
\* reachable throughout, whatever the other processes did meanwhile.
THEOREM PollsFindSteadyPeers == IndexerSpec => []PollFindsSteadyPeers
<1>1. IInv => PollFindsSteadyPeers
  <2> SUFFICES ASSUME IInv, phase = "snapshot", NEW p \in steady \cap WithKeyId
               PROVE  \E r \in allRecords : Node(r) = nodeIdOf[p]
    BY DEF PollFindsSteadyPeers
  <2>1. protocols = <<>>
    BY DEF IInv, PhaseOK
  <2>2. ProtocolOf(p) \in Done
    BY <2>1, Placed, Lists DEF IInv, IndexerTypeOK, Done
  <2>3. QED
    BY <2>2 DEF IInv, SteadyOK
<1>2. QED
  BY Invariant, <1>1, PTL

-----------------------------------------------------------------------------
(***************************************************************************)
(* What the published snapshots show of a peer never goes back, although a *)
(* poll keeps nothing of the one before.  When no announcement takes as    *)
(* long as an interval, a peer announces one heartbeat at a time, so what  *)
(* it serves is no newer than what it announces; what the indexer has      *)
(* fetched is no newer than either, and what it has published no newer     *)
(* than what it has fetched since.                                         *)
(***************************************************************************)

\* No heartbeat that the peer serves, announces or is still to make is before h.
Precedes(h, p) ==
    /\ h <= now
    /\ server[p] # None => h <= server[p]
    /\ \A x \in announcing[p] : h <= x

ServedFirst == \A p \in Peer : server[p] # None => \A x \in announcing[p] : server[p] <= x

\* The records on their way into a snapshot, and those that are published.
Making == IF phase \in {"add", "pin", "name"} THEN snapshot.records ELSE {}
Pending == fetched \cup discovered \cup allRecords \cup Making
Shown == IF ipns = None THEN {} ELSE ipns.records

NoneNewer == \A r \in Pending \cup Shown : Precedes(r.heartbeatAt, r.peer)
ShownFirst ==
    \A r \in Shown, s \in Pending : s.peer = r.peer => s.heartbeatAt >= r.heartbeatAt

OrderInv == Stages /\ Spaced /\ ServedFirst /\ NoneNewer /\ ShownFirst

LEMMA InitOrder == IndexerInit => OrderInv
<1> SUFFICES ASSUME IndexerInit PROVE OrderInv
  OBVIOUS
<1>1. Stages /\ Spaced
  BY MeshStart DEF IndexerInit
<1>2. ServedFirst
  BY DEF IndexerInit, Init, ServedFirst
<1>3. Pending = {} /\ Shown = {}
  BY DEF IndexerInit, Pending, Making, Shown
<1>4. QED
  BY <1>1, <1>2, <1>3 DEF OrderInv, NoneNewer, ShownFirst

\* A heartbeat is not announced before an older one has been.
LEMMA ServedFirstStep ==
  ASSUME MaxAnnounce < HeartbeatInterval, TypeOK, Stages, Spaced, ServedFirst,
         Next
  PROVE  ServedFirst'
<1> USE MeshNodeAssumption DEF TypeOK, ServedFirst
<1>1. CASE Tick
  BY <1>1 DEF Tick
<1>2. ASSUME NEW p \in Peer, PeerNext(p) PROVE ServedFirst'
  <2>1. CASE Start(p)
    BY <2>1 DEF Start, Stages
  <2>2. CASE Started(p)
    BY <2>2 DEF Started
  <2>3. CASE Announced(p)
    BY <2>3 DEF Announced
  <2>4. CASE DoHeartbeat(p)
    BY <2>4 DEF DoHeartbeat
  <2>5. ASSUME NEW r \in announcing[p], HeartbeatAnnounced(p, r) PROVE ServedFirst'
    <3>1. /\ announcing' = [announcing EXCEPT ![p] = announcing[p] \ {r}]
          /\ server' = [server EXCEPT ![p] = r]
      BY <2>5 DEF HeartbeatAnnounced, HeartbeatServer, StopRecordServer,
                  StartRecordServer
    <3>2. ASSUME NEW x \in announcing[p] PROVE r <= x
      <4>1. now <= x + MaxAnnounce /\ x \in Nat /\ r \in Nat /\ r <= now /\ now \in Nat
        BY <2>5 DEF HeartbeatAnnounced, Stages, Patience
      <4>2. r > x => r >= x + HeartbeatInterval
        BY DEF Spaced, Apart
      <4>3. QED
        BY <4>1, <4>2
    <3>3. QED
      BY <3>1, <3>2
  <2>6. CASE Shutdown(p)
    BY <2>6 DEF Shutdown, StopRecordServer
  <2>7. CASE Exit(p)
    BY <2>7 DEF Exit
  <2>8. QED
    BY <1>2, <2>1, <2>2, <2>3, <2>4, <2>5, <2>6, <2>7 DEF PeerNext
<1>3. QED
  BY <1>1, <1>2 DEF Next

\* The mesh does not go back behind what it has served.
LEMMA PrecedesStep ==
  ASSUME TypeOK, Stages, Next, NEW q \in Peer, NEW h \in Nat, Precedes(h, q)
  PROVE  Precedes(h, q)'
<1> USE MeshNodeAssumption DEF TypeOK, Precedes
<1>1. CASE Tick
  BY <1>1 DEF Tick
<1>2. ASSUME NEW p \in Peer, PeerNext(p) PROVE Precedes(h, q)'
  <2>1. CASE Start(p)
    BY <2>1 DEF Start
  <2>2. CASE Started(p)
    BY <2>2 DEF Started
  <2>3. CASE Announced(p)
    BY <2>3 DEF Announced, StartRecordServer
  <2>4. CASE DoHeartbeat(p)
    BY <2>4 DEF DoHeartbeat
  <2>5. CASE \E r \in announcing[p] : HeartbeatAnnounced(p, r)
    BY <2>5 DEF HeartbeatAnnounced, HeartbeatServer, StopRecordServer,
                StartRecordServer
  <2>6. CASE Shutdown(p)
    BY <2>6 DEF Shutdown, StopRecordServer
  <2>7. CASE Exit(p)
    BY <2>7 DEF Exit
  <2>8. QED
    BY <1>2, <2>1, <2>2, <2>3, <2>4, <2>5, <2>6, <2>7 DEF PeerNext
<1>3. QED
  BY <1>1, <1>2 DEF Next

\* The records that a poll works with are records.
LEMMA PendingRecords ==
  ASSUME IInv PROVE Pending \subseteq Record /\ Shown \subseteq Record
<1>1. Making \subseteq Record
  BY DEF IInv, StoreOK, SnapOK, Snapshot, Making
<1>2. Shown \subseteq Record
  BY DEF IInv, StoreOK, SnapOK, Snapshot, Shown
<1>3. QED
  BY <1>1, <1>2 DEF IInv, IndexerTypeOK, Pending

LEMMA MeshOrder ==
  ASSUME MaxAnnounce < HeartbeatInterval, IInv, OrderInv, MeshStep PROVE OrderInv'
<1>1. TypeOK /\ Next /\ [Next]_vars
  BY DEF IInv, MeshOK, MeshStep
<1>2. Stages' /\ Spaced' /\ ServedFirst'
  BY <1>1, StagesStep, SpacedStep, ServedFirstStep DEF OrderInv
<1>3. Pending' = Pending /\ Shown' = Shown
  BY DEF MeshStep, pollVars, storeVars, Pending, Making, Shown
<1>4. NoneNewer'
  <2>1. ASSUME NEW r \in Pending \cup Shown PROVE Precedes(r.heartbeatAt, r.peer)'
    <3>1. r.peer \in Peer /\ r.heartbeatAt \in Nat
      BY PendingRecords DEF Record
    <3>2. Precedes(r.heartbeatAt, r.peer)
      BY DEF OrderInv, NoneNewer
    <3>3. \A q \in Peer, h \in Nat : Precedes(h, q) => Precedes(h, q)'
      BY <1>1, PrecedesStep DEF OrderInv
    <3>4. QED
      BY <3>1, <3>2, <3>3 DEF Precedes
  <2>2. QED
    BY <1>3, <2>1 DEF NoneNewer, Precedes
<1>5. ShownFirst'
  BY <1>3 DEF OrderInv, ShownFirst
<1>6. QED
  BY <1>2, <1>4, <1>5 DEF OrderInv

\* A step of the indexer that adds to what is on its way only what a peer serves.
LEMMA IndexerOrder ==
  ASSUME IInv, OrderInv, UNCHANGED meshVars, Shown' = Shown,
         \A s \in Pending' : \/ s \in Pending
                             \/ /\ s.peer \in Peer /\ server[s.peer] # None
                                /\ s.heartbeatAt = server[s.peer]
  PROVE  OrderInv'
<1>1. Stages' /\ Spaced' /\ ServedFirst'
  BY DEF OrderInv, meshVars, vars, Stages, Spaced, Apart, ServedFirst, Patience
<1>2. ASSUME NEW s \in Pending', s \notin Pending
      PROVE  /\ Precedes(s.heartbeatAt, s.peer)
             /\ \A r \in Shown : s.peer = r.peer => s.heartbeatAt >= r.heartbeatAt
  <2>1. s.peer \in Peer /\ server[s.peer] # None /\ s.heartbeatAt = server[s.peer]
    BY <1>2
  <2>2. server[s.peer] \in Nat /\ server[s.peer] <= now
    BY <2>1 DEF IInv, MeshOK, TypeOK
  <2>3. Precedes(s.heartbeatAt, s.peer)
    BY <2>1, <2>2 DEF OrderInv, ServedFirst, Precedes
  <2>4. ASSUME NEW r \in Shown, s.peer = r.peer PROVE s.heartbeatAt >= r.heartbeatAt
    <3>1. Precedes(r.heartbeatAt, r.peer) /\ r.heartbeatAt \in Nat
      BY PendingRecords DEF OrderInv, NoneNewer, Record
    <3>2. QED
      BY <2>1, <2>2, <2>4, <3>1 DEF Precedes
  <2>5. QED
    BY <2>3, <2>4
<1>3. \A s \in Pending' \cup Shown : Precedes(s.heartbeatAt, s.peer)
  BY <1>2 DEF OrderInv, NoneNewer
<1>4. NoneNewer'
  BY <1>3 DEF NoneNewer, Precedes, meshVars, vars
<1>5. ShownFirst'
  BY <1>2 DEF OrderInv, ShownFirst
<1>6. QED
  BY <1>1, <1>4, <1>5 DEF OrderInv

\* A dial that is answered adds the record that the peer serves.
LEMMA FetchOrder ==
  ASSUME IInv, OrderInv, NEW p \in dialing, FetchRecord(p) PROVE OrderInv'
<1>1. UNCHANGED meshVars /\ Shown' = Shown /\ Making' = Making
  BY DEF FetchRecord, storeVars, Shown, Making
<1>2. p \in Peer
  BY DEF IInv, IndexerTypeOK
<1>3. ASSUME NEW s \in fetched', s \notin fetched
      PROVE  s.peer = p /\ server[p] # None /\ s.heartbeatAt = server[p]
  BY <1>3 DEF FetchRecord
<1>4. discovered' = discovered /\ allRecords' = allRecords
  BY DEF FetchRecord
<1>5. QED
  BY <1>1, <1>2, <1>3, <1>4, IndexerOrder DEF Pending

\* The other steps of a poll pass on some of the records that they are given.
LEMMA PassOrder ==
  ASSUME IInv, OrderInv,
         \/ Poll \/ DiscoverProviders \/ VerifyRecords \/ NextProtocol
         \/ \E r \in discovered : MirrorToWorker(r)
         \/ TakeSnapshot \/ AddJSON \/ PinAdd \/ PollError \/ Restart
  PROVE  OrderInv'
<1>1. UNCHANGED meshVars /\ ipns' = ipns
  BY DEF Poll, DiscoverProviders, VerifyRecords, NextProtocol, MirrorToWorker,
         TakeSnapshot, AddJSON, PinAdd, PollError, Restart, storeVars
<1>2. Pending' \subseteq Pending
  <2>1. CASE Poll
    BY <2>1 DEF Poll, Pending, Making
  <2>2. CASE DiscoverProviders
    BY <2>2 DEF DiscoverProviders, Pending, Making
  <2>3. CASE VerifyRecords
    <3>1. discovered' \subseteq fetched
      BY <2>3 DEF VerifyRecords, DeduplicateByNodeId
    <3>2. QED
      BY <2>3, <3>1 DEF VerifyRecords, Pending, Making
  <2>4. CASE NextProtocol
    BY <2>4 DEF NextProtocol, Pending, Making
  <2>5. CASE \E r \in discovered : MirrorToWorker(r)
    BY <2>5 DEF MirrorToWorker, Pending, Making
  <2>6. CASE TakeSnapshot
    <3>1. Making' \subseteq allRecords
      BY <2>6 DEF TakeSnapshot, CreateSnapshot, LiveRecords, Making
    <3>2. fetched' = fetched /\ discovered' = discovered /\ allRecords' = {}
      BY <2>6 DEF TakeSnapshot, NoRecords
    <3>3. QED
      BY <3>1, <3>2 DEF Pending
  <2>7. CASE AddJSON
    BY <2>7 DEF AddJSON, pollVars, Pending, Making
  <2>8. CASE PinAdd
    BY <2>8 DEF PinAdd, AfterFailedPin, pollVars, Pending, Making
  <2>9. CASE PollError \/ Restart
    BY <2>9 DEF PollError, Restart, NoPoll, Pending, Making
  <2>10. QED
    BY <2>1, <2>2, <2>3, <2>4, <2>5, <2>6, <2>7, <2>8, <2>9
<1>3. QED
  BY <1>1, <1>2, IndexerOrder DEF Shown

\* A snapshot is published when nothing else is on its way.
LEMMA PublishOrder == ASSUME IInv, OrderInv, PublishIPNS PROVE OrderInv'
<1>1. phase = "name" /\ phase' = "idle" /\ ipns' \in {snapshot, ipns}
      /\ UNCHANGED meshVars /\ UNCHANGED pollVars
  BY DEF PublishIPNS
<1>2. fetched = {} /\ discovered = {} /\ allRecords = {}
  BY <1>1 DEF IInv, IndexerTypeOK, PhaseOK
<1>3. Pending' = {}
  BY <1>1, <1>2 DEF pollVars, Pending, Making
<1>4. Shown' \subseteq Pending \cup Shown
  BY <1>1 DEF Shown, Pending, Making
<1>5. Stages' /\ Spaced' /\ ServedFirst'
  BY <1>1 DEF OrderInv, meshVars, vars, Stages, Spaced, Apart, ServedFirst, Patience
<1>6. NoneNewer'
  BY <1>1, <1>3, <1>4 DEF OrderInv, NoneNewer, Precedes, meshVars, vars
<1>7. ShownFirst'
  BY <1>3 DEF ShownFirst
<1>8. QED
  BY <1>5, <1>6, <1>7 DEF OrderInv

LEMMA StutterOrder == ASSUME IInv, OrderInv, UNCHANGED indexerVars PROVE OrderInv'
<1>1. UNCHANGED meshVars /\ Shown' = Shown /\ Pending' = Pending
  BY DEF indexerVars, pollVars, storeVars, Shown, Pending, Making
<1>2. QED
  BY <1>1, IndexerOrder

LEMMA NextOrder ==
  ASSUME MaxAnnounce < HeartbeatInterval, IInv, OrderInv, [IndexerNext]_indexerVars
  PROVE  OrderInv'
BY MeshOrder, FetchOrder, PassOrder, PublishOrder, StutterOrder DEF IndexerNext

\* When no announcement takes as long as an interval, the heartbeat that the published
\* snapshots show of a peer never goes back, whichever polls are abandoned, publications
\* fail or come late, and processes end: a snapshot is published after everything in it
\* was fetched, and fetched after everything that was published before.
THEOREM SnapshotsInOrder ==
    ASSUME MaxAnnounce < HeartbeatInterval PROVE IndexerSpec => SnapshotNeverRegresses
<1> DEFINE Forward == \A r \in (IF ipns = None THEN {} ELSE ipns.records) :
             ipns' # None =>
                 \A s \in ipns'.records : s.peer = r.peer => s.heartbeatAt >= r.heartbeatAt
<1>1. IInv /\ OrderInv /\ [IndexerNext]_indexerVars => OrderInv'
  BY NextOrder
<1>2. IInv /\ OrderInv /\ [IndexerNext]_indexerVars => [Forward]_indexerVars
  <2> SUFFICES ASSUME IInv, OrderInv, IndexerNext, ipns # None, ipns' # None,
                      NEW r \in ipns.records, NEW s \in ipns'.records, s.peer = r.peer
               PROVE  s.heartbeatAt >= r.heartbeatAt
    OBVIOUS
  <2>1. r \in Shown /\ ipns \in Snapshot
    BY DEF Shown, IInv, StoreOK, SnapOK
  <2>2. CASE ipns' = ipns
    <3>1. OneEach(ipns.records) /\ r \in Record
      BY <2>1, PendingRecords DEF IInv, StoreOK, SnapOK
    <3>2. s = r
      BY <2>2, <3>1 DEF OneEach, Node
    <3>3. QED
      BY <3>1, <3>2 DEF Record
  <2>3. CASE ipns' # ipns
    <3>1. PublishIPNS
      BY <2>3 DEF IndexerNext, MeshStep, Poll, DiscoverProviders, FetchRecord,
                  VerifyRecords, NextProtocol, MirrorToWorker, TakeSnapshot, AddJSON, PinAdd, PollError,
                  Restart, storeVars
    <3>2. s \in Pending
      BY <2>3, <3>1 DEF PublishIPNS, Pending, Making
    <3>3. QED
      BY <2>1, <3>2 DEF OrderInv, ShownFirst
  <2>4. QED
    BY <2>2, <2>3
<1>3. QED
  BY InitOrder, <1>1, <1>2, Invariant, PTL DEF IndexerSpec, SnapshotNeverRegresses

-----------------------------------------------------------------------------

\* The indexer only watches: below it, the mesh nodes behave as MeshNode says, so that
\* what is proved of them by themselves holds beside the indexer too.
THEOREM MeshUndisturbed == IndexerSpec => Spec
<1>1. IndexerInit => Init
  BY DEF IndexerInit
<1>2. [IndexerNext]_indexerVars => [Next]_vars
  <2> SUFFICES ASSUME [IndexerNext]_indexerVars PROVE Next \/ UNCHANGED vars
    OBVIOUS
  <2>1. CASE MeshStep
    BY <2>1 DEF MeshStep
  <2>2. CASE ~MeshStep
    <3>1. UNCHANGED meshVars
      BY <2>2 DEF IndexerNext, Poll, DiscoverProviders, FetchRecord, VerifyRecords,
                  NextProtocol,
                  MirrorToWorker, TakeSnapshot, AddJSON, PinAdd, PublishIPNS, PollError,
                  Restart, indexerVars
    <3>2. QED
      BY <3>1 DEF meshVars, vars
  <2>3. QED
    BY <2>1, <2>2
<1>3. QED
  BY <1>1, <1>2, PTL DEF IndexerSpec, Spec
=============================================================================
