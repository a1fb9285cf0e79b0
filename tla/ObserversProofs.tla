--------------------------- MODULE ObserversProofs ---------------------------
(***************************************************************************)
(* Proofs about the operator's tools: for any peers, any addresses, any    *)
(* threshold, and as long as time goes on.                                 *)
(***************************************************************************)
EXTENDS Observers, FiniteSetTheorems, TLAPS

LEMMA NoneIsNone ==
  None \notin Nat /\ None # TRUE /\ None # FALSE /\ None \notin {"none", "some", "failed"}
BY GhostDetectorAssumption

LEMMA Clock ==
  /\ MaxTime \in Nat /\ Ttl \in Nat /\ 0 \in Time /\ 1 \in Time
  /\ \A t \in 0..MaxTime : t \in Time /\ t + Ttl \in Time /\ t \in Nat
  /\ \A t \in Time : t \in Nat /\ t # None
BY GhostDetectorAssumption DEF Time

-----------------------------------------------------------------------------
(* The offline tools.                                                      *)

\* A report shows an unburied record as an orphan if it has expired before the time
\* of the report, and only if it has not expired after it.
ReportsOK ==
    /\ \A r \in reports : \A k \in r.orphans : file.record[k] <= r.at
    /\ \A r \in reports : \A k \in r.orphans : k \in Records
    /\ \A r \in reports : \A k \in r.orphans : k[2] \notin file.tombstonePeerIds
    /\ \A r \in reports : \A k \in Records :
           k[2] \notin file.tombstonePeerIds /\ k \notin r.orphans
               => r.at <= file.record[k]

FileInv == InspectorTypeOK /\ ReportsOK

LEMMA RecordTimes ==
  ASSUME InspectorTypeOK, NEW k \in Records
  PROVE  k \in Key /\ file.record[k] \in Nat
BY Clock DEF InspectorTypeOK, Snapshot, Records

\* A report made now, of the right records, keeps the invariant.
LEMMA NewReport ==
  ASSUME FileInv, now \in 0..MaxTime, NEW by, NEW orphans \in SUBSET Records,
         by \in {"scanJson", "scanFromFile", "formatEntry", "computeSummary"},
         ReportsNow(by, orphans), UNCHANGED <<now, file>>,
         \A k \in orphans : file.record[k] <= now /\ k[2] \notin file.tombstonePeerIds,
         \A k \in Records : k[2] \notin file.tombstonePeerIds /\ k \notin orphans
             => now <= file.record[k]
  PROVE  /\ reports' \subseteq Report /\ \A r \in reports' : r.at <= now
         /\ ReportsOK'
<1> DEFINE new == [by |-> by, at |-> now, orphans |-> orphans]
<1>1. new \in Report
  BY DEF Report, Records
<1>2. new.at = now /\ new.orphans = orphans
  OBVIOUS
<1>3. reports' = reports \cup {new}
  BY DEF ReportsNow
<1> HIDE DEF new
<1>4. reports' \subseteq Report /\ \A r \in reports' : r.at <= now
  BY <1>1, <1>2, <1>3, Clock DEF FileInv, InspectorTypeOK
<1>5. Records' = Records
  BY DEF Records
<1>6. ReportsOK'
  BY <1>2, <1>3, <1>5 DEF FileInv, ReportsOK
<1>7. QED  BY <1>4, <1>6

LEMMA OrphansNow ==
  ASSUME FileInv, now \in 0..MaxTime
  PROVE  /\ Orphans \subseteq Records
         /\ \A k \in Orphans : file.record[k] <= now /\ k[2] \notin file.tombstonePeerIds
         /\ \A k \in Records : k[2] \notin file.tombstonePeerIds /\ k \notin Orphans
                => now <= file.record[k]
BY RecordTimes, Clock DEF Orphans, IsExpired, FileInv

LEMMA GhostsNow ==
  ASSUME FileInv, now \in 0..MaxTime,
         NEW orphans,
         orphans = {k \in Records :
                      IsGhost([expiresAt |-> file.record[k],
                               tombstoned |-> k[2] \in file.tombstonePeerIds], now)}
  PROVE  /\ orphans \subseteq Records
         /\ \A k \in orphans : file.record[k] <= now /\ k[2] \notin file.tombstonePeerIds
         /\ \A k \in Records : k[2] \notin file.tombstonePeerIds /\ k \notin orphans
                => now <= file.record[k]
<1>1. ASSUME NEW k \in Records
      PROVE  k \in orphans <=> /\ ~(now < file.record[k])
                               /\ k[2] \notin file.tombstonePeerIds
  BY <1>1 DEF IsGhost, ClassifyPeer
<1>2. ASSUME NEW k \in Records PROVE file.record[k] \in Nat
  BY RecordTimes DEF FileInv
<1>3. QED
  BY <1>1, <1>2, Clock

LEMMA FileSteps ==
  ASSUME FileInv, now \in 0..MaxTime, InspectorStep, UNCHANGED now
  PROVE  FileInv'
<1>1. CASE ScanJson
  <2> DEFINE orphans == {k \in Records :
                IsGhost([expiresAt |-> file.record[k],
                         tombstoned |-> k[2] \in file.tombstonePeerIds], now)}
  <2>1. ReportsNow("scanJson", orphans) /\ UNCHANGED <<file, inspect>>
    BY <1>1 DEF ScanJson
  <2> HIDE DEF orphans
  <2>2. /\ orphans \subseteq Records
        /\ \A k \in orphans : file.record[k] <= now /\ k[2] \notin file.tombstonePeerIds
        /\ \A k \in Records : k[2] \notin file.tombstonePeerIds /\ k \notin orphans
               => now <= file.record[k]
    BY GhostsNow DEF orphans
  <2>3. /\ reports' \subseteq Report /\ \A r \in reports' : r.at <= now
        /\ ReportsOK'
    BY <2>1, <2>2, NewReport
  <2>4. QED
    BY <2>1, <2>3 DEF FileInv, InspectorTypeOK
<1>2. CASE ScanFromFile
  <2>1. ReportsOK' /\ reports' \subseteq Report /\ \A r \in reports' : r.at <= now
    BY <1>2, OrphansNow, NewReport DEF ScanFromFile
  <2>2. QED
    BY <1>2, <2>1 DEF FileInv, InspectorTypeOK, ScanFromFile
<1>3. CASE ListEntries
  <2>1. ReportsOK' /\ reports' \subseteq Report /\ \A r \in reports' : r.at <= now
    BY <1>3, OrphansNow, NewReport DEF ListEntries
  <2>2. QED
    BY <1>3, <2>1 DEF FileInv, InspectorTypeOK, ListEntries
<1>4. CASE ComputeSummary
  <2>1. ReportsOK' /\ reports' \subseteq Report /\ \A r \in reports' : r.at <= now
    BY <1>4, OrphansNow, NewReport DEF ComputeSummary
  <2>2. QED
    BY <1>4, <2>1 DEF FileInv, InspectorTypeOK, ComputeSummary
<1>5. QED
  BY <1>1, <1>2, <1>3, <1>4 DEF InspectorStep

LEMMA FileInvAgree == FileInv => ReportsAgree
<1> SUFFICES ASSUME FileInv, NEW r \in reports, NEW other \in reports,
                    NEW k \in r.orphans \ other.orphans
             PROVE  other.at <= file.record[k] /\ file.record[k] <= r.at
  BY DEF ReportsAgree
<1>1. k \in Records /\ k[2] \notin file.tombstonePeerIds /\ file.record[k] <= r.at
  BY DEF FileInv, ReportsOK
<1>2. QED
  BY <1>1 DEF FileInv, ReportsOK

-----------------------------------------------------------------------------
(* The bootstrap validator.                                                *)

\* Who was found reachable was up then, and whoever is up all the time and answers
\* in time is found reachable when its turn comes.
ChecksOK ==
    /\ ok \subseteq seenUp
    /\ step = "resolve" => allPeers = {} /\ left = {}
    /\ step = "fetch" => left = {} /\ ok = {}
    /\ step \in {"check", "done"} => allPeers \cap alwaysUp \subseteq ok \cup left
    /\ step = "done" => left = {}
    /\ step = "done" => exit = ExitCode(Cardinality(ok), Cardinality(allPeers))

ValidatorInv == ValidatorTypeOK /\ ChecksOK

LEMMA DivMonotone ==
  ASSUME NEW x \in Nat, NEW y \in Nat, NEW d \in Nat \ {0}, x <= y
  PROVE  x \div d <= y \div d
<1>1. PICK q \in Nat : q = x \div d
  BY SMT
<1>2. PICK w \in Nat : w = y \div d
  BY SMT
<1>3. d * q <= x
  BY <1>1, SMT
<1>4. y < d * w + d
  BY <1>2, SMT
<1>5. d * q < d * (w + 1)
  BY <1>3, <1>4, SMT
<1>6. q < w + 1
  BY <1>5, SMT
<1>7. QED
  BY <1>1, <1>2, <1>6

LEMMA ExitCodeRange == ASSUME NEW r, NEW t PROVE ExitCode(r, t) \in 0..3
BY DEF ExitCode

\* The more peers are reachable, the better the verdict.
LEMMA ExitCodeMonotone ==
  ASSUME NEW a \in Nat, NEW b \in Nat, NEW total \in Nat, a <= b
  PROVE  ExitCode(b, total) <= ExitCode(a, total)
<1>1. CASE total = 0
  BY <1>1 DEF ExitCode
<1>2. CASE total # 0
  <2>1. 200 * a + total \in Nat /\ 200 * b + total \in Nat /\ 2 * total \in Nat \ {0}
        /\ 200 * a + total <= 200 * b + total
    BY <1>2
  <2>2. Pct(a, total) <= Pct(b, total)
    BY <2>1, DivMonotone DEF Pct
  <2>3. Pct(a, total) \in Int /\ Pct(b, total) \in Int
    BY <2>1, SMT DEF Pct
  <2>4. Threshold \in Int
    BY BootstrapValidatorAssumption
  <2>5. ExitCode(a, total) \in 0..2 /\ ExitCode(b, total) \in 0..2
    BY <1>2 DEF ExitCode
  <2>6. ExitCode(b, total) = 2 => ExitCode(a, total) = 2
    BY <1>2 DEF ExitCode
  <2>7. ExitCode(b, total) = 1 => ExitCode(a, total) # 0
    BY <1>2, <2>2, <2>3, <2>4 DEF ExitCode
  <2>8. QED
    BY <2>5, <2>6, <2>7
<1>3. QED  BY <1>1, <1>2

\* The same of the sets that are counted.
LEMMA MoreReachable ==
  ASSUME NEW A, NEW B \in SUBSET Addr, A \subseteq B, NEW T \in SUBSET Addr
  PROVE  ExitCode(Cardinality(B), Cardinality(T)) <= ExitCode(Cardinality(A), Cardinality(T))
<1>1. IsFiniteSet(B) /\ IsFiniteSet(T)
  BY FS_Subset, BootstrapValidatorAssumption
<1>2. IsFiniteSet(A) /\ Cardinality(A) <= Cardinality(B)
  BY <1>1, FS_Subset
<1>3. Cardinality(A) \in Nat /\ Cardinality(B) \in Nat /\ Cardinality(T) \in Nat
  BY <1>1, <1>2, FS_CardinalityType
<1>4. QED
  BY <1>2, <1>3, ExitCodeMonotone

LEMMA ValidatorSteps ==
  ASSUME ValidatorInv, ValidatorStep
  PROVE  ValidatorInv'
<1> USE DEF ValidatorInv
<1> USE BootstrapValidatorAssumption
<1>1. CASE ResolvePeers
  <2>1. allPeers' \subseteq Addr
    BY <1>1 DEF ResolvePeers, Resolved
  <2>2. QED
    BY <1>1, <2>1 DEF ResolvePeers, ValidatorTypeOK, ChecksOK
<1>2. CASE FetchFromCoordinator
  BY <1>2 DEF FetchFromCoordinator, ValidatorTypeOK, ChecksOK
<1>3. CASE \E a \in Addr : Invalid(a)
  BY <1>3 DEF Invalid, ValidatorTypeOK, ChecksOK
<1>4. CASE \E a \in Addr : TcpCheck(a)
  <2> PICK a \in Addr : TcpCheck(a)
    BY <1>4
  <2>1. ValidatorTypeOK'
    BY DEF TcpCheck, ValidatorTypeOK
  <2>2. ChecksOK'
    BY DEF TcpCheck, Reachable, ValidatorTypeOK, ChecksOK
  <2>3. QED  BY <2>1, <2>2
<1>5. CASE Summarize
  <2>1. exit' \in 0..3
    BY <1>5, ExitCodeRange DEF Summarize
  <2>2. ValidatorTypeOK'
    BY <1>5, <2>1 DEF Summarize, ValidatorTypeOK
  <2>3. ChecksOK'
    BY <1>5 DEF Summarize, ChecksOK
  <2>4. QED  BY <2>2, <2>3
<1>6. CASE \E a \in Valid \ up : PeerUp(a)
  BY <1>6 DEF PeerUp, ValidatorTypeOK, ChecksOK
<1>7. CASE \E a \in up : PeerDown(a)
  BY <1>7 DEF PeerDown, ValidatorTypeOK, ChecksOK
<1>8. QED
  BY <1>1, <1>2, <1>3, <1>4, <1>5, <1>6, <1>7 DEF ValidatorStep

LEMMA ValidatorInvInBounds == ValidatorInv => VerdictInBounds
<1> SUFFICES ASSUME ValidatorInv, step = "done"
             PROVE  /\ ExitCode(Cardinality(allPeers \cap seenUp), Cardinality(allPeers)) <= exit
                    /\ exit <= ExitCode(Cardinality(allPeers \cap alwaysUp), Cardinality(allPeers))
  BY DEF VerdictInBounds
<1>1. allPeers \in SUBSET Addr /\ ok \in SUBSET Addr
      /\ allPeers \cap seenUp \in SUBSET Addr
  BY DEF ValidatorInv, ValidatorTypeOK
<1>2. ok \subseteq allPeers \cap seenUp /\ allPeers \cap alwaysUp \subseteq ok
  BY DEF ValidatorInv, ValidatorTypeOK, ChecksOK
<1>3. exit = ExitCode(Cardinality(ok), Cardinality(allPeers))
  BY DEF ValidatorInv, ChecksOK
<1>4. QED
  BY <1>1, <1>2, <1>3, MoreReachable

-----------------------------------------------------------------------------
(* The live scan.                                                          *)

\* The tombstones that the scan knows of are there; one that was there before is
\* known, or the get of it has failed.
CacheOK ==
    /\ scan = "off" => /\ tombstoneCache = [p \in Peer |-> None]
                       /\ results = {} /\ steady = {} /\ ghosts = None
    /\ \A p \in Peer : tombstoneCache[p] = TRUE => p \in buried
    /\ \A p \in early : tombstoneCache[p] = FALSE => p \in unseen
    /\ scan = "tombstone" => got.peer \in Peer /\ tombstoneCache[got.peer] = None
    /\ scan \in {"record", "tombstone"} => protocols # <<>>

\* The protocols that have not been begun with.
Ahead == IF protocols = PROTOCOLS THEN {"hysteria2"} ELSE {}

\* A steady ghost is one all the time.
SteadyOK ==
    \A k \in steady : /\ k[2] \in linked /\ k[2] \notin buried
                      /\ record[k] \in Nat /\ record[k] <= scanTime

\* It is among the results, or the scan has still to come to it.
Shown(k) == \E r \in results : /\ r.protocol = k[1] /\ r.peer = k[2]
                               /\ r.expiresAt <= scanTime
ToCome(k) ==
    \/ scan = "protocol" /\ protocols # <<>> /\ k[1] \in Ahead \cup {Head(protocols)}
    \/ scan \in {"record", "tombstone"} /\ k[1] \in Ahead
    \/ scan \in {"record", "tombstone"} /\ k[1] = Head(protocols) /\ k[2] \in peers
    \/ /\ scan = "tombstone" /\ got.protocol = k[1] /\ got.peer = k[2]
       /\ got.expiresAt <= scanTime
CoverOK ==
    /\ scan \notin {"off", "done"} => \A k \in steady : Shown(k) \/ ToCome(k)
    /\ scan # "done" => ghosts = None
    /\ SteadyGhostsReported

ScanInv == GhostTypeOK /\ CacheOK /\ SteadyOK /\ CoverOK

LEMMA ProtocolList ==
  /\ PROTOCOLS # <<>> /\ Head(PROTOCOLS) = "vless" /\ Tail(PROTOCOLS) = <<"hysteria2">>
  /\ <<"hysteria2">> # <<>> /\ Head(<<"hysteria2">>) = "hysteria2"
  /\ Tail(<<"hysteria2">>) = <<>> /\ <<"hysteria2">> # PROTOCOLS
  /\ "vless" \in Protocol /\ "hysteria2" \in Protocol
<1>1. Head(PROTOCOLS) = "vless" /\ Tail(PROTOCOLS) = <<"hysteria2">>
  BY DEF PROTOCOLS
<1>2. PROTOCOLS # <<>> /\ <<"hysteria2">> # <<>> /\ <<"hysteria2">> # PROTOCOLS
  BY DEF PROTOCOLS
<1>3. Head(<<"hysteria2">>) = "hysteria2" /\ Tail(<<"hysteria2">>) = <<>>
  OBVIOUS
<1>4. QED
  BY <1>1, <1>2, <1>3 DEF Protocol

LEMMA HeadInProtocol ==
  ASSUME protocols \in {<<>>, <<"hysteria2">>, PROTOCOLS}, protocols # <<>>
  PROVE  /\ Head(protocols) \in Protocol
         /\ Tail(protocols) \in {<<>>, <<"hysteria2">>, PROTOCOLS}
         /\ Ahead = IF Tail(protocols) = <<>> THEN {} ELSE {Head(Tail(protocols))}
         /\ Tail(protocols) # PROTOCOLS
BY ProtocolList DEF Ahead

\* What the DHT does keeps the invariant.
LEMMA DhtSteps ==
  ASSUME ScanInv, now \in 0..MaxTime, DhtStep, UNCHANGED now
  PROVE  ScanInv'
<1> USE DEF ScanInv
<1>1. CASE \E protocol \in Protocol, p \in Peer : Put(protocol, p)
  <2> PICK protocol \in Protocol, p \in Peer : Put(protocol, p)
    BY <1>1
  <2>1. <<protocol, p>> \in Key /\ now + Ttl \in Time
    BY Clock DEF Key
  <2>2. record' \in [Key -> Time \cup {None}]
    BY <2>1 DEF Put, GhostTypeOK
  <2>3. GhostTypeOK'
    BY <2>2 DEF Put, reading, GhostTypeOK
  <2>4. CacheOK'
    BY DEF Put, reading, CacheOK
  <2>5. \A k \in steady' : k \in steady /\ k \in Key /\ record'[k] = record[k]
    BY DEF Put, GhostTypeOK
  <2>6. SteadyOK'
    BY <2>5 DEF Put, reading, SteadyOK
  <2>7. CoverOK'
    BY <2>5 DEF Put, reading, CoverOK, Shown, ToCome, Ahead, SteadyGhostsReported
  <2>8. QED  BY <2>3, <2>4, <2>6, <2>7
<1>2. CASE \E p \in Peer \ buried : Bury(p)
  <2> PICK p \in Peer : Bury(p)
    BY <1>2
  <2>1. GhostTypeOK'
    BY DEF Bury, reading, GhostTypeOK
  <2>2. CacheOK'
    BY DEF Bury, reading, CacheOK
  <2>3. \A k \in steady' : k \in steady /\ k[2] # p
    BY DEF Bury, Key, GhostTypeOK
  <2>4. SteadyOK'
    BY <2>3 DEF Bury, reading, SteadyOK
  <2>5. CoverOK'
    BY <2>3 DEF Bury, reading, CoverOK, Shown, ToCome, Ahead, SteadyGhostsReported
  <2>6. QED  BY <2>1, <2>2, <2>4, <2>5
<1>3. CASE \E p \in Peer \ linked : Connect(p)
  <2>1. GhostTypeOK'
    BY <1>3 DEF Connect, reading, GhostTypeOK
  <2>2. CacheOK' /\ SteadyOK'
    BY <1>3 DEF Connect, reading, CacheOK, SteadyOK
  <2>3. CoverOK'
    BY <1>3 DEF Connect, reading, CoverOK, Shown, ToCome, Ahead, SteadyGhostsReported
  <2>4. QED  BY <2>1, <2>2, <2>3
<1>4. CASE \E p \in linked : Disconnect(p)
  <2> PICK p \in linked : Disconnect(p)
    BY <1>4
  <2>1. GhostTypeOK'
    BY DEF Disconnect, reading, GhostTypeOK
  <2>2. CacheOK'
    BY DEF Disconnect, reading, CacheOK
  <2>3. \A k \in steady' : k \in steady /\ k[2] # p
    BY DEF Disconnect, Key, GhostTypeOK
  <2>4. SteadyOK'
    BY <2>3 DEF Disconnect, reading, SteadyOK
  <2>5. CoverOK'
    BY <2>3 DEF Disconnect, reading, CoverOK, Shown, ToCome, Ahead, SteadyGhostsReported
  <2>6. QED  BY <2>1, <2>2, <2>4, <2>5
<1>5. QED
  BY <1>1, <1>2, <1>3, <1>4 DEF DhtStep

LEMMA BeginScanStep ==
  ASSUME ScanInv, now \in 0..MaxTime, BeginScan, UNCHANGED now
  PROVE  ScanInv'
<1> USE DEF ScanInv
<1>1. \A k \in steady' : /\ k \in Key /\ k[2] \in linked \ buried
                         /\ record[k] # None /\ record[k] <= now
  BY DEF BeginScan
<1>2. \A k \in Key : record[k] # None => record[k] \in Nat
  BY Clock DEF GhostTypeOK
<1>3. GhostTypeOK'
  BY <1>1, Clock DEF BeginScan, dht, GhostTypeOK
<1>4. CacheOK'
  BY NoneIsNone, ProtocolList DEF BeginScan, dht, CacheOK, GhostTypeOK
<1>5. SteadyOK'
  BY <1>1, <1>2 DEF BeginScan, dht, SteadyOK
<1>6. \A k \in Key : k[1] \in {"vless", "hysteria2"}
  BY DEF Key, Protocol
<1>7. \A k \in steady' : ToCome(k)'
  BY <1>1, <1>6, ProtocolList DEF BeginScan, ToCome, Ahead
<1>8. CoverOK'
  BY <1>7, NoneIsNone DEF BeginScan, CoverOK, SteadyGhostsReported, CacheOK
<1>9. QED  BY <1>3, <1>4, <1>5, <1>8

LEMMA KnownPeersStep ==
  ASSUME ScanInv, KnownPeers, UNCHANGED now
  PROVE  ScanInv'
<1> USE DEF ScanInv
<1>1. GhostTypeOK'
  BY DEF KnownPeers, dht, GhostTypeOK
<1>2. CacheOK' /\ SteadyOK'
  BY DEF KnownPeers, dht, CacheOK, SteadyOK
<1>3. \A k \in steady' : Shown(k)' \/ ToCome(k)'
  BY DEF KnownPeers, dht, CoverOK, SteadyOK, Shown, ToCome, Ahead
<1>4. CoverOK'
  BY <1>3, NoneIsNone DEF KnownPeers, CoverOK, SteadyGhostsReported
<1>5. QED  BY <1>1, <1>2, <1>4

LEMMA GetRecordSteps ==
  ASSUME ScanInv, now \in 0..MaxTime, NEW p \in Peer, GetRecord(p), UNCHANGED now
  PROVE  ScanInv'
<1> USE DEF ScanInv
<1> DEFINE key == <<Head(protocols), p>>
<1>1. scan = "record" /\ p \in peers /\ protocols # <<>>
  BY DEF GetRecord, CacheOK, GhostTypeOK
<1>2. Head(protocols) \in Protocol /\ key \in Key
  BY <1>1, HeadInProtocol DEF GhostTypeOK, Key
<1>3. Ahead' = Ahead /\ Head(protocols)' = Head(protocols)
  BY DEF GetRecord, Ahead
<1>4. ASSUME NEW k \in steady, k # key PROVE k[1] # Head(protocols) \/ k[2] # p
  BY <1>4 DEF GhostTypeOK, Key
<1>5. CASE /\ steady' = steady \ {key}
           /\ UNCHANGED <<scan, got, results>>
  <2>1. GhostTypeOK'
    BY <1>5 DEF GetRecord, dht, GhostTypeOK
  <2>2. CacheOK' /\ SteadyOK'
    BY <1>1, <1>5 DEF GetRecord, dht, CacheOK, SteadyOK
  <2>3. \A k \in steady' : Shown(k)' \/ ToCome(k)'
    BY <1>1, <1>3, <1>4, <1>5 DEF GetRecord, CoverOK, Shown, ToCome
  <2>4. CoverOK'
    BY <1>1, <1>5, <2>3, NoneIsNone DEF GetRecord, CoverOK, SteadyGhostsReported
  <2>5. QED  BY <2>1, <2>2, <2>4
<1>6. CASE /\ record[key] # None
           /\ Cached(p) = None
           /\ scan' = "tombstone"
           /\ got' = PeerRecord(p, FALSE)
           /\ UNCHANGED <<results, steady>>
  <2>1. record[key] \in Time
    BY <1>2, <1>6 DEF GhostTypeOK
  <2>2. got' \in Result /\ got'.peer = p /\ got'.protocol = Head(protocols)
        /\ got'.expiresAt = record[key]
    BY <1>2, <1>6, <2>1 DEF PeerRecord, Result
  <2>3. GhostTypeOK'
    BY <1>6, <2>2 DEF GetRecord, dht, GhostTypeOK
  <2>4. CacheOK'
    BY <1>1, <1>6, <2>2 DEF GetRecord, dht, CacheOK, Cached
  <2>5. SteadyOK'
    BY <1>6 DEF GetRecord, dht, SteadyOK
  <2>6. \A k \in steady' : Shown(k)' \/ ToCome(k)'
    <3> SUFFICES ASSUME NEW k \in steady PROVE Shown(k)' \/ ToCome(k)'
      BY <1>6
    <3>1. CASE k = key
      BY <1>6, <2>2, <3>1 DEF GetRecord, SteadyOK, ToCome
    <3>2. CASE k # key
      BY <1>1, <1>3, <1>4, <1>6, <3>2 DEF GetRecord, CoverOK, Shown, ToCome
    <3>3. QED  BY <3>1, <3>2
  <2>7. CoverOK'
    BY <1>1, <1>6, <2>6, NoneIsNone DEF GetRecord, CoverOK, SteadyGhostsReported
  <2>8. QED  BY <2>3, <2>4, <2>5, <2>7
<1>7. CASE /\ record[key] # None
           /\ Cached(p) # None
           /\ results' = results \cup {PeerRecord(p, Cached(p))}
           /\ UNCHANGED <<scan, got, steady>>
  <2> DEFINE r == PeerRecord(p, Cached(p))
  <2>1. record[key] \in Time /\ tombstoneCache[p] \in BOOLEAN /\ Cached(p) = tombstoneCache[p]
    BY <1>2, <1>7 DEF GhostTypeOK, Cached
  <2>2. r \in Result /\ r.peer = p /\ r.protocol = Head(protocols)
        /\ r.expiresAt = record[key] /\ r.tombstoned = tombstoneCache[p]
    BY <1>2, <2>1 DEF PeerRecord, Result
  <2>3. results' = results \cup {r}
    BY <1>7
  <2> HIDE DEF r
  <2>4. GhostTypeOK'
    BY <1>7, <2>2, <2>3 DEF GetRecord, dht, GhostTypeOK
  <2>5. CacheOK'
    BY <1>1, <1>7 DEF GetRecord, dht, CacheOK
  <2>6. SteadyOK'
    BY <1>7 DEF GetRecord, dht, SteadyOK
  <2>7. \A k \in steady' : Shown(k)' \/ ToCome(k)'
    <3> SUFFICES ASSUME NEW k \in steady PROVE Shown(k)' \/ ToCome(k)'
      BY <1>7
    <3>1. CASE k = key
      BY <1>7, <2>2, <2>3, <3>1 DEF GetRecord, SteadyOK, Shown
    <3>2. CASE k # key
      BY <1>1, <1>3, <1>4, <1>7, <2>3, <3>2 DEF GetRecord, CoverOK, Shown, ToCome
    <3>3. QED  BY <3>1, <3>2
  <2>8. CoverOK'
    BY <1>1, <1>7, <2>7, NoneIsNone DEF GetRecord, CoverOK, SteadyGhostsReported
  <2>9. QED  BY <2>4, <2>5, <2>6, <2>8
<1>8. QED
  BY <1>5, <1>6, <1>7 DEF GetRecord

LEMMA GetTombstoneStep ==
  ASSUME ScanInv, GetTombstone, UNCHANGED now
  PROVE  ScanInv'
<1> USE DEF ScanInv
<1>1. scan = "tombstone" /\ got \in Result /\ got.peer \in Peer
      /\ tombstoneCache[got.peer] = None /\ protocols # <<>>
  BY DEF GetTombstone, CacheOK, GhostTypeOK
<1>2. PICK throws \in BOOLEAN :
        LET tombstoned == ~throws /\ got.peer \in buried
        IN  /\ tombstoneCache' = [tombstoneCache EXCEPT ![got.peer] = tombstoned]
            /\ results' = results \cup
                 {[protocol |-> got.protocol, peer |-> got.peer,
                   expiresAt |-> got.expiresAt, tombstoned |-> tombstoned]}
            /\ unseen' = IF throws THEN unseen \cup {got.peer} ELSE unseen
  BY DEF GetTombstone
<1> DEFINE t == ~throws /\ got.peer \in buried
           r == [protocol |-> got.protocol, peer |-> got.peer,
                 expiresAt |-> got.expiresAt, tombstoned |-> t]
<1>3. t \in BOOLEAN /\ (t = TRUE => got.peer \in buried)
      /\ (t = FALSE /\ got.peer \in buried => throws)
  OBVIOUS
<1>4. r \in Result /\ r.peer = got.peer /\ r.protocol = got.protocol
      /\ r.expiresAt = got.expiresAt /\ r.tombstoned = t
  BY <1>1, <1>3 DEF Result
<1>5. tombstoneCache' = [tombstoneCache EXCEPT ![got.peer] = t] /\ results' = results \cup {r}
  BY <1>2
<1> HIDE DEF t, r
<1>6. tombstoneCache' \in [Peer -> BOOLEAN \cup {None}] /\ tombstoneCache'[got.peer] = t
      /\ \A p \in Peer : p # got.peer => tombstoneCache'[p] = tombstoneCache[p]
  BY <1>1, <1>3, <1>5 DEF GhostTypeOK
<1>7. \A s \in results : s.peer # got.peer
  BY <1>1, NoneIsNone DEF GhostTypeOK, Result
<1>8. \A s \in results' : s.tombstoned = tombstoneCache'[s.peer]
  BY <1>4, <1>5, <1>6, <1>7 DEF GhostTypeOK, Result
<1>9. GhostTypeOK'
  <2>1. results' \subseteq Result /\ unseen' \subseteq Peer
    BY <1>1, <1>2, <1>4, <1>5 DEF GhostTypeOK
  <2>2. QED
    BY <1>6, <1>8, <2>1 DEF GetTombstone, dht, GhostTypeOK
<1>10. CacheOK'
  <2>1. \A p \in Peer : tombstoneCache'[p] = TRUE => p \in buried
    BY <1>3, <1>6 DEF CacheOK
  <2>2. \A p \in early : tombstoneCache'[p] = FALSE => p \in unseen'
    BY <1>2, <1>3, <1>6 DEF CacheOK, GhostTypeOK
  <2>3. QED
    BY <1>1, <2>1, <2>2 DEF GetTombstone, dht, CacheOK
<1>11. SteadyOK'
  BY DEF GetTombstone, dht, SteadyOK
<1>12. \A k \in steady' : Shown(k)' \/ ToCome(k)'
  BY <1>1, <1>4, <1>5 DEF GetTombstone, CoverOK, Shown, ToCome, Ahead
<1>13. CoverOK'
  BY <1>1, <1>12, NoneIsNone DEF GetTombstone, CoverOK, SteadyGhostsReported
<1>14. QED  BY <1>9, <1>10, <1>11, <1>13

LEMMA ProtocolScannedStep ==
  ASSUME ScanInv, ProtocolScanned, UNCHANGED now
  PROVE  ScanInv'
<1> USE DEF ScanInv
<1>1. scan = "record" /\ peers = {} /\ protocols # <<>>
  BY DEF ProtocolScanned, CacheOK
<1>2. /\ protocols' \in {<<>>, <<"hysteria2">>, PROTOCOLS}
      /\ Ahead = IF protocols' = <<>> THEN {} ELSE {Head(protocols')}
  BY <1>1, HeadInProtocol DEF ProtocolScanned, GhostTypeOK
<1>3. GhostTypeOK'
  BY <1>2 DEF ProtocolScanned, dht, GhostTypeOK
<1>4. CacheOK' /\ SteadyOK'
  BY DEF ProtocolScanned, dht, CacheOK, SteadyOK
<1>5. \A k \in steady' : Shown(k)' \/ ToCome(k)'
  BY <1>1, <1>2 DEF ProtocolScanned, CoverOK, Shown, ToCome
<1>6. CoverOK'
  BY <1>1, <1>5, NoneIsNone DEF ProtocolScanned, CoverOK, SteadyGhostsReported
<1>7. QED  BY <1>3, <1>4, <1>6

\* When the scan is over, every steady ghost is among the results, without a
\* tombstone.
LEMMA EndSteps ==
  ASSUME ScanInv, EndScan \/ ScanFails, UNCHANGED now
  PROVE  ScanInv'
<1> USE DEF ScanInv
<1>1. GhostTypeOK'
  BY DEF EndScan, ScanFails, dht, GhostTypeOK
<1>2. CacheOK' /\ SteadyOK'
  BY DEF EndScan, ScanFails, dht, CacheOK, SteadyOK
<1>3. CASE ScanFails
  <2>1. CoverOK'
    BY <1>3 DEF ScanFails, CoverOK, SteadyGhostsReported
  <2>2. QED  BY <1>1, <1>2, <2>1
<1>4. CASE EndScan
  <2>1. ASSUME NEW k \in steady PROVE \E r \in results : IsGhost(r, scanTime)
    <3>1. Shown(k)
      BY <1>4 DEF EndScan, CoverOK, ToCome
    <3>2. PICK r \in results : r.peer = k[2] /\ r.expiresAt <= scanTime
      BY <3>1 DEF Shown
    <3>3. r.tombstoned = tombstoneCache[r.peer] /\ r \in Result
      BY DEF GhostTypeOK
    <3>4. r.tombstoned \in BOOLEAN /\ r.peer \in Peer /\ k[2] \notin buried
      BY <3>3 DEF Result, SteadyOK
    <3>5. r.tombstoned = FALSE
      BY <3>2, <3>3, <3>4 DEF CacheOK
    <3>6. ~(scanTime < r.expiresAt)
      BY <3>2, <3>3, Clock DEF GhostTypeOK, Result
    <3>7. QED
      BY <3>5, <3>6 DEF IsGhost, ClassifyPeer
  <2>2. SteadyGhostsReported'
    BY <1>4, <2>1 DEF EndScan, SteadyGhostsReported
  <2>3. CoverOK'
    BY <1>4, <2>2 DEF EndScan, CoverOK
  <2>4. QED  BY <1>1, <1>2, <2>3
<1>5. QED  BY <1>3, <1>4

LEMMA ScanInvBuried == ScanInv => BuriedAreNoGhosts
<1> SUFFICES ASSUME ScanInv, NEW r \in results, IsGhost(r, scanTime), r.peer \in early
             PROVE  r.peer \in unseen
  BY DEF BuriedAreNoGhosts
<1>1. r.tombstoned = tombstoneCache[r.peer] /\ r \in Result
  BY DEF ScanInv, GhostTypeOK
<1>2. r.tombstoned = FALSE
  BY <1>1 DEF IsGhost, ClassifyPeer, Result
<1>3. QED
  BY <1>1, <1>2 DEF ScanInv, CacheOK

-----------------------------------------------------------------------------
(* The three together.                                                     *)

OInv == now \in 0..MaxTime /\ tool \in Tools /\ FileInv /\ ValidatorInv /\ ScanInv

LEMMA InitOInv == Init => OInv
<1> SUFFICES ASSUME Init PROVE OInv
  OBVIOUS
<1>1. now \in 0..MaxTime /\ tool \in Tools
  BY Clock DEF Init
<1>2. FileInv
  <2>1. file \in Snapshot
    <3>1. CASE FileInit
      <4>1. PICK held \in [Key -> {0, 1, None}], tombstones \in SUBSET Peer :
                file = [record |-> held, tombstonePeerIds |-> tombstones]
        BY <3>1 DEF FileInit
      <4>2. held \in [Key -> Time \cup {None}]
        BY Clock
      <4>3. QED  BY <4>1, <4>2 DEF Snapshot
    <3>2. CASE NoFile
      BY <3>2 DEF NoFile, Snapshot
    <3>3. QED  BY <3>1, <3>2 DEF Init
  <2>2. QED
    BY <2>1 DEF Init, InspectorInit, FileInv, InspectorTypeOK, ReportsOK
<1>3. ValidatorInv
  <2>1. up \subseteq Valid
    BY DEF Init
  <2>2. QED
    BY <2>1 DEF Init, ValidatorInit, ValidatorInv, ValidatorTypeOK, ChecksOK
<1>4. ScanInv
  <2>1. record \in [Key -> Time \cup {None}] /\ buried \subseteq Peer /\ linked \subseteq Peer
    BY Clock DEF Init, DhtInit, NoDht
  <2>2. GhostTypeOK
    <3>1. scanTime \in 0..now /\ tombstoneCache \in [Peer -> BOOLEAN \cup {None}]
      BY DEF Init, ScanInit
    <3>2. QED
      BY <2>1, <3>1 DEF Init, ScanInit, GhostTypeOK
  <2>3. CacheOK
    BY NoneIsNone DEF Init, ScanInit, CacheOK
  <2>4. SteadyOK /\ CoverOK
    BY NoneIsNone DEF Init, ScanInit, SteadyOK, CoverOK, SteadyGhostsReported
  <2>5. QED  BY <2>2, <2>3, <2>4 DEF ScanInv
<1>5. QED  BY <1>1, <1>2, <1>3, <1>4 DEF OInv

LEMMA ScanSteps ==
  ASSUME ScanInv, now \in 0..MaxTime, ScanStep, UNCHANGED now
  PROVE  ScanInv'
BY BeginScanStep, KnownPeersStep, GetRecordSteps, GetTombstoneStep, ProtocolScannedStep,
   EndSteps DEF ScanStep

\* What is left alone, while time may go on, keeps its invariant.
LEMMA FileStutter ==
  ASSUME FileInv, UNCHANGED inspectorVars, now \in Nat, now' \in {now, now + 1}
  PROVE  FileInv'
<1>1. \A r \in reports : r.at \in Nat /\ r.at <= now
  BY Clock DEF FileInv, InspectorTypeOK, Report
<1>2. \A r \in reports : r.at <= now'
  BY <1>1
<1>3. QED
  BY <1>2 DEF FileInv, InspectorTypeOK, ReportsOK, Records, inspectorVars

LEMMA ValidatorStutter ==
  ASSUME ValidatorInv, UNCHANGED validatorVars
  PROVE  ValidatorInv'
BY DEF ValidatorInv, ValidatorTypeOK, ChecksOK, validatorVars

LEMMA ScanStutter ==
  ASSUME ScanInv, UNCHANGED ghostVars, now \in Nat, now' \in {now, now + 1}
  PROVE  ScanInv'
<1> USE DEF ScanInv, ghostVars, dht, reading, scanHistory
<1>1. scanTime' \in 0..now'
  BY DEF GhostTypeOK
<1>2. GhostTypeOK'
  BY <1>1 DEF GhostTypeOK
<1>3. CacheOK' /\ SteadyOK'
  BY DEF CacheOK, SteadyOK
<1>4. CoverOK'
  BY DEF CoverOK, Shown, ToCome, Ahead, SteadyGhostsReported
<1>5. QED  BY <1>2, <1>3, <1>4

LEMMA NextOInv == OInv /\ [Next]_vars => OInv'
<1> SUFFICES ASSUME OInv, [Next]_vars PROVE OInv'
  OBVIOUS
<1> USE DEF OInv
<1>1. now \in Nat
  BY Clock
<1>2. CASE UNCHANGED vars
  <2>1. UNCHANGED <<now, tool, ghostVars, inspectorVars, validatorVars>>
    BY <1>2 DEF vars
  <2>2. QED
    BY <1>1, <2>1, FileStutter, ValidatorStutter, ScanStutter
<1>3. CASE Tick
  <2>1. now' = now + 1 /\ now' \in 0..MaxTime
    BY <1>1, <1>3, Clock DEF Tick
  <2>2. QED
    BY <1>1, <1>3, <2>1, FileStutter, ValidatorStutter, ScanStutter DEF Tick
<1>4. CASE Scanning
  <2>1. ScanInv'
    BY <1>4, DhtSteps, ScanSteps DEF Scanning
  <2>2. QED
    BY <1>1, <1>4, <2>1, FileStutter, ValidatorStutter DEF Scanning
<1>5. CASE Reading
  <2>1. FileInv'
    BY <1>5, FileSteps DEF Reading
  <2>2. QED
    BY <1>1, <1>5, <2>1, ScanStutter, ValidatorStutter DEF Reading
<1>6. CASE Validating
  <2>1. ValidatorInv'
    BY <1>6, ValidatorSteps DEF Validating
  <2>2. QED
    BY <1>1, <1>6, <2>1, ScanStutter, FileStutter DEF Validating
<1>7. QED
  BY <1>2, <1>3, <1>4, <1>5, <1>6 DEF Next

LEMMA Inductive == Spec => []OInv
<1>1. QED  BY InitOInv, NextOInv, PTL DEF Spec

-----------------------------------------------------------------------------

\* Type correctness of the three tools; in particular all results of a scan for one
\* peer say the same of its tombstone.
THEOREM TypeCorrect == Spec => []TypeOK
<1>1. OInv => TypeOK
  BY DEF OInv, TypeOK, FileInv, ValidatorInv, ScanInv
<1>2. QED  BY <1>1, Inductive, PTL

\* A live scan reports a ghost if there is one all the time, for any number of peers
\* and however the DHT changes during the scan.
THEOREM GhostsReported == Spec => []SteadyGhostsReported
<1>1. OInv => SteadyGhostsReported
  BY DEF OInv, ScanInv, CoverOK
<1>2. QED  BY <1>1, Inductive, PTL

\* A live scan takes no peer for a ghost that was buried before it began, unless the
\* get of its tombstone fails.
THEOREM BuriedNotReported == Spec => []BuriedAreNoGhosts
<1>1. OInv => BuriedAreNoGhosts
  BY ScanInvBuried DEF OInv
<1>2. QED  BY <1>1, Inductive, PTL

\* All that the offline tools say of one file agrees, up to the records that expire
\* between two of their looks at the clock.
THEOREM OfflineAgree == Spec => []ReportsAgree
<1>1. OInv => ReportsAgree
  BY FileInvAgree DEF OInv
<1>2. QED  BY <1>1, Inductive, PTL

\* The verdict of the bootstrap validator lies between the one on the peers that were
\* up at some time and the one on those that were up all the time, for any list of
\* addresses and any threshold.
THEOREM VerdictBounds == Spec => []VerdictInBounds
<1>1. OInv => VerdictInBounds
  BY ValidatorInvInBounds DEF OInv
<1>2. QED  BY <1>1, Inductive, PTL
=============================================================================
