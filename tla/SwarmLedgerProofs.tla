------------------------- MODULE SwarmLedgerProofs -------------------------
(* Proofs about SwarmLedger, for every set of processes, keys, tools and   *)
(* nodes and every number of events.                                       *)
EXTENDS SwarmLedger, SequenceTheorems, WellFoundedInduction, TLAPS

USE SwarmLedgerAssumption

-----------------------------------------------------------------------------
(* Any number of processes.                                                *)

\* A new event is an event, and only its own process has written it.
LEMMA NewEventType ==
    ASSUME TypeOK, NEW p \in Process, Open(p), issued < MaxEvents,
           NEW key \in Key, NEW tool \in Tool, NEW node \in Node \cup {None},
           NEW parent \in EventId \cup {None}
    PROVE  /\ NewEvent(p, parent, key, tool, node) \in Event
           /\ NewEvent(p, parent, key, tool, node).run_id = p
<1>1. issued + 1 \in EventId
  BY DEF TypeOK, EventId
<1>2. ledger[p].logicalClock + 1 \in Nat
  BY DEF TypeOK, Open, Ledger
<1>3. QED
  BY <1>1, <1>2 DEF NewEvent, Event

\* The ids a process knows are ids of events.
LEMMA KnownIds ==
    ASSUME TypeOK, NEW p \in Process, Open(p)
    PROVE  KnownTo(p) \subseteq EventId
<1>1. \A i \in DOMAIN file : file[i].id \in EventId
  <2>1. \A i \in DOMAIN file : file[i] \in Event
    BY ElementOfSeq DEF TypeOK
  <2>2. QED  BY <2>1 DEF Event
<1>2. ledger[p] \in Ledger
  BY DEF TypeOK, Open
<1>3. ASSUME ledger[p].cache # None
      PROVE  \A i \in DOMAIN ledger[p].cache : ledger[p].cache[i].id \in EventId
  <2>1. ledger[p].cache \in Seq(Event)
    BY <1>2, <1>3 DEF Ledger
  <2>2. \A i \in DOMAIN ledger[p].cache : ledger[p].cache[i] \in Event
    BY <2>1, ElementOfSeq
  <2>3. QED  BY <2>2 DEF Event
<1>4. ASSUME NEW id \in KnownTo(p) PROVE id \in EventId
  <2>1. CASE \E i \in DOMAIN file : id = file[i].id
    BY <1>1, <2>1
  <2>2. CASE /\ ledger[p].cache # None
             /\ \E i \in DOMAIN ledger[p].cache : id = ledger[p].cache[i].id
    BY <1>3, <2>2
  <2>3. QED  BY <2>1, <2>2 DEF KnownTo
<1>5. QED  BY <1>4

StoreInv == TypeOK /\ CachesArePrefixes

LEMMA InitStore == Init => StoreInv
<1> SUFFICES ASSUME Init PROVE StoreInv
  OBVIOUS
<1>1. file \in Seq(Event)  BY DEF Init
<1>2. exists \in BOOLEAN /\ torn \in BOOLEAN /\ alone \in BOOLEAN /\ acked \subseteq EventId
  BY DEF Init
<1>3. issued \in 0..MaxEvents /\ ledger \in [Process -> Ledger \cup {None}]
  BY DEF Init
<1>4. CachesArePrefixes
  BY DEF Init, CachesArePrefixes, Open
<1>5. QED
  BY <1>1, <1>2, <1>3, <1>4 DEF StoreInv, TypeOK

\* The constructor.
LEMMA ConstructStore ==
    ASSUME StoreInv, NEW p \in Process, Construct(p)
    PROVE  StoreInv'
<1>1. PICK t \in {0} \cup {file[i].logical_time : i \in DOMAIN file} :
          ledger' = [ledger EXCEPT ![p] =
              [logicalClock |-> t,
               cache |-> IF exists /\ file = <<>> THEN <<>> ELSE None]]
  BY DEF Construct
<1>t. t \in Nat
  <2>1. \A i \in DOMAIN file : file[i] \in Event
    BY ElementOfSeq DEF StoreInv, TypeOK
  <2>2. QED  BY <2>1 DEF Event
<1>e. <<>> \in Seq(Event)
  OBVIOUS
<1>2. ledger'[p] \in Ledger
  BY <1>1, <1>t, <1>e DEF Ledger, StoreInv, TypeOK
<1>3. TypeOK'
  BY <1>1, <1>2 DEF Construct, StoreInv, TypeOK
<1>4. CachesArePrefixes'
  BY <1>1 DEF Construct, StoreInv, TypeOK, CachesArePrefixes, Open
<1>5. QED  BY <1>3, <1>4 DEF StoreInv

\* append.
LEMMA AppendStore ==
    ASSUME StoreInv, NEW p \in Process, Open(p), NEW key \in Key,
           NEW tool \in Tool, NEW node \in Node \cup {None},
           NEW parent \in KnownTo(p) \cup {None},
           AppendEvent(p, parent, key, tool, node)
    PROVE  StoreInv'
<1> DEFINE e == NewEvent(p, parent, key, tool, node)
<1>1. e \in Event /\ e.run_id = p
  <2>1. parent \in EventId \cup {None}  BY KnownIds DEF StoreInv
  <2>2. QED  BY <2>1, NewEventType DEF StoreInv, AppendEvent
<1>2. file' = file \/ file' = Append(file, e)
  BY DEF AppendEvent
<1> HIDE DEF e
<1>3. ledger' = [ledger EXCEPT ![p] = ledger'[p]] /\ ledger'[p] \in Ledger
      /\ ledger'[p].cache = None
  BY DEF AppendEvent, Advanced, Ledger, StoreInv, TypeOK, Open
<1>4. file' \in Seq(Event)
  BY <1>1, <1>2 DEF StoreInv, TypeOK
<1>5. issued + 1 \in EventId /\ issued' \in 0..MaxEvents
  BY DEF AppendEvent, StoreInv, TypeOK, EventId
<1>6. TypeOK'
  BY <1>3, <1>4, <1>5 DEF AppendEvent, StoreInv, TypeOK
<1>7. ASSUME NEW q \in Process, Open(q)', ledger'[q].cache # None
      PROVE  LET cache == ledger'[q].cache
             IN  /\ Len(cache) <= Len(file')
                 /\ \A i \in 1..Len(cache) : cache[i] = file'[i]
                 /\ \A i \in DOMAIN file' : file'[i].run_id = q => i <= Len(cache)
  <2>1. q # p /\ ledger'[q] = ledger[q]
    BY <1>3, <1>7 DEF StoreInv, TypeOK
  <2>2. ledger[q].cache \in Seq(Event)
    BY <1>7, <2>1 DEF StoreInv, TypeOK, Open, Ledger
  <2>3. /\ Len(ledger[q].cache) <= Len(file)
        /\ \A i \in 1..Len(ledger[q].cache) : ledger[q].cache[i] = file[i]
        /\ \A i \in DOMAIN file : file[i].run_id = q => i <= Len(ledger[q].cache)
    BY <1>7, <2>1 DEF StoreInv, CachesArePrefixes, Open
  <2>4. /\ Len(file) <= Len(file')
        /\ \A i \in 1..Len(file) : file'[i] = file[i]
    BY <1>1, <1>2 DEF StoreInv, TypeOK
  <2>5. \A i \in DOMAIN file' : i \in DOMAIN file \/ file'[i].run_id = p
    BY <1>1, <1>2 DEF StoreInv, TypeOK
  <2>6. QED
    BY <2>1, <2>2, <2>3, <2>4, <2>5 DEF StoreInv, TypeOK
<1>8. QED
  BY <1>6, <1>7 DEF StoreInv, CachesArePrefixes

\* A process that ends, by itself or because a write failed.
LEMMA GoneStore ==
    ASSUME StoreInv, NEW p \in Process, ledger' = [ledger EXCEPT ![p] = None],
           file' = file
    PROVE  ledger' \in [Process -> Ledger \cup {None}] /\ CachesArePrefixes'
BY DEF StoreInv, TypeOK, CachesArePrefixes, Open

\* loadAll.
LEMMA LoadStore ==
    ASSUME StoreInv, NEW p \in Process, LoadAll(p)
    PROVE  StoreInv'
<1>1. ledger'[p] \in Ledger /\ ledger'[p].cache = file
  BY DEF LoadAll, Open, Ledger, StoreInv, TypeOK
<1>2. \A q \in Process : q # p => ledger'[q] = ledger[q]
  BY DEF LoadAll, StoreInv, TypeOK
<1>3. TypeOK'
  BY <1>1 DEF LoadAll, StoreInv, TypeOK
<1>4. CachesArePrefixes'
  BY <1>1, <1>2 DEF LoadAll, StoreInv, TypeOK, CachesArePrefixes, Open
<1>5. QED  BY <1>3, <1>4 DEF StoreInv

LEMMA NextStore == StoreInv /\ [Next]_vars => StoreInv'
<1> SUFFICES ASSUME StoreInv, [Next]_vars PROVE StoreInv'
  OBVIOUS
<1>1. CASE UNCHANGED vars
  BY <1>1 DEF vars, StoreInv, TypeOK, CachesArePrefixes, Open
<1>2. ASSUME NEW p \in Process, AppendFails(p) PROVE StoreInv'
  <2>1. issued' \in 0..MaxEvents
    BY <1>2 DEF AppendFails, StoreInv, TypeOK
  <2>2. QED
    BY <1>2, <2>1, GoneStore DEF AppendFails, StoreInv, TypeOK
<1>3. ASSUME NEW p \in Process, Exit(p) PROVE StoreInv'
  BY <1>3, GoneStore DEF Exit, StoreInv, TypeOK
<1>4. QED
  BY <1>1, <1>2, <1>3, ConstructStore, AppendStore, LoadStore DEF Next

\* Every reachable state of the ledger is well-typed.
THEOREM TypeCorrect == Spec => []TypeOK
<1>1. StoreInv => TypeOK  BY DEF StoreInv
<1>2. QED  BY <1>1, InitStore, NextStore, PTL DEF Spec

\* Whatever the number of processes that share the file and however their calls
\* interleave, a cache is a prefix of the file that holds all its process wrote.
THEOREM CachesCorrect == Spec => []CachesArePrefixes
<1>1. StoreInv => CachesArePrefixes  BY DEF StoreInv
<1>2. QED  BY <1>1, InitStore, NextStore, PTL DEF Spec

-----------------------------------------------------------------------------
(* The ledger implements AppendLog.                                        *)

\* A view is a number of lines of the file.
LEMMA ViewType ==
    ASSUME StoreInv, NEW p \in Process
    PROVE  View(p) \in Nat
<1>1. Len(file) \in Nat
  BY DEF StoreInv, TypeOK
<1>2. ASSUME Open(p), ledger[p].cache # None PROVE Len(ledger[p].cache) \in Nat
  <2>1. ledger[p].cache \in Seq(Event)
    BY <1>2 DEF StoreInv, TypeOK, Open, Ledger
  <2>2. QED  BY <2>1
<1>3. QED  BY <1>1, <1>2 DEF View

\* What a step does to the views: each stays or catches up.
LEMMA ViewStep ==
    ASSUME StoreInv, StoreInv', Next, NEW q \in Process
    PROVE  View(q)' \in {View(q), Len(file')}
<1>1. CASE ledger'[q] = ledger[q]
  BY <1>1 DEF View, Open
<1>2. CASE ledger'[q] = None
  BY <1>2 DEF View, Open
<1>3. CASE Construct(q)
  <2>1. file' = file /\ (ledger'[q].cache = None \/ (ledger'[q].cache = <<>> /\ file = <<>>))
    BY <1>3 DEF Construct, StoreInv, TypeOK
  <2>2. QED  BY <2>1 DEF View, Open
<1>4. CASE LoadAll(q)
  <2>1. file' = file /\ ledger'[q].cache = file
    BY <1>4 DEF LoadAll, StoreInv, TypeOK
  <2>2. QED  BY <2>1 DEF View, Open
<1>5. CASE ledger' = Advanced(q)
  <2>1. ledger'[q].cache = None
    BY <1>5 DEF Advanced, StoreInv, TypeOK
  <2>2. QED  BY <2>1 DEF View, Open
<1>6. ASSUME NEW p \in Process, p # q,
             \/ Construct(p) \/ AppendFails(p) \/ LoadAll(p) \/ Exit(p)
             \/ ledger' = Advanced(p)
      PROVE  ledger'[q] = ledger[q]
  BY <1>6 DEF Construct, AppendFails, LoadAll, Exit, Advanced, StoreInv, TypeOK
<1>7. PICK p \in Process :
          \/ Construct(p) \/ AppendFails(p) \/ LoadAll(p) \/ Exit(p)
          \/ ledger' = Advanced(p)
  BY DEF Next, AppendEvent
<1>8. AppendFails(q) \/ Exit(q) => ledger'[q] = None
  BY DEF AppendFails, Exit, StoreInv, TypeOK
<1>9. QED
  BY <1>1, <1>2, <1>3, <1>4, <1>5, <1>6, <1>7, <1>8

LEMMA LogInit == Init => Log!Init
BY DEF Init, Log!Init, View, Open

LEMMA LogNext ==
    StoreInv /\ StoreInv' /\ [Next]_vars
        => [Log!Next]_<<file, [p \in Process |-> View(p)]>>
<1> SUFFICES ASSUME StoreInv, StoreInv', [Next]_vars
             PROVE  [Log!Next]_<<file, [p \in Process |-> View(p)]>>
  OBVIOUS
<1> DEFINE view == [p \in Process |-> View(p)]
<1>1. CASE UNCHANGED vars
  BY <1>1 DEF vars, View, Open
<1>2. ASSUME Next, NEW S \in SUBSET Process,
             \A p \in S : View(p)' = Len(file')
      PROVE  Log!CatchUp(S)
  <2>1. view' = [p \in Process |-> View(p)']
    OBVIOUS
  <2>2. \A p \in Process : View(p)' \in Nat
    BY <1>2, ViewType, ViewStep DEF StoreInv, TypeOK
  <2>3. QED
    BY <1>2, <2>1, <2>2, ViewStep DEF Log!CatchUp
<1>3. ASSUME Next, file' = file PROVE Log!Refresh
  BY <1>2, <1>3 DEF Log!Refresh
<1>4. ASSUME NEW p \in Process, Open(p), NEW key \in Key, NEW tool \in Tool,
             NEW node \in Node \cup {None}, NEW parent \in KnownTo(p) \cup {None},
             AppendEvent(p, parent, key, tool, node), Next, file' # file
      PROVE  Log!AppendBy(p)
  <2> DEFINE e == NewEvent(p, parent, key, tool, node)
  <2>1. e \in Event
    <3>1. parent \in EventId \cup {None}  BY <1>4, KnownIds DEF StoreInv
    <3>2. QED  BY <1>4, <3>1, NewEventType DEF StoreInv, AppendEvent
  <2>2. file' = Append(file, e)
    BY <1>4 DEF AppendEvent
  <2> HIDE DEF e
  <2>3. Len(file') = Len(file) + 1 /\ file'[Len(file')] = e
    BY <2>1, <2>2 DEF StoreInv, TypeOK
  <2>4. View(p)' = Len(file')
    BY <1>4 DEF AppendEvent, Advanced, View, Open, StoreInv, TypeOK
  <2>5. Log!CatchUp({p})
    BY <1>2, <1>4, <2>4
  <2>6. QED
    BY <2>1, <2>2, <2>3, <2>5 DEF Log!AppendBy
<1>5. CASE Next
  <2>1. CASE file' = file
    BY <1>3, <1>5, <2>1 DEF Log!Next
  <2>2. CASE file' # file
    BY <1>4, <1>5, <2>2 DEF Next, Construct, AppendFails, LoadAll, Exit, Log!Next
  <2>3. QED  BY <2>1, <2>2
<1>6. QED  BY <1>1, <1>5

\* However many processes share the file, they see one log that only grows, each
\* up to some entry, without going back and with its own entries.
THEOREM Refinement == Spec => ImplementsAppendLog
<1>1. Spec => []StoreInv
  BY InitStore, NextStore, PTL DEF Spec
<1>2. QED
  BY <1>1, LogInit, LogNext, PTL DEF Spec, ImplementsAppendLog, Log!Spec

-----------------------------------------------------------------------------
(* As long as one process at a time has had the file open.                 *)

Ordered ==
    \A i, j \in DOMAIN file : i < j => file[i].logical_time < file[j].logical_time

\* The order of the lines is the order of the logical clock, which the process
\* that has the file open continues; after half a line nobody has it open.
InTurn ==
    /\ Ordered
    /\ \A p \in Process : Open(p) =>
           /\ \A i \in DOMAIN file : file[i].logical_time <= ledger[p].logicalClock
           /\ \A q \in Process : Open(q) => q = p
           /\ ~torn
    /\ acked \subseteq {file[i].id : i \in DOMAIN file}

OneInv ==
    /\ StoreInv
    /\ alone => InTurn

LEMMA FileTimes ==
    ASSUME TypeOK
    PROVE  \A i \in DOMAIN file : file[i].logical_time \in Nat
<1>1. \A i \in DOMAIN file : file[i] \in Event
  BY ElementOfSeq DEF TypeOK
<1>2. QED  BY <1>1 DEF Event

\* append adds one event, later than all the others.
LEMMA AppendOne ==
    ASSUME StoreInv, InTurn, NEW p \in Process, Open(p), NEW key \in Key,
           NEW tool \in Tool, NEW node \in Node \cup {None},
           NEW parent \in KnownTo(p) \cup {None},
           AppendEvent(p, parent, key, tool, node)
    PROVE  /\ Len(file') = Len(file) + 1
           /\ \A i \in DOMAIN file : file'[i] = file[i]
           /\ file'[Len(file) + 1].id = issued + 1
           /\ file'[Len(file) + 1].logical_time = ledger[p].logicalClock + 1
           /\ file' = Append(file, file'[Len(file) + 1])
<1> DEFINE e == NewEvent(p, parent, key, tool, node)
<1>1. file' = Append(file, e)
  BY DEF AppendEvent, InTurn
<1>2. e.id = issued + 1 /\ e.logical_time = ledger[p].logicalClock + 1
  BY DEF NewEvent
<1> HIDE DEF e
<1>3. file \in Seq(Event)
  BY DEF StoreInv, TypeOK
<1>4. QED  BY <1>1, <1>2, <1>3

LEMMA InitOne == Init => OneInv
<1> SUFFICES ASSUME Init PROVE OneInv
  OBVIOUS
<1>1. StoreInv  BY InitStore
<1>2. QED  BY <1>1 DEF Init, OneInv, InTurn, Ordered, Open

LEMMA NextOne == OneInv /\ [Next]_vars => OneInv'
<1> SUFFICES ASSUME OneInv, [Next]_vars PROVE OneInv'
  OBVIOUS
<1>1. StoreInv /\ StoreInv'
  BY NextStore DEF OneInv
<1>0. ASSUME alone' PROVE alone
  BY <1>0 DEF vars, Next, Construct, AppendEvent, AppendFails, LoadAll, Exit
<1> SUFFICES ASSUME alone' PROVE InTurn'
  BY <1>1 DEF OneInv
<1>a. InTurn
  BY <1>0 DEF OneInv
<1>2. CASE UNCHANGED vars
  BY <1>a, <1>2 DEF vars, InTurn, Ordered, Open
<1>3. ASSUME NEW p \in Process, Construct(p) PROVE InTurn'
  <2>1. file' = file /\ acked' = acked /\ torn' = torn /\ ~torn
    BY <1>3 DEF Construct
  <2>2. \A q \in Process : q # p => ledger'[q] = None
    BY <1>1, <1>3 DEF Construct, Open, StoreInv, TypeOK
  <2>3. \A i \in DOMAIN file : file[i].logical_time <= ledger'[p].logicalClock
    <3>1. PICK t : /\ IsClockOf(file, t)
                   /\ ledger'[p].logicalClock = t
      BY <1>1, <1>3 DEF Construct, StoreInv, TypeOK
    <3>2. QED
      BY <3>1 DEF IsClockOf
  <2>4. QED
    BY <1>a, <2>1, <2>2, <2>3 DEF InTurn, Ordered, Open
<1>4. ASSUME NEW p \in Process, Open(p), NEW key \in Key, NEW tool \in Tool,
             NEW node \in Node \cup {None}, NEW parent \in KnownTo(p) \cup {None},
             AppendEvent(p, parent, key, tool, node)
      PROVE  InTurn'
  <2>1. /\ Len(file') = Len(file) + 1
        /\ \A i \in DOMAIN file : file'[i] = file[i]
        /\ file'[Len(file) + 1].id = issued + 1
        /\ file'[Len(file) + 1].logical_time = ledger[p].logicalClock + 1
    BY <1>1, <1>a, <1>4, AppendOne
  <2>2. Len(file) \in Nat /\ DOMAIN file = 1..Len(file) /\ DOMAIN file' = 1..Len(file')
    BY <1>1 DEF StoreInv, TypeOK
  <2>3. ledger[p].logicalClock \in Nat
    BY <1>1, <1>4 DEF StoreInv, TypeOK, Open, Ledger
  <2>4. ledger'[p].logicalClock = ledger[p].logicalClock + 1
    BY <1>1, <1>4 DEF AppendEvent, Advanced, StoreInv, TypeOK
  <2>5. \A i \in DOMAIN file : /\ file[i].logical_time \in Nat
                               /\ file[i].logical_time <= ledger[p].logicalClock
    BY <1>1, <1>a, <1>4, FileTimes DEF InTurn, StoreInv
  <2>6. \A i \in DOMAIN file' : i \in DOMAIN file \/ i = Len(file) + 1
    BY <2>1, <2>2
  <2>7. Ordered'
    BY <1>a, <2>1, <2>2, <2>3, <2>5, <2>6 DEF InTurn, Ordered
  <2>8. \A i \in DOMAIN file' : file'[i].logical_time <= ledger'[p].logicalClock
    BY <2>1, <2>3, <2>4, <2>5, <2>6
  <2>9. \A q \in Process : Open(q)' => q = p
    BY <1>1, <1>a, <1>4 DEF AppendEvent, Advanced, Open, InTurn, StoreInv, TypeOK
  <2>10. acked' \subseteq {file'[i].id : i \in DOMAIN file'}
    <3>1. acked' = acked \cup {issued + 1}
      BY <1>4 DEF AppendEvent
    <3>2. \A i \in DOMAIN file : file[i].id \in {file'[j].id : j \in DOMAIN file'}
      BY <2>1, <2>2
    <3>3. issued + 1 \in {file'[j].id : j \in DOMAIN file'}
      BY <2>1, <2>2
    <3>4. QED  BY <1>a, <3>1, <3>2, <3>3 DEF InTurn
  <2>11. torn' = torn /\ ~torn
    BY <1>a, <1>4 DEF AppendEvent, InTurn
  <2>12. QED
    BY <2>7, <2>8, <2>9, <2>10, <2>11 DEF InTurn
<1>5. ASSUME NEW p \in Process, Open(p), ledger' = [ledger EXCEPT ![p] = None],
             file' = file, acked' = acked
      PROVE  InTurn'
  <2>1. \A q \in Process : ~ Open(q)'
    BY <1>1, <1>a, <1>5 DEF Open, InTurn, StoreInv, TypeOK
  <2>2. QED
    BY <1>a, <1>5, <2>1 DEF InTurn, Ordered
<1>6. ASSUME NEW p \in Process, LoadAll(p) PROVE InTurn'
  <2>1. /\ \A q \in Process : q # p => ledger'[q] = ledger[q]
        /\ ledger'[p].logicalClock = ledger[p].logicalClock
    BY <1>1, <1>6 DEF LoadAll, StoreInv, TypeOK
  <2>2. \A q \in Process : Open(q)' => Open(q)
    BY <1>6, <2>1 DEF LoadAll, Open
  <2>3. file' = file /\ acked' = acked /\ torn' = torn
    BY <1>6 DEF LoadAll
  <2>4. \A q \in Process : ledger'[q].logicalClock = ledger[q].logicalClock
    BY <2>1
  <2>5. QED
    BY <1>a, <2>2, <2>3, <2>4 DEF InTurn, Ordered
<1>7. QED
  BY <1>2, <1>3, <1>4, <1>5, <1>6 DEF Next, AppendFails, Exit

\* Every step either leaves the file alone or adds an event that is later than
\* all others: no replay up to a time that has been reached changes.
LEMMA ReplayStep ==
    ASSUME StoreInv, InTurn, [Next]_vars
    PROVE  \A i \in DOMAIN file :
               LET t == file[i].logical_time
               IN  ReplayAt(file', t) = ReplayAt(file, t)
<1>1. CASE file' = file
  BY <1>1
<1>2. ASSUME NEW p \in Process, Open(p), NEW key \in Key, NEW tool \in Tool,
             NEW node \in Node \cup {None}, NEW parent \in KnownTo(p) \cup {None},
             AppendEvent(p, parent, key, tool, node),
             NEW i \in DOMAIN file
      PROVE  ReplayAt(file', file[i].logical_time) = ReplayAt(file, file[i].logical_time)
  <2> DEFINE t == file[i].logical_time
             last == Len(file) + 1
  <2>1. /\ \A j \in DOMAIN file : file'[j] = file[j]
        /\ DOMAIN file' = DOMAIN file \cup {last}
        /\ file'[last].logical_time = ledger[p].logicalClock + 1
    <3>1. /\ Len(file') = Len(file) + 1
          /\ \A j \in DOMAIN file : file'[j] = file[j]
          /\ file'[Len(file) + 1].logical_time = ledger[p].logicalClock + 1
          /\ file' = Append(file, file'[Len(file) + 1])
      BY <1>2, AppendOne
    <3>2. DOMAIN file' = 1..(Len(file) + 1) /\ DOMAIN file = 1..Len(file)
      BY <3>1 DEF StoreInv, TypeOK
    <3>3. QED  BY <3>1, <3>2 DEF StoreInv, TypeOK
  <2>2. ~ (file'[last].logical_time <= t)
    <3>1. t \in Nat /\ t <= ledger[p].logicalClock
      BY <1>2, FileTimes DEF StoreInv, InTurn
    <3>2. ledger[p].logicalClock \in Nat
      BY <1>2 DEF StoreInv, TypeOK, Open, Ledger
    <3>3. QED  BY <2>1, <3>1, <3>2
  <2>3. {file'[j] : j \in DOMAIN file'} = {file[j] : j \in DOMAIN file} \cup {file'[last]}
    BY <2>1
  <2>4. QED
    BY <2>2, <2>3 DEF ReplayAt
<1>3. QED
  BY <1>1, <1>2 DEF Next, vars, Construct, AppendFails, LoadAll, Exit

\* When processes open the ledger one at a time, the state that replayAt shows
\* for a logical time that has been reached never changes.
THEOREM ReplayIsStable == Spec => ReplayStable
<1>1. OneInv /\ [Next]_vars => OneInv'
  BY NextOne
<1>2. OneInv /\ [Next]_vars =>
          [alone' =>
               \A i \in DOMAIN file :
                   LET t == file[i].logical_time
                   IN  ReplayAt(file', t) = ReplayAt(file, t)]_vars
  <2> SUFFICES ASSUME OneInv, [Next]_vars, alone'
               PROVE  \A i \in DOMAIN file :
                          LET t == file[i].logical_time
                          IN  ReplayAt(file', t) = ReplayAt(file, t)
    OBVIOUS
  <2>1. alone
    BY DEF vars, Next, Construct, AppendEvent, AppendFails, LoadAll, Exit
  <2>2. StoreInv /\ InTurn
    BY <2>1 DEF OneInv
  <2>3. QED
    BY <2>2, ReplayStep
<1>3. QED  BY <1>1, <1>2, InitOne, PTL DEF Spec, ReplayStable

\* When processes open the ledger one at a time, every event whose append
\* returned stays in the file, even if other writes fail half way.
THEOREM AckedStay ==
    Spec => []AckedEventsStay
<1>1. OneInv /\ [Next]_vars => OneInv'
  BY NextOne
<1>2. OneInv => AckedEventsStay
  BY DEF OneInv, InTurn, AckedEventsStay
<1>3. QED  BY <1>1, <1>2, InitOne, PTL DEF Spec

\* When processes open the ledger one at a time, the event that latestByKey
\* keeps for a key is the one that was appended last.
THEOREM LatestIsLast ==
    Spec => []LatestIsLastAppended
<1>1. OneInv /\ [Next]_vars => OneInv'
  BY NextOne
<1>2. OneInv => LatestIsLastAppended
  <2> SUFFICES ASSUME StoreInv, InTurn, NEW i \in DOMAIN file,
                      \A j \in DOMAIN file : j > i => file[j].key # file[i].key
               PROVE  file[i] \in LatestByKey(file)
    BY DEF LatestIsLastAppended, OneInv
  <2>1. DOMAIN file \subseteq Nat
    BY DEF StoreInv, TypeOK
  <2>2. \A j \in WithKey(file, file[i].key) : j # i => j \in DOMAIN file /\ j < i
    BY <2>1 DEF WithKey
  <2>3. IsLast(file, WithKey(file, file[i].key), i)
    BY <2>2 DEF IsLast, WithKey, Before, InTurn, Ordered
  <2>4. QED  BY <2>3 DEF LatestByKey
<1>3. QED  BY <1>1, <1>2, InitOne, PTL DEF Spec

-----------------------------------------------------------------------------
(* Causality: ids are drawn in order, and a parent was there first.        *)

IdsOrdered ==
    /\ \A i \in DOMAIN file : file[i].id <= issued
    /\ \A i, j \in DOMAIN file : i < j => file[i].id < file[j].id
    /\ \A i \in DOMAIN file : file[i].parent_id # None =>
           file[i].parent_id < file[i].id

LEMMA FileIds ==
    ASSUME TypeOK
    PROVE  \A i \in DOMAIN file : file[i].id \in Nat /\ file[i].parent_id \in Nat \cup {None}
<1>1. \A i \in DOMAIN file : file[i] \in Event
  BY ElementOfSeq DEF TypeOK
<1>2. EventId \subseteq Nat
  BY DEF EventId
<1>3. QED  BY <1>1, <1>2 DEF Event

\* What a process knows is on file.
LEMMA KnownOnFile ==
    ASSUME StoreInv, NEW p \in Process, Open(p)
    PROVE  KnownTo(p) \subseteq {file[i].id : i \in DOMAIN file}
<1>1. ASSUME ledger[p].cache # None, NEW i \in DOMAIN ledger[p].cache
      PROVE  i \in DOMAIN file /\ ledger[p].cache[i] = file[i]
  <2>1. ledger[p].cache \in Seq(Event)
    BY <1>1 DEF StoreInv, TypeOK, Open, Ledger
  <2>2. /\ Len(ledger[p].cache) <= Len(file)
        /\ \A j \in 1..Len(ledger[p].cache) : ledger[p].cache[j] = file[j]
    BY <1>1 DEF StoreInv, CachesArePrefixes
  <2>3. QED  BY <1>1, <2>1, <2>2 DEF StoreInv, TypeOK
<1>2. QED  BY <1>1 DEF KnownTo

LEMMA NextIds ==
    ASSUME StoreInv, IdsOrdered, [Next]_vars
    PROVE  IdsOrdered'
<1>1. CASE file' = file /\ issued' \in {issued, issued + 1}
  <2>1. issued \in Nat  BY DEF StoreInv, TypeOK
  <2>2. \A i \in DOMAIN file : file[i].id \in Nat  BY FileIds DEF StoreInv
  <2>3. QED  BY <1>1, <2>1, <2>2 DEF IdsOrdered
<1>2. ASSUME NEW p \in Process, Open(p), NEW key \in Key, NEW tool \in Tool,
             NEW node \in Node \cup {None}, NEW parent \in KnownTo(p) \cup {None},
             AppendEvent(p, parent, key, tool, node), file' # file
      PROVE  IdsOrdered'
  <2> DEFINE e == NewEvent(p, parent, key, tool, node)
             last == Len(file) + 1
  <2>1. e.id = issued + 1 /\ e.parent_id = parent
    BY DEF NewEvent
  <2>2. file' = Append(file, e) /\ issued' = issued + 1
    BY <1>2 DEF AppendEvent
  <2> HIDE DEF e
  <2>3. /\ DOMAIN file = 1..Len(file) /\ Len(file) \in Nat
        /\ DOMAIN file' = 1..last
        /\ file'[last] = e /\ \A i \in DOMAIN file : file'[i] = file[i]
    BY <2>2 DEF StoreInv, TypeOK
  <2>4. issued \in Nat  BY DEF StoreInv, TypeOK
  <2>5. \A i \in DOMAIN file : file[i].id \in Nat /\ file[i].id <= issued
    BY FileIds DEF StoreInv, IdsOrdered
  <2>6. parent # None => parent \in Nat /\ parent <= issued
    BY <1>2, <2>5, KnownOnFile
  <2>7. \A i \in DOMAIN file' : i \in DOMAIN file \/ i = last
    BY <2>3
  <2>8. \A i \in DOMAIN file' : file'[i].id <= issued'
    BY <2>1, <2>2, <2>3, <2>4, <2>5, <2>7
  <2>9. \A i, j \in DOMAIN file' : i < j => file'[i].id < file'[j].id
    BY <2>1, <2>3, <2>4, <2>5, <2>7 DEF IdsOrdered
  <2>10. \A i \in DOMAIN file' : file'[i].parent_id # None =>
             file'[i].parent_id < file'[i].id
    BY <2>1, <2>3, <2>4, <2>6, <2>7 DEF IdsOrdered
  <2>11. QED  BY <2>8, <2>9, <2>10 DEF IdsOrdered
<1>3. ASSUME NEW p \in Process, Open(p), NEW key \in Key, NEW tool \in Tool,
             NEW node \in Node \cup {None}, NEW parent \in KnownTo(p) \cup {None},
             AppendEvent(p, parent, key, tool, node), file' = file
      PROVE  IdsOrdered'
  BY <1>1, <1>3 DEF AppendEvent
<1>4. QED
  BY <1>1, <1>2, <1>3 DEF Next, vars, Construct, AppendFails, LoadAll, Exit

\* Each edge leads from one line of the file to a later one.
LEMMA EdgesGoForward ==
    ASSUME StoreInv, InTurn, IdsOrdered,
           NEW p \in Explicit(file) \cup SameNode(file, None) \cup SameRun(file)
    PROVE  p[1] \in DOMAIN file /\ p[2] \in DOMAIN file /\ p[1] < p[2]
<1>1. p \in Places(file) /\ p[1] \in DOMAIN file /\ p[2] \in DOMAIN file
  BY DEF Explicit, SameNode, SameRun, Places
<1>2. p[1] \in Nat /\ p[2] \in Nat
  BY <1>1 DEF StoreInv, TypeOK
<1>3. CASE Before(file, p[1], p[2])
  <2>1. /\ file[p[1]].logical_time \in Nat /\ file[p[2]].logical_time \in Nat
        /\ p[2] < p[1] => file[p[2]].logical_time < file[p[1]].logical_time
        /\ p[1] = p[2] => file[p[2]].logical_time = file[p[1]].logical_time
    BY <1>1, FileTimes DEF StoreInv, InTurn, Ordered
  <2>2. QED
    BY <1>1, <1>2, <1>3, <2>1 DEF Before
<1>4. CASE p \in Explicit(file)
  <2>1. /\ file[p[2]].parent_id = file[p[1]].id
        /\ file[p[1]].id \in Nat /\ file[p[2]].id \in Nat
    BY <1>1, <1>4, FileIds DEF Explicit, StoreInv
  <2>2. file[p[1]].id < file[p[2]].id
    BY <1>1, <2>1 DEF IdsOrdered
  <2>3. p[2] < p[1] => file[p[2]].id < file[p[1]].id
    BY <1>1 DEF IdsOrdered
  <2>4. QED
    BY <1>1, <1>2, <2>1, <2>2, <2>3
<1>5. QED
  BY <1>3, <1>4 DEF SameNode, SameRun, Follows

\* When processes open the ledger one at a time, the causal edges never close a
\* cycle, so the ancestors of an event can be listed before it.
THEOREM CausalIsDag ==
    Spec => []CausalDag
<1>1. OneInv /\ IdsOrdered /\ [Next]_vars => OneInv' /\ IdsOrdered'
  BY NextOne, NextIds DEF OneInv
<1>2. Init => IdsOrdered
  BY DEF Init, IdsOrdered
<1>3. OneInv /\ IdsOrdered => CausalDag
  <2> SUFFICES ASSUME StoreInv, InTurn, IdsOrdered,
                      NEW S \in SUBSET {file[i].id : i \in DOMAIN file}, S # {}
               PROVE  \E v \in S : \A u \in S :
                          <<u, v>> \notin BuildCausalEdges(file, None)
    BY DEF CausalDag, Acyclic, OneInv
  <2> DEFINE I == {i \in DOMAIN file : file[i].id \in S}
  <2>1. I \subseteq Nat /\ I # {}
    BY DEF StoreInv, TypeOK
  <2>2. PICK i \in I : \A j \in I : <<j, i>> \notin OpToRel(<, Nat)
    BY <2>1, NatLessThanWellFounded, WFMin
  <2>3. \A j \in I : ~ (j < i)
    BY <2>1, <2>2 DEF OpToRel
  <2>4. ASSUME NEW u \in S,
               <<u, file[i].id>> \in BuildCausalEdges(file, None)
        PROVE  FALSE
    <3>1. PICK p \in Explicit(file) \cup SameNode(file, None) \cup SameRun(file) :
              u = file[p[1]].id /\ file[i].id = file[p[2]].id
      BY <2>4 DEF BuildCausalEdges, Ids
    <3>2. p[1] \in DOMAIN file /\ p[2] \in DOMAIN file /\ p[1] < p[2]
      BY <3>1, EdgesGoForward
    <3>3. \A j, k \in DOMAIN file : file[j].id = file[k].id => j = k
      <4>1. \A j \in DOMAIN file : file[j].id \in Nat /\ j \in Nat
        BY FileIds DEF StoreInv, TypeOK
      <4>2. QED  BY <4>1 DEF IdsOrdered
    <3>4. p[2] = i /\ p[1] \in I
      BY <3>1, <3>2, <3>3
    <3>5. QED  BY <2>3, <3>2, <3>4
  <2>5. QED  BY <2>4
<1>4. QED  BY <1>1, <1>2, <1>3, InitOne, PTL DEF Spec
=============================================================================
