----------------------------- MODULE AppendLog -----------------------------
(***************************************************************************)
(* What the ledger promises its users: one log that only grows, and for    *)
(* each process a view of it that is never wrong, only late.  A process    *)
(* sees the log up to some entry, its view never loses an entry, and what  *)
(* it has appended itself is in its view from then on.                     *)
(***************************************************************************)
EXTENDS Naturals, Sequences

CONSTANTS Entry, Process

VARIABLES log, view

Init ==
    /\ log = <<>>
    /\ view = [p \in Process |-> 0]

\* Views that are up to date, or as they were.
CatchUp(S) ==
    /\ view' \in [Process -> Nat]
    /\ \A p \in Process : view'[p] \in {view[p], Len(log')}
    /\ \A p \in S : view'[p] = Len(log')

AppendBy(p) ==
    /\ Len(log') = Len(log) + 1
    /\ LET e == log'[Len(log')] IN e \in Entry /\ log' = Append(log, e)
    /\ CatchUp({p})

Refresh ==
    /\ log' = log
    /\ CatchUp({})

Next ==
    \/ \E p \in Process : AppendBy(p)
    \/ Refresh

Spec == Init /\ [][Next]_<<log, view>>
=============================================================================
