-------------------------- MODULE KeyspaceInspector --------------------------
(***************************************************************************)
(* The keyspace inspector, tools/debug/keyspace-inspector.ts, in its       *)
(* offline mode.  It reads a snapshot of the keyspace from a file and says *)
(* three times which records are orphans, expired without a tombstone: by  *)
(* its exit code, in the list of the entries and in the summary.  Every    *)
(* time it compares with the clock anew.  The ghost scanner, in its own    *)
(* offline mode, answers the same question about the same records.         *)
(***************************************************************************)
EXTENDS GhostDetector

VARIABLES
    file,      \* the snapshot: record, expiresAt or None by key, and tombstones
    inspect,   \* what the inspector does next
    reports    \* history: which records were shown as orphans, by whom and when

inspectorVars == <<file, inspect, reports>>

Snapshot == [record : [Key -> Time \cup {None}], tombstonePeerIds : SUBSET Peer]
Report == [by : {"scanJson", "scanFromFile", "formatEntry", "computeSummary"},
           at : 0..MaxTime, orphans : SUBSET Key]

InspectorTypeOK ==
    /\ file \in Snapshot
    /\ inspect \in {"scan", "list", "summarize", "done"}
    /\ reports \subseteq Report
    /\ \A r \in reports : r.at <= now

Records == {k \in Key : file.record[k] # None}

IsExpired(k) == file.record[k] < now

\* Mutant: the tombstones do not count.
MutOrphans == {k \in Records : IsExpired(k)}
Orphans == {k \in Records : IsExpired(k) /\ k[2] \notin file.tombstonePeerIds}

ReportsNow(by, orphans) == reports' = reports \cup {[by |-> by, at |-> now, orphans |-> orphans]}

\* scanJsonAsync: the time is taken once.
ScanJson ==
    /\ \A r \in reports : r.by # "scanJson"
    /\ ReportsNow("scanJson",
           {k \in Records :
               IsGhost([expiresAt |-> file.record[k],
                        tombstoned |-> k[2] \in file.tombstonePeerIds], now)})
    /\ UNCHANGED <<file, inspect>>

\* Counts the orphans: the exit code is 1 if there are any.
ScanFromFile ==
    /\ inspect = "scan"
    /\ ReportsNow("scanFromFile", Orphans)
    /\ inspect' = "list"
    /\ UNCHANGED file

\* One line per entry, or the status of each entry of the JSON output.
ListEntries ==
    /\ inspect = "list"
    /\ ReportsNow("formatEntry", Orphans)
    /\ inspect' = "summarize"
    /\ UNCHANGED file

ComputeSummary ==
    /\ inspect = "summarize"
    /\ ReportsNow("computeSummary", Orphans)
    /\ inspect' = "done"
    /\ UNCHANGED file

InspectorStep == ScanJson \/ ScanFromFile \/ ListEntries \/ ComputeSummary

FileInit ==
    /\ \E held \in [Key -> {0, 1, None}], tombstones \in SUBSET Peer :
           file = [record |-> held, tombstonePeerIds |-> tombstones]

InspectorInit == inspect = "scan" /\ reports = {}

-----------------------------------------------------------------------------

\* Whatever is said of one file is consistent: two reports, of one tool or of both,
\* differ on a record only when it has expired at the later of them and had not
\* yet, or just then, at the other.
ReportsAgree ==
    \A r, other \in reports : \A k \in r.orphans \ other.orphans :
        other.at <= file.record[k] /\ file.record[k] <= r.at
=============================================================================
