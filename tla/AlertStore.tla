----------------------------- MODULE AlertStore -----------------------------
(***************************************************************************)
(* AlertStore of dashboard/store.py: one row per dedup_key in a SQLite     *)
(* database reached through one connection, every call under one lock.     *)
(*                                                                         *)
(* insert_or_update() executes an upsert and then commits.  Either can     *)
(* raise, and the caller goes on.  After a commit that raised, SQLite may  *)
(* have rolled the transaction back or left it open on the connection: the *)
(* row is then seen by every read through it, becomes durable with the     *)
(* next commit and is lost if the connection goes first.                   *)
(***************************************************************************)
EXTENDS Alerts, FiniteSets

VARIABLES
    rows,       \* the table as the connection sees it: dedup_key |-> row
    disk,       \* the table as last committed
    open,       \* the connection is open
    attempts    \* history: the insert_or_update() calls and how they ended

vars == <<rows, disk, open, attempts>>

Row == [ occurrences : Nat \ {0}, severity : Severity,
         firstSeen : Times, lastSeen : Times ]

Attempt == [alert : Alert, ended : {"stored", "uncommitted", "rejected"}]

TypeOK ==
    /\ DOMAIN rows \subseteq Keys /\ rows \in [DOMAIN rows -> Row]
    /\ DOMAIN disk \subseteq Keys /\ disk \in [DOMAIN disk -> Row]
    /\ open \in BOOLEAN
    /\ attempts \in Seq(Attempt)

\* A new database file, its schema created.
Init ==
    /\ rows = NoEntries
    /\ disk = NoEntries
    /\ open = TRUE
    /\ attempts = <<>>

-----------------------------------------------------------------------------
FirstRow(a) ==
    [ occurrences |-> 1, severity |-> a.severity,
      firstSeen |-> a.firstSeen, lastSeen |-> a.lastSeen ]

\* Mistakes a change to this code could make, for the checks to catch.
UpsertedReplacing(a) == Put(rows, a.key, FirstRow(a))

UpsertedMovingStart(a) ==
    Put(rows, a.key,
        IF a.key \in DOMAIN rows
        THEN [FirstRow(a) EXCEPT !.occurrences = rows[a.key].occurrences + 1]
        ELSE FirstRow(a))

UpsertedFromZero(a) ==
    Put(rows, a.key,
        IF a.key \in DOMAIN rows
        THEN [rows[a.key] EXCEPT !.occurrences = @ + 1]
        ELSE [FirstRow(a) EXCEPT !.occurrences = 0])

-----------------------------------------------------------------------------
\* INSERT ... ON CONFLICT(dedup_key) DO UPDATE.
Upserted(a) ==
    Put(rows, a.key,
        IF a.key \in DOMAIN rows
        THEN [rows[a.key] EXCEPT !.occurrences = @ + 1,
                                 !.severity = a.severity,
                                 !.lastSeen = a.lastSeen]
        ELSE FirstRow(a))

Log(a, how) == attempts' = Append(attempts, [alert |-> a, ended |-> how])

Insert(a) ==
    /\ open
    /\ rows' = Upserted(a)
    /\ disk' = rows'
    /\ Log(a, "stored")
    /\ UNCHANGED open

\* commit() raises.
CommitFails(a) ==
    /\ open
    /\ rows' \in {Upserted(a), disk}
    /\ Log(a, "uncommitted")
    /\ UNCHANGED <<disk, open>>

\* execute() raises: the connection is closed, or SQLite refuses the
\* statement and perhaps rolls an open transaction back.
ExecuteFails(a) ==
    /\ rows' \in {rows, disk}
    /\ Log(a, "rejected")
    /\ UNCHANGED <<disk, open>>

\* close() does not commit.  A killed process leaves the same behind.
Close ==
    /\ open
    /\ rows' = disk
    /\ open' = FALSE
    /\ UNCHANGED <<disk, attempts>>

\* The next process opens the same file: CREATE TABLE IF NOT EXISTS.
Reopen ==
    /\ ~open
    /\ rows' = disk
    /\ open' = TRUE
    /\ UNCHANGED <<disk, attempts>>

Next ==
    \/ \E k \in Keys, t \in Times : \E s \in KeySeverities[k] :
        LET n == Len(attempts) + 1
            a == NewAlert(n, k, s, t)
        IN  n \in Ids /\ (Insert(a) \/ CommitFails(a) \/ ExecuteFails(a))
    \/ Close
    \/ Reopen

Spec == Init /\ [][Next]_vars

-----------------------------------------------------------------------------
Ended(k, how) ==
    { i \in 1..Len(attempts) :
        attempts[i].alert.key = k /\ attempts[i].ended \in how }

Count(table, k) == IF k \in DOMAIN table THEN table[k].occurrences ELSE 0

(***************************************************************************)
(* The occurrence count the dashboard shows, and the one a restart finds,  *)
(* is the number of alerts of the source stored, give or take those whose  *)
(* commit raised: faults, closing and reopening never lose a committed     *)
(* alert and never count one twice.                                        *)
(***************************************************************************)
CountsAreAccurate ==
    \A k \in Keys, table \in {rows, disk} :
        /\ Count(table, k) >= Cardinality(Ended(k, {"stored"}))
        /\ Count(table, k) <= Cardinality(Ended(k, {"stored", "uncommitted"}))

(***************************************************************************)
(* A row spans its alerts: it begins at the first alert of its source that *)
(* reached the table and shows the stamp and the severity of the latest.   *)
(***************************************************************************)
RowsSpanTheirAlerts ==
    \A table \in {rows, disk} : \A k \in DOMAIN table :
        \E f, l \in Ended(k, {"stored", "uncommitted"}) :
            /\ \A i \in Ended(k, {"stored"}) : f <= i /\ i <= l
            /\ table[k].firstSeen = attempts[f].alert.firstSeen
            /\ table[k].lastSeen = attempts[l].alert.lastSeen
            /\ table[k].severity = attempts[l].alert.severity
=============================================================================
