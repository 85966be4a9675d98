-------------------------- MODULE AlertStoreProofs --------------------------
(***************************************************************************)
(* AlertStore for any keys, stamps, severities and number of alerts, and   *)
(* any faults.                                                             *)
(*                                                                         *)
(* What is said of a table is said of the connection's and of the          *)
(* committed one alike (Tallies), since every step makes each of the two   *)
(* what one of them was, or that with one alert upserted.  A step of the   *)
(* first kind is in the history as an alert that may be missing from the   *)
(* table, one of the second as an alert that may be in it.                 *)
(***************************************************************************)
EXTENDS AlertStore, FiniteSetTheorems, SequenceTheorems, TLAPS

EndedIn(h, k, how) == { i \in 1..Len(h) : h[i].alert.key = k /\ h[i].ended \in how }

Reached == {"stored", "uncommitted"}

Counts(table, h) ==
    \A k \in Keys :
        /\ Count(table, k) >= Cardinality(EndedIn(h, k, {"stored"}))
        /\ Count(table, k) <= Cardinality(EndedIn(h, k, Reached))

Spans(table, h, k) ==
    \E f, l \in EndedIn(h, k, Reached) :
        /\ \A i \in EndedIn(h, k, {"stored"}) : f <= i /\ i <= l
        /\ table[k].firstSeen = h[f].alert.firstSeen
        /\ table[k].lastSeen = h[l].alert.lastSeen
        /\ table[k].severity = h[l].alert.severity

\* The table agrees with the history.
Tallies(table, h) ==
    /\ DOMAIN table \subseteq Keys /\ table \in [DOMAIN table -> Row]
    /\ Counts(table, h)
    /\ \A k \in DOMAIN table : Spans(table, h, k)

UpsertedInto(table, a) ==
    Put(table, a.key,
        IF a.key \in DOMAIN table
        THEN [table[a.key] EXCEPT !.occurrences = @ + 1,
                                  !.severity = a.severity,
                                  !.lastSeen = a.lastSeen]
        ELSE FirstRow(a))

IInv ==
    /\ open \in BOOLEAN
    /\ attempts \in Seq(Attempt)
    /\ Tallies(rows, attempts)
    /\ Tallies(disk, attempts)

-----------------------------------------------------------------------------
\* An empty dict has no keys, and its values are of any kind.
LEMMA NoEntriesType ==
    ASSUME NEW S
    PROVE  DOMAIN NoEntries = {} /\ NoEntries \in [DOMAIN NoEntries -> S]
BY DEF NoEntries

\* What a detector creates is an alert.
LEMMA NewAlertType ==
    ASSUME NEW n \in Ids, NEW k \in Keys, NEW s \in KeySeverities[k], NEW t \in Times
    PROVE  /\ NewAlert(n, k, s, t) \in Alert
           /\ NewAlert(n, k, s, t).id = n
           /\ NewAlert(n, k, s, t).key = k
           /\ NewAlert(n, k, s, t).lastSeen = t
BY AlertAssumption DEF NewAlert, Alert

\* A new call is counted where it belongs, and nothing else changes.
LEMMA OneMore ==
    ASSUME NEW h \in Seq(Attempt), NEW e \in Attempt, NEW k, NEW how
    PROVE  /\ EndedIn(Append(h, e), k, how) =
                IF e.alert.key = k /\ e.ended \in how
                THEN EndedIn(h, k, how) \cup {Len(h) + 1}
                ELSE EndedIn(h, k, how)
           /\ Cardinality(EndedIn(h, k, how)) \in Nat
           /\ Cardinality(EndedIn(Append(h, e), k, how)) =
                IF e.alert.key = k /\ e.ended \in how
                THEN Cardinality(EndedIn(h, k, how)) + 1
                ELSE Cardinality(EndedIn(h, k, how))
<1> DEFINE old == EndedIn(h, k, how)
           g == Append(h, e)
<1>1. /\ Len(h) \in Nat /\ Len(g) = Len(h) + 1
      /\ \A i \in 1..Len(h) : g[i] = h[i]
      /\ g[Len(h) + 1] = e
  BY AppendProperties
<1> HIDE DEF g
<1>2. EndedIn(g, k, how) = IF e.alert.key = k /\ e.ended \in how
                           THEN old \cup {Len(h) + 1} ELSE old
  BY <1>1 DEF EndedIn
<1>3. old \subseteq 1..Len(h) /\ Len(h) + 1 \notin old
  BY <1>1 DEF EndedIn
<1>4. IsFiniteSet(old)
  <2>1. IsFiniteSet(1..Len(h))
    BY <1>1, FS_Interval
  <2> QED
    BY <1>3, <2>1, FS_Subset
<1>5. Cardinality(old) \in Nat
  BY <1>4, FS_CardinalityType
<1>6. Cardinality(old \cup {Len(h) + 1}) = Cardinality(old) + 1
  BY <1>3, <1>4, FS_AddElement
<1> QED
  BY <1>2, <1>5, <1>6 DEF g

\* A key none of whose alerts was stored is one with a count of zero.
LEMMA NoneEnded ==
    ASSUME NEW h \in Seq(Attempt), NEW k, NEW how,
           Cardinality(EndedIn(h, k, how)) <= 0
    PROVE  EndedIn(h, k, how) = {}
<1>1. Len(h) \in Nat /\ EndedIn(h, k, how) \subseteq 1..Len(h)
  BY DEF EndedIn
<1>2. IsFiniteSet(1..Len(h))
  BY <1>1, FS_Interval
<1>3. IsFiniteSet(EndedIn(h, k, how))
  BY <1>1, <1>2, FS_Subset
<1>4. Cardinality(EndedIn(h, k, how)) = 0
  BY <1>3, FS_CardinalityType
<1> QED
  BY <1>3, <1>4, FS_EmptySet

\* A table agrees also with a history in which one more call stored nothing.
LEMMA KeptTable ==
    ASSUME NEW h \in Seq(Attempt), NEW table, Tallies(table, h),
           NEW e \in Attempt, e.ended # "stored"
    PROVE  Tallies(table, Append(h, e))
<1> DEFINE g == Append(h, e)
<1>1. \A k : EndedIn(g, k, {"stored"}) = EndedIn(h, k, {"stored"})
  BY OneMore
<1>2. \A k : /\ Cardinality(EndedIn(h, k, Reached)) \in Nat
             /\ \/ Cardinality(EndedIn(g, k, Reached)) =
                        Cardinality(EndedIn(h, k, Reached))
                \/ Cardinality(EndedIn(g, k, Reached)) =
                        Cardinality(EndedIn(h, k, Reached)) + 1
             /\ EndedIn(h, k, Reached) \subseteq EndedIn(g, k, Reached)
  BY OneMore
<1>3. \A k \in Keys : Count(table, k) \in Nat
  BY DEF Tallies, Count, Row
<1>4. Counts(table, g)
  <2> SUFFICES ASSUME NEW k \in Keys
               PROVE  /\ Count(table, k) >= Cardinality(EndedIn(g, k, {"stored"}))
                      /\ Count(table, k) <= Cardinality(EndedIn(g, k, Reached))
    BY DEF Counts
  <2>1. /\ Count(table, k) >= Cardinality(EndedIn(h, k, {"stored"}))
        /\ Count(table, k) <= Cardinality(EndedIn(h, k, Reached))
    BY DEF Tallies, Counts
  <2>2. EndedIn(g, k, {"stored"}) = EndedIn(h, k, {"stored"})
    BY <1>1
  <2> QED
    BY <1>2, <1>3, <2>1, <2>2
<1>5. ASSUME NEW k \in DOMAIN table PROVE Spans(table, g, k)
  <2>1. PICK f \in EndedIn(h, k, Reached), l \in EndedIn(h, k, Reached) :
            /\ \A i \in EndedIn(h, k, {"stored"}) : f <= i /\ i <= l
            /\ table[k].firstSeen = h[f].alert.firstSeen
            /\ table[k].lastSeen = h[l].alert.lastSeen
            /\ table[k].severity = h[l].alert.severity
    BY DEF Tallies, Spans
  <2>2. f \in 1..Len(h) /\ l \in 1..Len(h)
    BY DEF EndedIn
  <2>3. g[f] = h[f] /\ g[l] = h[l]
    BY <2>2, AppendProperties
  <2> QED
    BY <1>1, <1>2, <2>1, <2>3 DEF Spans
<1> QED
  BY <1>4, <1>5 DEF Tallies

\* An upsert makes the table agree with the history that has its alert.
LEMMA UpsertedTable ==
    ASSUME NEW h \in Seq(Attempt), NEW table, Tallies(table, h),
           NEW a \in Alert, NEW how \in Reached
    PROVE  Tallies(UpsertedInto(table, a), Append(h, [alert |-> a, ended |-> how]))
<1> DEFINE e == [alert |-> a, ended |-> how]
           g == Append(h, e)
           n == Len(h) + 1
           new == UpsertedInto(table, a)
<1>1. e \in Attempt /\ e.alert = a /\ e.ended = how
  BY DEF Attempt, Reached
<1>2. /\ Len(h) \in Nat /\ g[n] = e
      /\ \A i \in 1..Len(h) : g[i] = h[i]
  BY <1>1, AppendProperties
<1> HIDE DEF e
<1>3. \A k, w : /\ EndedIn(g, k, w) = IF a.key = k /\ how \in w
                                     THEN EndedIn(h, k, w) \cup {n}
                                     ELSE EndedIn(h, k, w)
                /\ Cardinality(EndedIn(h, k, w)) \in Nat
                /\ Cardinality(EndedIn(g, k, w)) = IF a.key = k /\ how \in w
                                     THEN Cardinality(EndedIn(h, k, w)) + 1
                                     ELSE Cardinality(EndedIn(h, k, w))
  BY <1>1, OneMore
<1> HIDE DEF g
<1>4. /\ a.key \in Keys /\ a.severity \in Severity
      /\ a.firstSeen \in Times /\ a.lastSeen \in Times
  BY DEF Alert
<1>5. /\ DOMAIN table \subseteq Keys
      /\ \A k \in DOMAIN table : table[k] \in Row
  BY DEF Tallies
<1>6. /\ DOMAIN new = DOMAIN table \cup {a.key}
      /\ \A k \in DOMAIN table : k # a.key => new[k] = table[k]
      /\ a.key \in DOMAIN table =>
            new[a.key] = [table[a.key] EXCEPT !.occurrences = @ + 1,
                                              !.severity = a.severity,
                                              !.lastSeen = a.lastSeen]
      /\ a.key \notin DOMAIN table => new[a.key] = FirstRow(a)
  BY DEF UpsertedInto, Put
<1>7. new = [k \in DOMAIN new |-> new[k]]
  BY DEF UpsertedInto, Put
<1>8. new[a.key] \in Row
  <2>1. CASE a.key \in DOMAIN table
    <3> DEFINE r == table[a.key]
    <3>1. r \in Row
      BY <1>5, <2>1
    <3>2. new[a.key] = [ occurrences |-> r.occurrences + 1, severity |-> a.severity,
                         firstSeen |-> r.firstSeen, lastSeen |-> a.lastSeen ]
      BY <1>6, <2>1, <3>1 DEF Row
    <3>3. r.occurrences + 1 \in Nat \ {0} /\ r.firstSeen \in Times
      BY <3>1 DEF Row
    <3> HIDE DEF new, r
    <3> QED
      BY <1>4, <3>2, <3>3 DEF Row
  <2>2. CASE a.key \notin DOMAIN table
    BY <1>4, <1>6, <2>2 DEF Row, FirstRow
  <2> QED
    BY <2>1, <2>2
<1>9. DOMAIN new \subseteq Keys /\ new \in [DOMAIN new -> Row]
  <2>1. \A k \in DOMAIN new : new[k] \in Row
    BY <1>5, <1>6, <1>8
  <2> QED
    BY <1>4, <1>5, <1>6, <1>7, <2>1
<1>10. /\ Count(new, a.key) = Count(table, a.key) + 1
       /\ \A k \in Keys : Count(table, k) \in Nat
       /\ \A k \in Keys : k # a.key => Count(new, k) = Count(table, k)
  <2>1. CASE a.key \in DOMAIN table
    BY <1>4, <1>5, <1>6, <2>1 DEF Count, Row
  <2>2. CASE a.key \notin DOMAIN table
    BY <1>4, <1>5, <1>6, <2>2 DEF Count, Row, FirstRow
  <2> QED
    BY <2>1, <2>2
<1> HIDE DEF new
<1>11. Counts(new, g)
  <2> SUFFICES ASSUME NEW k \in Keys
               PROVE  /\ Count(new, k) >= Cardinality(EndedIn(g, k, {"stored"}))
                      /\ Count(new, k) <= Cardinality(EndedIn(g, k, Reached))
    BY DEF Counts
  <2>1. /\ Count(table, k) >= Cardinality(EndedIn(h, k, {"stored"}))
        /\ Count(table, k) <= Cardinality(EndedIn(h, k, Reached))
    BY DEF Tallies, Counts
  <2>2. /\ Cardinality(EndedIn(h, k, {"stored"})) \in Nat
        /\ Cardinality(EndedIn(h, k, Reached)) \in Nat
    BY <1>3
  <2>3. CASE k = a.key
    <3>1. /\ Cardinality(EndedIn(g, k, {"stored"})) <=
                    Cardinality(EndedIn(h, k, {"stored"})) + 1
          /\ Cardinality(EndedIn(g, k, Reached)) =
                    Cardinality(EndedIn(h, k, Reached)) + 1
      BY <1>3, <2>2, <2>3
    <3>2. Cardinality(EndedIn(g, k, {"stored"})) \in Nat
      BY <1>3, <2>2
    <3> QED
      BY <1>10, <2>1, <2>2, <2>3, <3>1, <3>2
  <2>4. CASE k # a.key
    <3>1. /\ EndedIn(g, k, {"stored"}) = EndedIn(h, k, {"stored"})
          /\ EndedIn(g, k, Reached) = EndedIn(h, k, Reached)
      BY <1>3, <2>4
    <3> QED
      BY <1>10, <2>1, <2>4, <3>1
  <2> QED
    BY <2>3, <2>4
<1>12. ASSUME NEW k \in DOMAIN new PROVE Spans(new, g, k)
  <2>1. CASE k \in DOMAIN table
    <3>1. PICK f \in EndedIn(h, k, Reached), l \in EndedIn(h, k, Reached) :
            /\ \A i \in EndedIn(h, k, {"stored"}) : f <= i /\ i <= l
            /\ table[k].firstSeen = h[f].alert.firstSeen
            /\ table[k].lastSeen = h[l].alert.lastSeen
            /\ table[k].severity = h[l].alert.severity
      BY <2>1 DEF Tallies, Spans
    <3>2. f \in 1..Len(h) /\ l \in 1..Len(h)
      BY DEF EndedIn
    <3>3. g[f] = h[f] /\ g[l] = h[l]
      BY <1>2, <3>2
    <3>4. CASE k # a.key
      <4>1. /\ EndedIn(g, k, {"stored"}) = EndedIn(h, k, {"stored"})
            /\ EndedIn(g, k, Reached) = EndedIn(h, k, Reached)
            /\ new[k] = table[k]
        BY <1>3, <1>6, <2>1, <3>4
      <4> QED
        BY <3>1, <3>3, <4>1 DEF Spans
    <3>5. CASE k = a.key
      <4>1. /\ f \in EndedIn(g, k, Reached) /\ n \in EndedIn(g, k, Reached)
            /\ EndedIn(g, k, {"stored"}) \subseteq EndedIn(h, k, {"stored"}) \cup {n}
        BY <1>3, <3>5
      <4>2. \A i \in EndedIn(g, k, {"stored"}) : f <= i /\ i <= n
        <5>1. EndedIn(h, k, {"stored"}) \subseteq 1..Len(h)
          BY DEF EndedIn
        <5> QED
          BY <1>2, <3>1, <3>2, <4>1, <5>1
      <4>3. /\ new[k].firstSeen = table[k].firstSeen
            /\ new[k].lastSeen = a.lastSeen /\ new[k].severity = a.severity
        BY <1>5, <1>6, <2>1, <3>5 DEF Row
      <4> QED
        BY <1>1, <1>2, <3>1, <3>3, <4>1, <4>2, <4>3 DEF Spans
    <3> QED
      BY <3>4, <3>5
  <2>2. CASE k \notin DOMAIN table
    <3>1. k = a.key /\ k \in Keys /\ new[k] = FirstRow(a)
      BY <1>4, <1>6, <2>2
    <3>2. Cardinality(EndedIn(h, k, {"stored"})) <= 0
      BY <2>2, <3>1 DEF Tallies, Counts, Count
    <3>3. EndedIn(g, k, {"stored"}) \subseteq {n} /\ n \in EndedIn(g, k, Reached)
      BY <1>3, <3>1, <3>2, NoneEnded
    <3>4. /\ new[k].firstSeen = a.firstSeen /\ new[k].lastSeen = a.lastSeen
          /\ new[k].severity = a.severity
      BY <3>1 DEF FirstRow
    <3> QED
      BY <1>1, <1>2, <3>3, <3>4 DEF Spans
  <2> QED
    BY <2>1, <2>2
<1> QED
  BY <1>9, <1>11, <1>12 DEF Tallies, e, g, new

-----------------------------------------------------------------------------
LEMMA Empty == Tallies(NoEntries, <<>>)
<1>1. \A k, how : EndedIn(<<>>, k, how) = {}
  BY DEF EndedIn
<1>2. Counts(NoEntries, <<>>)
  <2>1. \A k : Count(NoEntries, k) = 0
    BY DEF Count, NoEntries
  <2>2. \A k, how : Cardinality(EndedIn(<<>>, k, how)) = 0
    BY <1>1, FS_EmptySet
  <2> QED
    BY <2>1, <2>2 DEF Counts
<1> QED
  BY <1>2, NoEntriesType DEF Tallies

LEMMA StepInv ==
    ASSUME IInv, [Next]_vars
    PROVE  IInv'
<1>1. ASSUME NEW a \in Alert, Insert(a) \/ CommitFails(a) \/ ExecuteFails(a)
      PROVE  IInv'
  <2>1. Upserted(a) = UpsertedInto(rows, a)
    BY DEF Upserted, UpsertedInto
  <2>2. CASE Insert(a)
    <3> DEFINE e == [alert |-> a, ended |-> "stored"]
    <3>1. e \in Attempt /\ attempts' = Append(attempts, e)
      BY <2>2 DEF Insert, Log, Attempt
    <3>2. Tallies(UpsertedInto(rows, a), Append(attempts, e))
      BY UpsertedTable DEF IInv, Reached
    <3>3. rows' = UpsertedInto(rows, a) /\ disk' = rows' /\ open' = open
      BY <2>1, <2>2 DEF Insert
    <3> QED
      BY <3>1, <3>2, <3>3, AppendProperties DEF IInv
  <2>3. CASE CommitFails(a)
    <3> DEFINE e == [alert |-> a, ended |-> "uncommitted"]
    <3>1. e \in Attempt /\ attempts' = Append(attempts, e)
      BY <2>3 DEF CommitFails, Log, Attempt
    <3>2. /\ Tallies(UpsertedInto(rows, a), Append(attempts, e))
          /\ Tallies(disk, Append(attempts, e))
      BY <3>1, UpsertedTable, KeptTable DEF IInv, Reached
    <3>3. rows' \in {UpsertedInto(rows, a), disk} /\ UNCHANGED <<disk, open>>
      BY <2>1, <2>3 DEF CommitFails
    <3> QED
      BY <3>1, <3>2, <3>3, AppendProperties DEF IInv
  <2>4. CASE ExecuteFails(a)
    <3> DEFINE e == [alert |-> a, ended |-> "rejected"]
    <3>1. e \in Attempt /\ attempts' = Append(attempts, e)
      BY <2>4 DEF ExecuteFails, Log, Attempt
    <3>2. Tallies(rows, Append(attempts, e)) /\ Tallies(disk, Append(attempts, e))
      BY <3>1, KeptTable DEF IInv
    <3>3. rows' \in {rows, disk} /\ UNCHANGED <<disk, open>>
      BY <2>4 DEF ExecuteFails
    <3> QED
      BY <3>1, <3>2, <3>3, AppendProperties DEF IInv
  <2> QED
    BY <1>1, <2>2, <2>3, <2>4
<1>2. CASE \E k \in Keys, t \in Times : \E s \in KeySeverities[k] :
             LET m == Len(attempts) + 1
                 a == NewAlert(m, k, s, t)
             IN  m \in Ids /\ (Insert(a) \/ CommitFails(a) \/ ExecuteFails(a))
  <2>1. PICK k \in Keys, t \in Times : \E s \in KeySeverities[k] :
            LET a == NewAlert(Len(attempts) + 1, k, s, t)
            IN  /\ Len(attempts) + 1 \in Ids
                /\ Insert(a) \/ CommitFails(a) \/ ExecuteFails(a)
    BY <1>2
  <2>2. PICK s \in KeySeverities[k] :
            LET a == NewAlert(Len(attempts) + 1, k, s, t)
            IN  /\ Len(attempts) + 1 \in Ids
                /\ Insert(a) \/ CommitFails(a) \/ ExecuteFails(a)
    BY <2>1
  <2> QED
    BY <1>1, <2>2, NewAlertType
<1>3. CASE Close \/ Reopen \/ UNCHANGED vars
  <2>1. /\ rows' \in {rows, disk} /\ disk' = disk /\ open' \in {TRUE, FALSE, open}
        /\ attempts' = attempts
    BY <1>3 DEF Close, Reopen, vars
  <2> QED
    BY <2>1 DEF IInv
<1> QED
  BY <1>2, <1>3 DEF Next

LEMMA Invariance == Spec => []IInv
<1>1. Init => IInv
  BY Empty DEF Init, IInv
<1> QED
  BY <1>1, StepInv, PTL DEF Spec

(***************************************************************************)
(* Rows, database file and history are well typed.                         *)
(***************************************************************************)
THEOREM TypeCorrect == Spec => []TypeOK
<1>1. IInv => TypeOK
  BY DEF IInv, Tallies, TypeOK
<1> QED
  BY <1>1, Invariance, PTL

(***************************************************************************)
(* insert_or_update() counts each alert once, in the table the dashboard   *)
(* reads and in the one a restart finds: for every number of alerts, and   *)
(* whichever statements and commits fail.                                  *)
(***************************************************************************)
THEOREM CountsHold == Spec => []CountsAreAccurate
<1>1. IInv => CountsAreAccurate
  BY DEF IInv, Tallies, Counts, CountsAreAccurate, Ended, EndedIn, Reached
<1> QED
  BY <1>1, Invariance, PTL

(***************************************************************************)
(* Each row of either table spans the alerts it stands for.                *)
(***************************************************************************)
THEOREM SpansHold == Spec => []RowsSpanTheirAlerts
<1>1. IInv => RowsSpanTheirAlerts
  <2>1. \A k : /\ Ended(k, {"stored"}) = EndedIn(attempts, k, {"stored"})
               /\ Ended(k, {"stored", "uncommitted"}) = EndedIn(attempts, k, Reached)
    BY DEF Ended, EndedIn, Reached
  <2> SUFFICES ASSUME IInv, NEW table \in {rows, disk}, NEW k \in DOMAIN table
               PROVE  \E f, l \in Ended(k, {"stored", "uncommitted"}) :
                        /\ \A i \in Ended(k, {"stored"}) : f <= i /\ i <= l
                        /\ table[k].firstSeen = attempts[f].alert.firstSeen
                        /\ table[k].lastSeen = attempts[l].alert.lastSeen
                        /\ table[k].severity = attempts[l].alert.severity
    BY DEF RowsSpanTheirAlerts
  <2>2. Spans(table, attempts, k)
    BY DEF IInv, Tallies
  <2> QED
    BY <2>1, <2>2 DEF Spans
<1> QED
  BY <1>1, Invariance, PTL
=============================================================================
