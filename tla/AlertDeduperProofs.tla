------------------------- MODULE AlertDeduperProofs -------------------------
(***************************************************************************)
(* The rate limit of AlertDeduper, proved for every set of keys, stamps    *)
(* and windows and for histories of any length.                            *)
(*                                                                         *)
(* OneNoticePerWindow speaks of the history alone and process() consults   *)
(* the dict alone, so the inductive invariant says that the dict remembers *)
(* of the history what matters: for each key ever seen, the stamp of its   *)
(* last notification.  WithheldTellsItsBurst needs that the dict also has  *)
(* the start and the length of the burst each key is in (DictCounts).      *)
(***************************************************************************)
EXTENDS AlertDeduper, FiniteSetTheorems, SequenceTheorems, TLAPS

\* The i-th call is the latest so far that passed an alert of key k.
LatestPass(i, k) ==
    /\ i \in 1..Len(handled)
    /\ handled[i].passed
    /\ KeyOf(i) = k
    /\ \A m \in (i + 1)..Len(handled) : handled[m].passed => KeyOf(m) # k

DictRemembers ==
    /\ \A k \in DOMAIN dedup :
        \E i \in 1..Len(handled) :
            LatestPass(i, k) /\ Stamp(i) = dedup[k].windowStart
    /\ \A i \in 1..Len(handled) : KeyOf(i) \in DOMAIN dedup

\* The calls of key k from the i-th on.
Burst(i, k) == { m \in i..Len(handled) : KeyOf(m) = k }

\* The dict also remembers how the burst it is in began and how long it is.
DictCounts ==
    \A i \in 1..Len(handled) : \A k \in DOMAIN dedup :
        LatestPass(i, k) =>
            /\ dedup[k].occurrences = Cardinality(Burst(i, k))
            /\ dedup[k].firstSeen = handled[i].alert.firstSeen

-----------------------------------------------------------------------------
\* An empty dict has no keys, and its values are of any kind.
LEMMA NoEntriesType ==
    ASSUME NEW S
    PROVE  DOMAIN NoEntries = {} /\ NoEntries \in [DOMAIN NoEntries -> S]
BY DEF NoEntries

\* What a detector creates is an alert.
LEMMA NewAlertType ==
    ASSUME NEW n \in Ids, NEW k \in Keys, NEW s \in KeySeverities[k], NEW t \in Times
    PROVE  /\ NewAlert(n, k, s, t) \in Alert
           /\ NewAlert(n, k, s, t).id = n
           /\ NewAlert(n, k, s, t).key = k
           /\ NewAlert(n, k, s, t).lastSeen = t
BY AlertAssumption DEF NewAlert, Alert

\* The entry process() leaves in the history is well typed, and so is the
\* state it keeps.
LEMMA ProcessedTypes ==
    ASSUME TypeOK, NEW a \in Alert
    PROVE  /\ Opened(a) \in DedupeState
           /\ a.key \in DOMAIN dedup => Repeated(a) \in DedupeState
           /\ Updated(a) \in Alert
           /\ Updated(a).key = a.key
           /\ Updated(a).lastSeen = a.lastSeen
           /\ [alert |-> Updated(a), passed |-> Opens(a), window |-> window] \in Outcome
<1>1. Opened(a) \in DedupeState
  BY DEF Opened, DedupeState, Alert
<1>2. ASSUME a.key \in DOMAIN dedup PROVE Repeated(a) \in DedupeState
  <2> DEFINE d == dedup[a.key]
  <2>1. d \in DedupeState
    BY <1>2 DEF TypeOK
  <2>2. Repeated(a) = [d EXCEPT !.occurrences = d.occurrences + 1,
                               !.lastSeen = a.lastSeen]
    BY DEF Repeated
  <2>3. d.occurrences + 1 \in Nat \ {0}
    BY <2>1 DEF DedupeState
  <2>4. a.lastSeen \in Times
    BY DEF Alert
  <2> HIDE DEF d
  <2> QED
    BY <2>1, <2>2, <2>3, <2>4 DEF DedupeState
<1>3. Updated(a) \in Alert /\ Updated(a).key = a.key /\ Updated(a).lastSeen = a.lastSeen
  <2>1. CASE Opens(a)
    BY <2>1 DEF Updated, Alert
  <2>2. CASE ~Opens(a)
    <3>1. Repeated(a) \in DedupeState
      BY <2>2, <1>2 DEF Opens
    <3> QED
      BY <2>2, <3>1 DEF Updated, Alert, DedupeState
  <2> QED
    BY <2>1, <2>2
<1>4. Opens(a) \in BOOLEAN
  BY DEF Opens, WindowExpired
<1> QED
  BY <1>1, <1>2, <1>3, <1>4 DEF Outcome, TypeOK

\* process() keeps the types.
LEMMA ProcessTypeOK ==
    ASSUME TypeOK, NEW a \in Alert, Process(a)
    PROVE  TypeOK'
<1>1. handled' \in Seq(Outcome)
  BY ProcessedTypes, AppendProperties DEF Process, Pass, Suppress, Remember, TypeOK
<1>2. DOMAIN dedup' \subseteq Keys /\ dedup' \in [DOMAIN dedup' -> DedupeState]
  <2>0. a.key \in Keys
    BY DEF Alert
  <2>1. \E e \in DedupeState : dedup' = Put(dedup, a.key, e)
    <3>1. CASE Pass(a)
      BY <3>1, ProcessedTypes DEF Pass
    <3>2. CASE Suppress(a)
      BY <3>2, ProcessedTypes DEF Suppress, Opens
    <3> QED
      BY <3>1, <3>2 DEF Process
  <2>2. PICK e \in DedupeState : dedup' = Put(dedup, a.key, e)
    BY <2>1
  <2>3. dedup \in [DOMAIN dedup -> DedupeState] /\ DOMAIN dedup \subseteq Keys
    BY DEF TypeOK
  <2>4. /\ DOMAIN Put(dedup, a.key, e) = DOMAIN dedup \cup {a.key}
        /\ Put(dedup, a.key, e) \in [DOMAIN Put(dedup, a.key, e) -> DedupeState]
    BY <2>3 DEF Put
  <2> QED
    BY <2>0, <2>2, <2>3, <2>4, Zenon
<1> QED
  BY <1>1, <1>2 DEF Process, Pass, Suppress, TypeOK

-----------------------------------------------------------------------------
\* The last window opening of a key is unique, and it is the one the next
\* call of that key falls in.
LEMMA LatestPassUnique ==
    ASSUME TypeOK, NEW k, NEW i, NEW j, LatestPass(i, k), LatestPass(j, k)
    PROVE  i = j
<1>1. Len(handled) \in Nat
  BY DEF TypeOK
<1> QED
  BY <1>1 DEF LatestPass

\* What process(a) does to the history: the earlier calls stay as they were.
LEMMA HistoryGrows ==
    ASSUME TypeOK, NEW a \in Alert, Process(a)
    PROVE  /\ Len(handled) \in Nat
           /\ Len(handled') = Len(handled) + 1
           /\ \A i \in 1..Len(handled) : handled'[i] = handled[i]
           /\ handled'[Len(handled) + 1].passed = Opens(a)
           /\ handled'[Len(handled) + 1].window = window
           /\ handled'[Len(handled) + 1].alert.key = a.key
           /\ handled'[Len(handled) + 1].alert.lastSeen = a.lastSeen
<1> DEFINE e == [alert |-> Updated(a), passed |-> Opens(a), window |-> window]
<1>1. e \in Outcome /\ Updated(a).key = a.key /\ Updated(a).lastSeen = a.lastSeen
  BY ProcessedTypes
<1>2. handled' = Append(handled, e) /\ handled \in Seq(Outcome)
  BY DEF Process, Pass, Suppress, Remember, TypeOK
<1>3. /\ Len(handled) \in Nat
      /\ Len(handled') = Len(handled) + 1
      /\ \A i \in 1..Len(handled) : handled'[i] = handled[i]
      /\ handled'[Len(handled) + 1] = e
  <2> HIDE DEF e
  <2> QED
    BY <1>1, <1>2, AppendProperties
<1> QED
  BY <1>1, <1>3

(***************************************************************************)
(* process() keeps the dict in step with the history: passing an alert     *)
(* makes its call the latest opening of its key, suppressing one leaves    *)
(* every opening what it was.                                              *)
(***************************************************************************)
LEMMA ProcessKeepsDict ==
    ASSUME TypeOK, DictRemembers, NEW a \in Alert, Process(a)
    PROVE  DictRemembers'
<1>0. Len(handled) \in Nat
  BY DEF TypeOK
<1> PICK n \in Nat : n = Len(handled) + 1
  BY <1>0
<1>1. /\ Len(handled) \in Nat /\ Len(handled') = n
      /\ \A i \in 1..Len(handled) : handled'[i] = handled[i]
      /\ handled'[n].passed = Opens(a)
      /\ KeyOf(n)' = a.key /\ Stamp(n)' = a.lastSeen
  BY HistoryGrows DEF KeyOf, Stamp
<1>2. \A i \in 1..Len(handled) : KeyOf(i)' = KeyOf(i) /\ Stamp(i)' = Stamp(i)
  BY <1>1 DEF KeyOf, Stamp
<1>3. \A i \in 1..Len(handled) : KeyOf(i) \in DOMAIN dedup
  BY DEF DictRemembers
<1>4. \A i, k : LatestPass(i, k) /\ (k # a.key \/ ~Opens(a)) => LatestPass(i, k)'
  <2> SUFFICES ASSUME NEW i, NEW k, LatestPass(i, k), k # a.key \/ ~Opens(a)
               PROVE  LatestPass(i, k)'
    OBVIOUS
  <2>1. i \in 1..Len(handled) /\ handled[i].passed /\ KeyOf(i) = k
    BY DEF LatestPass
  <2>2. i \in 1..n /\ handled'[i].passed /\ KeyOf(i)' = k
    BY <1>1, <1>2, <2>1
  <2>3. ASSUME NEW m \in (i + 1)..n, handled'[m].passed PROVE KeyOf(m)' # k
    <3>1. CASE m = n
      BY <3>1, <2>3, <1>1
    <3>2. CASE m # n
      <4>1. m \in (i + 1)..Len(handled) /\ m \in 1..Len(handled)
        BY <3>2, <2>1, <1>1
      <4> QED
        BY <4>1, <2>3, <1>1, <1>2 DEF LatestPass
    <3> QED
      BY <3>1, <3>2
  <2> QED
    BY <2>2, <2>3, <1>1 DEF LatestPass
<1>5. CASE Pass(a)
  <2>1. /\ DOMAIN dedup' = DOMAIN dedup \cup {a.key}
        /\ dedup'[a.key] = Opened(a)
        /\ \A x \in DOMAIN dedup : x # a.key => dedup'[x] = dedup[x]
    <3>1. dedup' = Put(dedup, a.key, Opened(a))
      BY <1>5 DEF Pass
    <3> QED
      BY <3>1 DEF Put
  <2>2. LatestPass(n, a.key)' /\ Stamp(n)' = dedup'[a.key].windowStart
    BY <1>1, <1>5, <2>1 DEF LatestPass, Pass, Opened
  <2>3. ASSUME NEW k \in DOMAIN dedup'
        PROVE  \E i \in 1..n : LatestPass(i, k)' /\ Stamp(i)' = dedup'[k].windowStart
    <3>1. CASE k = a.key
      BY <3>1, <2>2, <1>1
    <3>2. CASE k # a.key
      <4>1. PICK i \in 1..Len(handled) :
                LatestPass(i, k) /\ Stamp(i) = dedup[k].windowStart
        BY <3>2, <2>1 DEF DictRemembers
      <4> QED
        BY <3>2, <4>1, <1>1, <1>2, <1>4, <2>1
    <3> QED
      BY <3>1, <3>2
  <2>4. \A i \in 1..n : KeyOf(i)' \in DOMAIN dedup'
    BY <1>1, <1>2, <1>3, <2>1
  <2> QED
    BY <2>3, <2>4, <1>1 DEF DictRemembers
<1>6. CASE Suppress(a)
  <2>1. /\ DOMAIN dedup' = DOMAIN dedup
        /\ dedup'[a.key] = Repeated(a)
        /\ \A x \in DOMAIN dedup : x # a.key => dedup'[x] = dedup[x]
        /\ a.key \in DOMAIN dedup /\ ~Opens(a)
    <3>1. /\ dedup' = Put(dedup, a.key, Repeated(a))
          /\ a.key \in DOMAIN dedup /\ ~Opens(a)
      BY <1>6 DEF Suppress, Opens
    <3>2. DOMAIN dedup \cup {a.key} = DOMAIN dedup
      BY <3>1
    <3> QED
      BY <3>1, <3>2 DEF Put
  <2>2. \A k \in DOMAIN dedup : dedup'[k].windowStart = dedup[k].windowStart
    <3>1. dedup[a.key] \in DedupeState
      BY <2>1 DEF TypeOK
    <3>2. Repeated(a).windowStart = dedup[a.key].windowStart
      BY <3>1 DEF Repeated, DedupeState
    <3> QED
      BY <2>1, <3>2
  <2>3. ASSUME NEW k \in DOMAIN dedup'
        PROVE  \E i \in 1..n : LatestPass(i, k)' /\ Stamp(i)' = dedup'[k].windowStart
    <3>1. PICK i \in 1..Len(handled) :
              LatestPass(i, k) /\ Stamp(i) = dedup[k].windowStart
      BY <2>1 DEF DictRemembers
    <3> QED
      BY <3>1, <2>1, <2>2, <1>1, <1>2, <1>4
  <2>4. \A i \in 1..n : KeyOf(i)' \in DOMAIN dedup'
    BY <1>1, <1>2, <1>3, <2>1
  <2> QED
    BY <2>3, <2>4, <1>1 DEF DictRemembers
<1> QED
  BY <1>5, <1>6 DEF Process

(***************************************************************************)
(* process() decides by the rule: what it compares the stamp with is the   *)
(* stamp of the one call that opened the window.                           *)
(***************************************************************************)
LEMMA ProcessKeepsRule ==
    ASSUME TypeOK, DictRemembers, OneNoticePerWindow, NEW a \in Alert, Process(a)
    PROVE  OneNoticePerWindow'
<1>0. Len(handled) \in Nat
  BY DEF TypeOK
<1> PICK n \in Nat : n = Len(handled) + 1
  BY <1>0
<1>1. /\ Len(handled) \in Nat /\ Len(handled') = n
      /\ \A i \in 1..Len(handled) : handled'[i] = handled[i]
      /\ handled'[n].passed = Opens(a)
      /\ handled'[n].window = window
      /\ KeyOf(n)' = a.key /\ Stamp(n)' = a.lastSeen
  BY HistoryGrows DEF KeyOf, Stamp
<1>2. \A i \in 1..Len(handled) : KeyOf(i)' = KeyOf(i) /\ Stamp(i)' = Stamp(i)
  BY <1>1 DEF KeyOf, Stamp
<1>3. ASSUME NEW j \in 1..Len(handled)
      PROVE  handled'[j].passed <=>
                \A i \in 1..(j - 1) :
                    OpenedFor(i, j)' => Stamp(j)' - Stamp(i)' >= handled'[j].window
  <2>1. ASSUME NEW i \in 1..(j - 1) PROVE OpenedFor(i, j)' <=> OpenedFor(i, j)
    <3>1. i \in 1..Len(handled) /\ \A m \in (i + 1)..(j - 1) : m \in 1..Len(handled)
      BY <1>1
    <3> QED
      BY <3>1, <1>1, <1>2 DEF OpenedFor
  <2>2. \A i \in 1..(j - 1) : i \in 1..Len(handled)
    BY <1>1
  <2> QED
    BY <2>1, <2>2, <1>1, <1>2 DEF OneNoticePerWindow
<1>4. \A i \in 1..Len(handled) : OpenedFor(i, n)' <=> LatestPass(i, a.key)
  <2> SUFFICES ASSUME NEW i \in 1..Len(handled)
               PROVE  OpenedFor(i, n)' <=> LatestPass(i, a.key)
    OBVIOUS
  <2>1. (i + 1)..(n - 1) = (i + 1)..Len(handled) /\ i < n
    BY <1>1
  <2>2. \A m \in (i + 1)..Len(handled) : m \in 1..Len(handled)
    BY <1>1
  <2> QED
    BY <2>1, <2>2, <1>1, <1>2 DEF OpenedFor, LatestPass
<1>5. Opens(a) <=>
        \A i \in 1..Len(handled) :
            LatestPass(i, a.key) => a.lastSeen - Stamp(i) >= window
  <2>1. CASE a.key \notin DOMAIN dedup
    BY <2>1 DEF Opens, DictRemembers, LatestPass
  <2>2. CASE a.key \in DOMAIN dedup
    <3>1. PICK i \in 1..Len(handled) :
              LatestPass(i, a.key) /\ Stamp(i) = dedup[a.key].windowStart
      BY <2>2 DEF DictRemembers
    <3>2. \A j : LatestPass(j, a.key) => j = i
      BY <3>1, LatestPassUnique
    <3> QED
      BY <2>2, <3>1, <3>2 DEF Opens, WindowExpired
  <2> QED
    BY <2>1, <2>2
<1>6. handled'[n].passed <=>
        \A i \in 1..(n - 1) :
            OpenedFor(i, n)' => Stamp(n)' - Stamp(i)' >= handled'[n].window
  <2>1. 1..(n - 1) = 1..Len(handled)
    BY <1>1
  <2> QED
    BY <2>1, <1>1, <1>2, <1>4, <1>5
<1>7. \A j \in 1..n : j \in 1..Len(handled) \/ j = n
  BY <1>1
<1> QED
  BY <1>1, <1>3, <1>6, <1>7 DEF OneNoticePerWindow

-----------------------------------------------------------------------------
(***************************************************************************)
(* The state and the history stay in the sets they are declared for.       *)
(***************************************************************************)
THEOREM TypeCorrect == Spec => []TypeOK
<1>1. Init => TypeOK
  BY NoEntriesType DEF Init, TypeOK
<1>2. TypeOK /\ [Next]_vars => TypeOK'
  <2> SUFFICES ASSUME TypeOK, [Next]_vars PROVE TypeOK'
    OBVIOUS
  <2>1. ASSUME NEW k \in Keys, NEW t \in Times, NEW s \in KeySeverities[k],
               Len(handled) + 1 \in Ids,
               Process(NewAlert(Len(handled) + 1, k, s, t))
        PROVE  TypeOK'
    BY <2>1, NewAlertType, ProcessTypeOK
  <2>2. ASSUME NEW w \in Windows, SetWindow(w) PROVE TypeOK'
    BY <2>2 DEF SetWindow, TypeOK, DedupeState, Outcome, Alert
  <2>3. CASE UNCHANGED vars
    BY <2>3 DEF vars, TypeOK
  <2> QED
    BY <2>1, <2>2, <2>3 DEF Next
<1> QED
  BY <1>1, <1>2, PTL DEF Spec

(***************************************************************************)
(* A source is notified exactly when the stamp of its last notice is at    *)
(* least a window before, whatever the order of stamps and of window       *)
(* changes.                                                                *)
(***************************************************************************)
THEOREM RateLimitHolds == Spec => []OneNoticePerWindow
<1>1. Init => DictRemembers /\ OneNoticePerWindow
  BY NoEntriesType DEF Init, DictRemembers, OneNoticePerWindow
<1>2. TypeOK /\ DictRemembers /\ OneNoticePerWindow /\ [Next]_vars
        => DictRemembers' /\ OneNoticePerWindow'
  <2> SUFFICES ASSUME TypeOK, DictRemembers, OneNoticePerWindow, [Next]_vars
               PROVE  DictRemembers' /\ OneNoticePerWindow'
    OBVIOUS
  <2>1. ASSUME NEW k \in Keys, NEW t \in Times, NEW s \in KeySeverities[k],
               Len(handled) + 1 \in Ids,
               Process(NewAlert(Len(handled) + 1, k, s, t))
        PROVE  DictRemembers' /\ OneNoticePerWindow'
    BY <2>1, NewAlertType, ProcessKeepsDict, ProcessKeepsRule
  <2>2. CASE UNCHANGED <<dedup, handled>>
    BY <2>2 DEF DictRemembers, LatestPass, OneNoticePerWindow, OpenedFor, KeyOf, Stamp
  <2> QED
    BY <2>1, <2>2 DEF Next, SetWindow, vars
<1> QED
  BY <1>1, <1>2, TypeCorrect, PTL DEF Spec

-----------------------------------------------------------------------------
(***************************************************************************)
(* process() keeps the dict's count and start of a burst in step with the  *)
(* history: a passed alert is a burst of one, a suppressed one adds itself *)
(* to the burst of its key.                                                *)
(***************************************************************************)
LEMMA ProcessKeepsBurst ==
    ASSUME TypeOK, DictRemembers, DictCounts, NEW a \in Alert, Process(a)
    PROVE  /\ DictCounts'
           /\ \A i \in 1..Len(handled) :
                LatestPass(i, a.key) /\ ~Opens(a) =>
                    /\ Updated(a).occurrences = Cardinality(Burst(i, a.key)) + 1
                    /\ Updated(a).firstSeen = handled[i].alert.firstSeen
<1>0. Len(handled) \in Nat
  BY DEF TypeOK
<1> PICK n \in Nat : n = Len(handled) + 1
  BY <1>0
<1>1. /\ Len(handled) \in Nat /\ Len(handled') = n
      /\ \A i \in 1..Len(handled) : handled'[i] = handled[i] /\ KeyOf(i)' = KeyOf(i)
      /\ handled'[n].passed = Opens(a) /\ KeyOf(n)' = a.key
  BY HistoryGrows DEF KeyOf
<1>2. handled'[n].alert = Updated(a)
  <2>1. handled' = Append(handled, [alert |-> Updated(a), passed |-> Opens(a),
                                    window |-> window])
    BY DEF Process, Pass, Suppress, Remember
  <2> QED
    BY <2>1, ProcessedTypes, AppendProperties DEF TypeOK
<1>3. ASSUME NEW i \in 1..Len(handled), NEW k
      PROVE  /\ Burst(i, k)' = IF k = a.key THEN Burst(i, k) \cup {n} ELSE Burst(i, k)
             /\ Cardinality(Burst(i, k) \cup {n}) = Cardinality(Burst(i, k)) + 1
             /\ LatestPass(i, k)' => LatestPass(i, k)
  <2>1. i..n = (i..Len(handled)) \cup {n} /\ \A m \in i..Len(handled) : m \in 1..Len(handled)
    BY <1>1
  <2>2. Burst(i, k)' = IF k = a.key THEN Burst(i, k) \cup {n} ELSE Burst(i, k)
    BY <1>1, <2>1 DEF Burst
  <2>3. Burst(i, k) \subseteq i..Len(handled) /\ n \notin Burst(i, k)
    BY <1>1 DEF Burst
  <2>4. IsFiniteSet(i..Len(handled))
    BY <1>1, FS_Interval
  <2>5. IsFiniteSet(Burst(i, k))
    BY <2>3, <2>4, FS_Subset
  <2>6. Cardinality(Burst(i, k) \cup {n}) = Cardinality(Burst(i, k)) + 1
    BY <2>3, <2>5, FS_AddElement
  <2>7. LatestPass(i, k)' => LatestPass(i, k)
    <3>1. \A m \in (i + 1)..Len(handled) : m \in (i + 1)..n /\ m \in 1..Len(handled)
      BY <1>1
    <3> QED
      BY <1>1, <3>1 DEF LatestPass
  <2> QED
    BY <2>2, <2>6, <2>7
<1>4. CASE Pass(a)
  <2>1. /\ Opens(a) /\ Updated(a).firstSeen = a.firstSeen
        /\ DOMAIN dedup' = DOMAIN dedup \cup {a.key}
        /\ dedup'[a.key].occurrences = 1 /\ dedup'[a.key].firstSeen = a.firstSeen
        /\ \A x \in DOMAIN dedup : x # a.key => dedup'[x] = dedup[x]
    BY <1>4 DEF Pass, Put, Opened, Updated, Alert
  <2>2. ASSUME NEW i \in 1..n, NEW k \in DOMAIN dedup', LatestPass(i, k)'
        PROVE  /\ dedup'[k].occurrences = Cardinality(Burst(i, k)')
               /\ dedup'[k].firstSeen = handled'[i].alert.firstSeen
    <3>1. CASE k = a.key
      <4>1. i = n
        <5>1. \A m \in (i + 1)..n : handled'[m].passed => KeyOf(m)' # a.key
          BY <1>1, <2>2, <3>1 DEF LatestPass
        <5>2. n \notin (i + 1)..n
          BY <1>1, <2>1, <5>1
        <5> QED
          BY <5>2
      <4>2. Burst(i, k)' = {n}
        BY <1>1, <3>1, <4>1 DEF Burst
      <4> QED
        BY <1>2, <2>1, <3>1, <4>1, <4>2, FS_Singleton
    <3>2. CASE k # a.key
      <4>1. i \in 1..Len(handled)
        BY <1>1, <2>2, <3>2 DEF LatestPass
      <4>2. LatestPass(i, k) /\ Burst(i, k)' = Burst(i, k) /\ k \in DOMAIN dedup
        BY <1>3, <2>1, <2>2, <3>2, <4>1
      <4> QED
        BY <1>1, <2>1, <3>2, <4>1, <4>2 DEF DictCounts
    <3> QED
      BY <3>1, <3>2
  <2> QED
    BY <1>1, <2>1, <2>2 DEF DictCounts
<1>5. CASE Suppress(a)
  <2> DEFINE d == dedup[a.key]
  <2>1. ~Opens(a) /\ a.key \in DOMAIN dedup
    BY <1>5 DEF Suppress, Opens
  <2>2. d \in DedupeState
    BY <2>1 DEF TypeOK
  <2>3. /\ Repeated(a).occurrences = d.occurrences + 1
        /\ Repeated(a).firstSeen = d.firstSeen
    BY <2>2 DEF Repeated, DedupeState
  <2>4. /\ Updated(a).occurrences = d.occurrences + 1
        /\ Updated(a).firstSeen = d.firstSeen
    BY <2>1, <2>3 DEF Updated, Alert
  <2>5. /\ DOMAIN dedup' = DOMAIN dedup
        /\ dedup'[a.key] = Repeated(a)
        /\ \A x \in DOMAIN dedup : x # a.key => dedup'[x] = dedup[x]
    <3>1. dedup' = Put(dedup, a.key, Repeated(a))
      BY <1>5 DEF Suppress
    <3> QED
      BY <2>1, <3>1 DEF Put
  <2>6. \A i \in 1..Len(handled) :
            LatestPass(i, a.key) =>
                /\ d.occurrences = Cardinality(Burst(i, a.key))
                /\ d.firstSeen = handled[i].alert.firstSeen
    BY <2>1 DEF DictCounts
  <2>7. ASSUME NEW i \in 1..n, NEW k \in DOMAIN dedup', LatestPass(i, k)'
        PROVE  /\ dedup'[k].occurrences = Cardinality(Burst(i, k)')
               /\ dedup'[k].firstSeen = handled'[i].alert.firstSeen
    <3>1. i \in 1..Len(handled)
      BY <1>1, <2>1, <2>7 DEF LatestPass
    <3>2. LatestPass(i, k) /\ k \in DOMAIN dedup
      BY <1>3, <2>5, <2>7, <3>1
    <3>3. CASE k = a.key
      BY <1>1, <1>3, <2>3, <2>5, <2>6, <3>1, <3>2, <3>3
    <3>4. CASE k # a.key
      <4>1. Burst(i, k)' = Burst(i, k) /\ dedup'[k] = dedup[k]
        BY <1>3, <2>5, <3>1, <3>2, <3>4
      <4>2. /\ dedup[k].occurrences = Cardinality(Burst(i, k))
            /\ dedup[k].firstSeen = handled[i].alert.firstSeen
        BY <3>1, <3>2 DEF DictCounts
      <4> QED
        BY <1>1, <3>1, <4>1, <4>2
    <3> QED
      BY <3>3, <3>4
  <2>8. DictCounts'
    BY <1>1, <2>7 DEF DictCounts
  <2> QED
    BY <2>4, <2>6, <2>8
<1> QED
  BY <1>4, <1>5 DEF Process, Pass

\* A withheld alert tells what the dict had of its burst, and itself.
LEMMA ProcessTellsBurst ==
    ASSUME TypeOK, DictRemembers, DictCounts, WithheldTellsItsBurst,
           NEW a \in Alert, Process(a)
    PROVE  WithheldTellsItsBurst'
<1>0. Len(handled) \in Nat
  BY DEF TypeOK
<1> PICK n \in Nat : n = Len(handled) + 1
  BY <1>0
<1>1. /\ Len(handled) \in Nat /\ Len(handled') = n
      /\ \A i \in 1..Len(handled) : handled'[i] = handled[i] /\ KeyOf(i)' = KeyOf(i)
      /\ handled'[n].passed = Opens(a) /\ KeyOf(n)' = a.key
  BY HistoryGrows DEF KeyOf
<1>2. handled'[n].alert = Updated(a)
  <2>1. handled' = Append(handled, [alert |-> Updated(a), passed |-> Opens(a),
                                    window |-> window])
    BY DEF Process, Pass, Suppress, Remember
  <2> QED
    BY <2>1, ProcessedTypes, AppendProperties DEF TypeOK
<1>3. ASSUME NEW i \in 1..n, NEW j \in 1..Len(handled), OpenedFor(i, j)',
             ~handled'[j].passed
      PROVE  /\ handled'[j].alert.occurrences = Cardinality(Since(i, j)')
             /\ handled'[j].alert.firstSeen = handled'[i].alert.firstSeen
  <2>1. i < j
    BY <1>3 DEF OpenedFor
  <2>2. /\ i \in 1..Len(handled) /\ \A m \in i..j : m \in 1..Len(handled)
        /\ \A m \in (i + 1)..(j - 1) : m \in 1..Len(handled)
    BY <1>1, <2>1
  <2>3. OpenedFor(i, j) /\ Since(i, j)' = Since(i, j)
    BY <1>1, <1>3, <2>2 DEF OpenedFor, Since
  <2> QED
    BY <1>1, <1>3, <2>2, <2>3 DEF WithheldTellsItsBurst
<1>4. ASSUME NEW i \in 1..n, OpenedFor(i, n)', ~handled'[n].passed
      PROVE  /\ handled'[n].alert.occurrences = Cardinality(Since(i, n)')
             /\ handled'[n].alert.firstSeen = handled'[i].alert.firstSeen
  <2>1. i \in 1..Len(handled) /\ ~Opens(a)
    BY <1>1, <1>4 DEF OpenedFor
  <2>2. LatestPass(i, a.key)
    <3>1. (i + 1)..(n - 1) = (i + 1)..Len(handled)
      BY <1>1
    <3>2. \A m \in (i + 1)..Len(handled) : m \in 1..Len(handled)
      BY <1>1, <2>1
    <3> QED
      BY <1>1, <1>4, <2>1, <3>1, <3>2 DEF OpenedFor, LatestPass
  <2>3. Since(i, n)' = Burst(i, a.key) \cup {n}
    <3>1. i..n = (i..Len(handled)) \cup {n} /\ \A m \in i..Len(handled) : m \in 1..Len(handled)
      BY <1>1, <2>1
    <3> QED
      BY <1>1, <3>1 DEF Since, Burst
  <2>4. Cardinality(Burst(i, a.key) \cup {n}) = Cardinality(Burst(i, a.key)) + 1
    <3>1. Burst(i, a.key) \subseteq i..Len(handled) /\ n \notin Burst(i, a.key)
      BY <1>1 DEF Burst
    <3>2. IsFiniteSet(i..Len(handled))
      BY <1>1, FS_Interval
    <3>3. IsFiniteSet(Burst(i, a.key))
      BY <3>1, <3>2, FS_Subset
    <3> QED
      BY <3>1, <3>3, FS_AddElement
  <2> QED
    BY <1>1, <1>2, <2>1, <2>2, <2>3, <2>4, ProcessKeepsBurst
<1>5. \A j \in 1..n : j \in 1..Len(handled) \/ j = n
  BY <1>1
<1> QED
  BY <1>1, <1>3, <1>4, <1>5 DEF WithheldTellsItsBurst

(***************************************************************************)
(* A withheld alert carries the start of its burst and the number of       *)
(* alerts in it, for bursts of any length.                                 *)
(***************************************************************************)
THEOREM BurstsAreTold == Spec => []WithheldTellsItsBurst
<1> DEFINE IInv == DictRemembers /\ DictCounts /\ WithheldTellsItsBurst
<1>1. Init => IInv
  BY NoEntriesType DEF Init, DictRemembers, DictCounts, WithheldTellsItsBurst
<1>2. TypeOK /\ IInv /\ [Next]_vars => IInv'
  <2> SUFFICES ASSUME TypeOK, IInv, [Next]_vars PROVE IInv'
    OBVIOUS
  <2>1. ASSUME NEW k \in Keys, NEW t \in Times, NEW s \in KeySeverities[k],
               Len(handled) + 1 \in Ids,
               Process(NewAlert(Len(handled) + 1, k, s, t))
        PROVE  IInv'
    BY <2>1, NewAlertType, ProcessKeepsDict, ProcessKeepsBurst, ProcessTellsBurst
  <2>2. CASE UNCHANGED <<dedup, handled>>
    <3>0. DictRemembers /\ DictCounts /\ WithheldTellsItsBurst
      OBVIOUS
    <3>1. DictRemembers'
      BY <2>2, <3>0 DEF DictRemembers, LatestPass, KeyOf, Stamp
    <3>2. DictCounts'
      <4>1. \A i, k : Burst(i, k)' = Burst(i, k) /\ LatestPass(i, k)' = LatestPass(i, k)
        BY <2>2 DEF Burst, LatestPass, KeyOf
      <4> QED
        BY <2>2, <3>0, <4>1 DEF DictCounts
    <3>3. WithheldTellsItsBurst'
      <4>1. \A i, j : Since(i, j)' = Since(i, j) /\ OpenedFor(i, j)' = OpenedFor(i, j)
        BY <2>2 DEF Since, OpenedFor, KeyOf
      <4> QED
        BY <2>2, <3>0, <4>1 DEF WithheldTellsItsBurst
    <3> QED
      BY <3>1, <3>2, <3>3
  <2> QED
    BY <2>1, <2>2 DEF Next, SetWindow, vars
<1>3. IInv => WithheldTellsItsBurst
  OBVIOUS
<1> QED
  BY <1>1, <1>2, <1>3, TypeCorrect, PTL DEF Spec
=============================================================================
