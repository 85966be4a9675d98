------------------------- MODULE AlertPipelineProofs ------------------------
(***************************************************************************)
(* AlertPipeline for every set of keys, stamps, windows and severities,    *)
(* with or without the dashboard and mail, whatever fails and for any      *)
(* number of alerts: no alert is skipped or decided twice, and the store   *)
(* is offered them all, and the program uses the deduper and the store as  *)
(* their own specifications say, so what is proved of them is true of it.  *)
(*                                                                         *)
(* The two properties are inductive together with the types of the alerts  *)
(* under way and of the two histories (IInv).  On top of IInv, what the    *)
(* log holds while an alert is with mail (LogInv) gives the promise about  *)
(* mail, and that a key the deduper knows was logged (KeysNoticed) gives   *)
(* the promise of AlertDelivery.  That the log has as many alerts as the   *)
(* deduper passed (ConsoleInv) makes it complete.                          *)
(***************************************************************************)
EXTENDS AlertPipeline, FiniteSetTheorems, SequenceTheorems, TLAPS

IsSequence(q) == \E S : q \in Seq(S)

UnderWay ==
    /\ raised \in Nat
    /\ queue \in Seq(Alert)
    /\ Len(queue) <= raised
    /\ Undecided => cur \in Alert

Histories == IsSequence(handled) /\ IsSequence(attempts)

IInv == UnderWay /\ Histories /\ NoneSkipped /\ StoreSeesEveryAlert

\* Until run() starts the notify thread there is none.
Unborn == main \in {"init", "sniffing"} => stage = "unborn"

-----------------------------------------------------------------------------
\* What a detector creates is an alert.
LEMMA NewAlertType ==
    ASSUME NEW n \in Ids, NEW k \in Keys, NEW s \in KeySeverities[k], NEW t \in Times
    PROVE  /\ NewAlert(n, k, s, t) \in Alert
           /\ NewAlert(n, k, s, t).id = n
           /\ NewAlert(n, k, s, t).key = k
           /\ NewAlert(n, k, s, t).lastSeen = t
BY AlertAssumption DEF NewAlert, Alert

\* Appending to a sequence, whatever its elements: every index keeps its
\* element, the new last index has the new one.
LEMMA AppendAny ==
    ASSUME NEW q, IsSequence(q), NEW e
    PROVE  /\ IsSequence(Append(q, e))
           /\ Len(q) \in Nat
           /\ Len(Append(q, e)) = Len(q) + 1
           /\ \A i \in 1..Len(q) : Append(q, e)[i] = q[i]
           /\ Append(q, e)[Len(q) + 1] = e
<1>1. PICK S : q \in Seq(S)
  BY DEF IsSequence
<1>2. q \in Seq(S \cup {e})
  BY <1>1
<1>3. /\ Append(q, e) \in Seq(S \cup {e})
      /\ Len(q) \in Nat
      /\ Len(Append(q, e)) = Len(q) + 1
      /\ \A i \in 1..Len(q) : Append(q, e)[i] = q[i]
      /\ Append(q, e)[Len(q) + 1] = e
  BY <1>2, AppendProperties, LenProperties
<1> QED
  BY <1>3 DEF IsSequence

LEMMA StartInv ==
    ASSUME Init
    PROVE  IInv /\ Unborn
<1>1. queue = <<>> /\ handled = <<>> /\ attempts = <<>> /\ raised = 0
  BY DEF Init, Deduper!Init, Store!Init
<1>2. stage = "unborn" /\ ~Undecided
  BY DEF Init, Undecided
<1>3. UnderWay
  BY <1>1, <1>2 DEF UnderWay
<1>4. Histories
  BY <1>1 DEF Histories, IsSequence
<1>5. NoneSkipped /\ StoreSeesEveryAlert
  <2>1. Len(queue) = 0 /\ Len(handled) = 0 /\ Len(attempts) = 0 /\ raised = 0
    BY <1>1
  <2>2. Taken = 0
    BY <2>1 DEF Taken
  <2> QED
    BY <1>2, <2>1, <2>2 DEF NoneSkipped, StoreSeesEveryAlert
<1> QED
  BY <1>2, <1>3, <1>4, <1>5 DEF IInv, Unborn

\* A step that moves no alert and decides on none.
LEMMA StepAside ==
    ASSUME IInv, UNCHANGED <<queue, raised, handled, attempts>>,
           stage' = "dedupe" <=> stage = "dedupe",
           Undecided' <=> Undecided,
           Undecided => cur' = cur
    PROVE  IInv'
BY DEF IInv, UnderWay, Histories, NoneSkipped, StoreSeesEveryAlert, Taken

\* A new alert goes to the end of the queue with the next number.
LEMMA RaiseInv ==
    ASSUME IInv, NEW k \in Keys, NEW s \in KeySeverities[k], NEW t \in Times,
           Raise(k, s, t)
    PROVE  IInv'
<1> DEFINE a == NewAlert(raised + 1, k, s, t)
<1>1. /\ raised \in Nat /\ raised' = raised + 1
      /\ queue \in Seq(Alert) /\ queue' = Append(queue, a)
      /\ UNCHANGED <<handled, attempts, stage, cur>>
  BY DEF Raise, IInv, UnderWay, deduperVars, storeVars
<1>2. a \in Alert /\ a.id = raised + 1
  BY NewAlertType DEF Raise
<1> HIDE DEF a
<1>3. /\ queue' \in Seq(Alert) /\ Len(queue) \in Nat
      /\ Len(queue') = Len(queue) + 1
      /\ \A i \in 1..Len(queue) : queue'[i] = queue[i]
      /\ queue'[Len(queue) + 1] = a
  BY <1>1, <1>2, AppendProperties
<1>4. Taken' = Taken /\ Taken \in Nat
  BY <1>1, <1>3 DEF Taken, IInv, UnderWay
<1>5. UnderWay' /\ Histories'
  BY <1>1, <1>3 DEF IInv, UnderWay, Histories, Undecided
<1>6. \A i \in 1..Len(queue') : queue'[i].id = Taken' + i
  <2> SUFFICES ASSUME NEW i \in 1..(Len(queue) + 1)
               PROVE  queue'[i].id = Taken + i
    BY <1>3, <1>4
  <2>1. CASE i \in 1..Len(queue)
    BY <1>3, <2>1 DEF IInv, NoneSkipped
  <2>2. CASE i = Len(queue) + 1
    BY <1>1, <1>2, <1>3, <2>2 DEF Taken
  <2> QED
    BY <1>3, <2>1, <2>2
<1>7. NoneSkipped' /\ StoreSeesEveryAlert'
  BY <1>1, <1>4, <1>6 DEF IInv, NoneSkipped, StoreSeesEveryAlert, Undecided
<1> QED
  BY <1>5, <1>7 DEF IInv

\* The notify thread takes the oldest alert.
LEMMA TakeInv ==
    ASSUME IInv, Take
    PROVE  IInv'
<1>1. /\ raised \in Nat /\ raised' = raised
      /\ queue \in Seq(Alert) /\ queue # <<>>
      /\ queue' = Tail(queue) /\ cur' = Head(queue)
      /\ UNCHANGED <<handled, attempts>>
      /\ stage = "get" /\ stage' \in {"record", "dedupe"}
      /\ "dashboard" \in Channels => stage' = "record"
  BY DEF Take, At, IInv, UnderWay, deduperVars, storeVars
<1>2. /\ Len(queue) \in Nat \ {0}
      /\ queue' \in Seq(Alert) /\ Len(queue') = Len(queue) - 1
      /\ cur' = queue[1] /\ cur' \in Alert
      /\ \A i \in 1..Len(queue') : queue'[i] = queue[i + 1]
  BY <1>1, HeadTailProperties
<1>3. Taken' = Taken + 1 /\ Taken \in Nat
  BY <1>1, <1>2 DEF Taken, IInv, UnderWay
<1>4. UnderWay' /\ Histories'
  BY <1>1, <1>2 DEF IInv, UnderWay, Histories, Undecided
<1>5. \A i \in 1..Len(queue) : queue[i].id = Taken + i
  BY DEF IInv, NoneSkipped
<1>6. cur'.id = Taken'
  BY <1>2, <1>3, <1>5
<1>7. \A i \in 1..Len(queue') : queue'[i].id = Taken' + i
  <2> TAKE i \in 1..Len(queue')
  <2>1. i + 1 \in 1..Len(queue)
    BY <1>2
  <2> QED
    BY <1>2, <1>3, <1>5, <2>1
<1>8. Len(handled) = Taken /\ \A i \in 1..Len(handled) : handled[i].alert.id = i
  BY <1>1 DEF IInv, NoneSkipped, Undecided
<1>9. NoneSkipped'
  BY <1>1, <1>3, <1>6, <1>7, <1>8 DEF NoneSkipped, Undecided
<1>10. StoreSeesEveryAlert'
  BY <1>1 DEF IInv, StoreSeesEveryAlert
<1> QED
  BY <1>4, <1>9, <1>10 DEF IInv

\* However it ends, a call of insert_or_update() is one attempt with the
\* alert in hand.
LEMMA RecordInv ==
    ASSUME IInv, Record
    PROVE  IInv'
<1>1. /\ UNCHANGED <<queue, raised, handled, cur>>
      /\ stage = "record" /\ stage' = "dedupe"
      /\ IsSequence(attempts)
  BY DEF Record, At, IInv, Histories, deduperVars
<1>2. PICK e : attempts' = Append(attempts, e) /\ e.alert = cur
  BY DEF Record, Store!Insert, Store!CommitFails, Store!ExecuteFails, Store!Log
<1>3. /\ IsSequence(attempts') /\ Len(attempts) \in Nat
      /\ Len(attempts') = Len(attempts) + 1
      /\ \A i \in 1..Len(attempts) : attempts'[i] = attempts[i]
      /\ attempts'[Len(attempts) + 1] = e
  BY <1>1, <1>2, AppendAny
<1>4. UnderWay' /\ Histories' /\ NoneSkipped'
  BY <1>1, <1>3 DEF IInv, UnderWay, Histories, NoneSkipped, Undecided, Taken
<1>5. StoreSeesEveryAlert'
  <2> SUFFICES ASSUME "dashboard" \in Channels
               PROVE  /\ Len(attempts') = Taken
                      /\ \A i \in 1..Len(attempts') : attempts'[i].alert.id = i
    BY <1>1 DEF StoreSeesEveryAlert, Taken
  <2>1. /\ Len(attempts) + 1 = Taken
        /\ \A i \in 1..Len(attempts) : attempts[i].alert.id = i
    <3>1. Len(attempts) = Len(handled) /\ Len(handled) = Taken - 1
      BY <1>1 DEF IInv, NoneSkipped, StoreSeesEveryAlert, Undecided
    <3>2. Taken \in Int
      BY <1>1, HeadTailProperties DEF Taken, IInv, UnderWay
    <3> QED
      BY <3>1, <3>2 DEF IInv, StoreSeesEveryAlert
  <2>2. e.alert.id = Len(attempts) + 1
    BY <1>1, <1>2, <2>1 DEF IInv, NoneSkipped, Undecided
  <2> QED
    BY <1>3, <2>1, <2>2
<1> QED
  BY <1>4, <1>5 DEF IInv

\* The deduper keeps an alert's number, and its verdict on it is one entry.
LEMMA DecideInv ==
    ASSUME IInv, Withhold \/ PassOn
    PROVE  IInv'
<1>1. /\ UNCHANGED <<queue, raised, attempts>>
      /\ stage = "dedupe" /\ ~Undecided' /\ stage' # "dedupe"
      /\ IsSequence(handled) /\ cur \in Alert
  BY DEF Withhold, PassOn, At, IInv, UnderWay, Histories, storeVars, Undecided
<1>2. Deduper!Updated(cur).id = cur.id
  BY <1>1 DEF Deduper!Updated, Alert
<1>3. PICK e : handled' = Append(handled, e) /\ e.alert.id = cur.id
  BY <1>2 DEF Withhold, PassOn, Deduper!Suppress, Deduper!Pass, Deduper!Remember
<1>4. /\ IsSequence(handled') /\ Len(handled) \in Nat
      /\ Len(handled') = Len(handled) + 1
      /\ \A i \in 1..Len(handled) : handled'[i] = handled[i]
      /\ handled'[Len(handled) + 1] = e
  BY <1>1, <1>3, AppendAny
<1>5. UnderWay' /\ Histories'
  BY <1>1, <1>4 DEF IInv, UnderWay, Histories
<1>6. /\ Taken' = Taken /\ Taken \in Int
      /\ Len(handled') = Taken
      /\ cur.id = Taken
  <2>1. Taken' = Taken /\ Taken \in Int
    BY <1>1 DEF Taken, IInv, UnderWay
  <2> QED
    BY <1>1, <1>4, <2>1 DEF IInv, NoneSkipped, Undecided
<1>7. \A i \in 1..Len(handled') : handled'[i].alert.id = i
  BY <1>3, <1>4, <1>6 DEF IInv, NoneSkipped
<1>8. NoneSkipped'
  BY <1>1, <1>6, <1>7 DEF IInv, NoneSkipped
<1>9. StoreSeesEveryAlert'
  BY <1>1, <1>6 DEF IInv, StoreSeesEveryAlert
<1> QED
  BY <1>5, <1>8, <1>9 DEF IInv

LEMMA UnbornInv ==
    ASSUME Unborn, [Next]_vars
    PROVE  Unborn'
<1> USE DEF Unborn
<1>1. CASE \E k \in Keys, t \in Times : \E s \in KeySeverities[k] : Raise(k, s, t)
  BY <1>1 DEF Raise, mainVars
<1>2. CASE NotifyThread
  <2>1. UNCHANGED main /\ stage # "unborn"
    BY <1>2 DEF NotifyThread, LoopTop, Take, Timeout, Record, Withhold, PassOn,
                SendConsole, SmtpSkip, SmtpConnect, SmtpSend, At, mainVars
  <2> QED
    BY <2>1
<1>3. CASE \/ \E w \in Windows, m \in MinSeverities : ReloadWindow(w, m)
           \/ ReloadMinSeverity \/ Exited \/ UNCHANGED vars
  BY <1>3 DEF ReloadWindow, ReloadMinSeverity, Exited, vars, mainVars
<1>4. CASE MainThread \/ RequestStop
  BY <1>4 DEF MainThread, RequestStop, StartSniffer, StartNotifyThread,
              StopSniffer, CloseStore, Exit, Abort
<1> QED
  BY <1>1, <1>2, <1>3, <1>4 DEF Next

\* Every other step leaves the alerts where they are.
LEMMA OtherInv ==
    ASSUME IInv, Unborn,
           \/ LoopTop \/ Timeout \/ SendConsole \/ SmtpSkip \/ SmtpConnect
           \/ SmtpSend \/ ReloadMinSeverity \/ MainThread \/ RequestStop
           \/ Exited \/ UNCHANGED vars
           \/ \E w \in Windows, m \in MinSeverities : ReloadWindow(w, m)
    PROVE  IInv'
<1> USE DEF deduperVars, storeVars, notifierVars, mainVars, Undecided
<1>1. CASE LoopTop \/ Timeout \/ SendConsole \/ SmtpSkip \/ SmtpConnect \/ SmtpSend
  BY <1>1, StepAside DEF LoopTop, Timeout, SendConsole, SmtpSkip, SmtpConnect,
                         SmtpSend, At
<1>2. CASE ReloadMinSeverity
  BY <1>2, StepAside DEF ReloadMinSeverity
<1>3. CASE \E w \in Windows, m \in MinSeverities : ReloadWindow(w, m)
  BY <1>3, StepAside DEF ReloadWindow, Deduper!SetWindow
<1>4. CASE StartNotifyThread
  BY <1>4, StepAside DEF StartNotifyThread, Unborn
<1>5. CASE StartSniffer \/ StopSniffer \/ Exit \/ RequestStop
  BY <1>5, StepAside DEF StartSniffer, StopSniffer, Exit, RequestStop
<1>6. CASE CloseStore \/ Abort
  BY <1>6, StepAside DEF CloseStore, Abort, Store!Close
<1>7. CASE Exited \/ UNCHANGED vars
  BY <1>7, StepAside DEF Exited, vars
<1> QED
  BY <1>1, <1>2, <1>3, <1>4, <1>5, <1>6, <1>7 DEF MainThread

LEMMA StepInv ==
    ASSUME IInv, Unborn, [Next]_vars
    PROVE  IInv'
<1>1. CASE \E k \in Keys, t \in Times : \E s \in KeySeverities[k] : Raise(k, s, t)
  BY <1>1, RaiseInv
<1>2. CASE Take
  BY <1>2, TakeInv
<1>3. CASE Record
  BY <1>3, RecordInv
<1>4. CASE Withhold \/ PassOn
  BY <1>4, DecideInv
<1> QED
  BY <1>1, <1>2, <1>3, <1>4, OtherInv DEF Next, NotifyThread

-----------------------------------------------------------------------------
(***************************************************************************)
(* Every alert raised is decided exactly once and in the order raised, for *)
(* any number of alerts and whatever the other threads do: no step of      *)
(* _notify_loop, reload_config or stop() skips one, doubles one or lets    *)
(* one overtake another.                                                   *)
(***************************************************************************)
THEOREM NothingIsSkipped == Spec => []NoneSkipped
<1>1. IInv => NoneSkipped
  BY DEF IInv
<1> QED
  BY StartInv, StepInv, UnbornInv, <1>1, PTL DEF Spec

(***************************************************************************)
(* With a dashboard, insert_or_update() is called with every alert before  *)
(* the deduper decides on it, however earlier calls ended.                 *)
(***************************************************************************)
THEOREM StoreIsOfferedAll == Spec => []StoreSeesEveryAlert
<1>1. IInv => StoreSeesEveryAlert
  BY DEF IInv
<1> QED
  BY StartInv, StepInv, UnbornInv, <1>1, PTL DEF Spec

-----------------------------------------------------------------------------
(* The deduper inside the pipeline is the deduper of AlertDeduper: what it *)
(* is handed are alerts as detectors make them, numbered as they come.     *)

Fresh(a) ==
    \E k \in Keys, t \in Times : \E s \in KeySeverities[k] :
        a = NewAlert(a.id, k, s, t)

Genuine ==
    /\ \A i \in 1..Len(queue) : Fresh(queue[i])
    /\ Undecided => Fresh(cur)

LEMMA GenuineInv ==
    ASSUME UnderWay, Genuine, Unborn, [Next]_vars
    PROVE  Genuine'
<1>1. CASE \E k \in Keys, t \in Times : \E s \in KeySeverities[k] : Raise(k, s, t)
  <2>1. PICK k \in Keys, t \in Times : \E s \in KeySeverities[k] : Raise(k, s, t)
    BY <1>1
  <2>2. PICK s \in KeySeverities[k] : Raise(k, s, t)
    BY <2>1
  <2> DEFINE a == NewAlert(raised + 1, k, s, t)
  <2>3. a \in Alert /\ a.id = raised + 1
    BY <2>2, NewAlertType DEF Raise
  <2>4. Fresh(a)
    BY <2>3 DEF Fresh
  <2>5. UNCHANGED <<stage, cur>> /\ queue' = Append(queue, a) /\ queue \in Seq(Alert)
    BY <2>2 DEF Raise, UnderWay
  <2> HIDE DEF a
  <2>6. /\ Len(queue) \in Nat /\ Len(queue') = Len(queue) + 1
        /\ \A i \in 1..Len(queue) : queue'[i] = queue[i]
        /\ queue'[Len(queue) + 1] = a
    BY <2>3, <2>5, AppendProperties
  <2>7. ASSUME NEW i \in 1..Len(queue')
        PROVE  Fresh(queue'[i])
    <3>1. i \in 1..Len(queue) \/ i = Len(queue) + 1
      BY <2>6
    <3> QED
      BY <2>4, <2>6, <3>1 DEF Genuine
  <2> QED
    BY <2>5, <2>7 DEF Genuine, Undecided
<1>2. CASE Take
  <2>1. /\ queue \in Seq(Alert) /\ queue # <<>>
        /\ queue' = Tail(queue) /\ cur' = Head(queue)
    BY <1>2 DEF Take, UnderWay
  <2>2. /\ Len(queue) \in Nat \ {0} /\ Len(queue') = Len(queue) - 1
        /\ cur' = queue[1]
        /\ \A i \in 1..Len(queue') : queue'[i] = queue[i + 1]
    BY <2>1, HeadTailProperties
  <2>3. Fresh(cur')
    BY <2>2 DEF Genuine
  <2>4. ASSUME NEW i \in 1..Len(queue')
        PROVE  Fresh(queue'[i])
    <3>1. i + 1 \in 1..Len(queue)
      BY <2>2
    <3> QED
      BY <2>2, <3>1 DEF Genuine
  <2> QED
    BY <2>3, <2>4 DEF Genuine
<1>3. CASE queue' = queue /\ (Undecided' => Undecided /\ cur' = cur)
  BY <1>3 DEF Genuine
<1>4. CASE NotifyThread /\ ~Take
  <2>1. queue' = queue /\ (Undecided' => Undecided /\ cur' = cur)
    BY <1>4 DEF NotifyThread, LoopTop, Timeout, Record, Withhold, PassOn,
                SendConsole, SmtpSkip, SmtpConnect, SmtpSend, At, Undecided
  <2> QED
    BY <1>3, <2>1
<1>5. CASE \/ \E w \in Windows, m \in MinSeverities : ReloadWindow(w, m)
           \/ ReloadMinSeverity \/ Exited \/ UNCHANGED vars
           \/ MainThread \/ RequestStop
  <2>1. queue' = queue /\ (Undecided' => Undecided /\ cur' = cur)
    BY <1>5 DEF ReloadWindow, ReloadMinSeverity, Exited, MainThread, RequestStop,
                StartSniffer, StartNotifyThread, StopSniffer, CloseStore, Exit,
                Abort, vars, Undecided
  <2> QED
    BY <1>3, <2>1
<1> QED
  BY <1>1, <1>2, <1>4, <1>5 DEF Next

LEMMA DeduperStep ==
    ASSUME IInv, Genuine, [Next]_vars
    PROVE  [Deduper!Next]_deduperVars
<1>1. CASE Withhold \/ PassOn
  <2>1. stage = "dedupe" /\ Undecided
    BY <1>1 DEF Withhold, PassOn, At, Undecided
  <2>2. PICK k \in Keys, t \in Times : \E s \in KeySeverities[k] : cur = NewAlert(cur.id, k, s, t)
    BY <2>1 DEF Genuine, Fresh
  <2>3. PICK s \in KeySeverities[k] : cur = NewAlert(cur.id, k, s, t)
    BY <2>2
  <2>4. cur.id \in Ids
    BY <2>1 DEF IInv, UnderWay, Alert
  <2>5. cur.id = Len(handled) + 1
    <3>1. Taken \in Int
      <4>1. Len(queue) \in Nat /\ raised \in Nat
        BY DEF IInv, UnderWay
      <4> QED
        BY <4>1 DEF Taken
    <3> QED
      BY <2>1, <3>1 DEF IInv, NoneSkipped
  <2>6. Deduper!Process(Deduper!NewAlert(Len(handled) + 1, k, s, t))
    <3>1. cur = Deduper!NewAlert(Len(handled) + 1, k, s, t)
      BY <2>3, <2>5 DEF NewAlert, Deduper!NewAlert
    <3> QED
      BY <1>1, <3>1 DEF Withhold, PassOn, Deduper!Process
  <2>7. Len(handled) + 1 \in Ids
    BY <2>4, <2>5
  <2> QED
    BY <2>2, <2>3, <2>6, <2>7 DEF Deduper!Next
<1>2. CASE \E w \in Windows, m \in MinSeverities : ReloadWindow(w, m)
  BY <1>2 DEF ReloadWindow, Deduper!Next
<1>3. CASE NotifyThread /\ ~(Withhold \/ PassOn)
  BY <1>3 DEF NotifyThread, LoopTop, Take, Timeout, Record, SendConsole, SmtpSkip,
              SmtpConnect, SmtpSend
<1>4. CASE \/ \E k \in Keys, t \in Times : \E s \in KeySeverities[k] : Raise(k, s, t)
           \/ ReloadMinSeverity \/ Exited \/ UNCHANGED vars
           \/ MainThread \/ RequestStop
  BY <1>4 DEF Raise, ReloadMinSeverity, Exited, MainThread, RequestStop,
              StartSniffer, StartNotifyThread, StopSniffer, CloseStore, Exit,
              Abort, vars
<1> QED
  BY <1>1, <1>2, <1>3, <1>4 DEF Next

(***************************************************************************)
(* The pipeline implements AlertDeduper: _process_alert and reload_config  *)
(* use the deduper only as its own specification allows, so the rate limit *)
(* proved there, OneNoticePerWindow, is one of the running program.        *)
(***************************************************************************)
THEOREM DeduperIsKept == Spec => DeduperSpec
<1>1. Init => Deduper!Init /\ Genuine
  <2> SUFFICES ASSUME Init PROVE Deduper!Init /\ Genuine
    OBVIOUS
  <2>1. queue = <<>> /\ ~Undecided
    BY DEF Init, Undecided
  <2>2. Len(queue) = 0
    BY <2>1
  <2> QED
    BY <2>1, <2>2 DEF Init, Genuine
<1>2. IInv => UnderWay
  BY DEF IInv
<1>3. IInv /\ Genuine /\ [Next]_vars => [Deduper!Next]_(Deduper!vars)
  BY DeduperStep DEF Deduper!vars, deduperVars
<1> QED
  BY <1>1, <1>2, <1>3, StartInv, StepInv, UnbornInv, GenuineInv, PTL
     DEF Spec, DeduperSpec, Deduper!Spec

-----------------------------------------------------------------------------
(* So is the store: it is handed the same alerts, numbered as they come.   *)

\* Without a dashboard no alert is on its way to the store.
Recording == stage = "record" => "dashboard" \in Channels

LEMMA RecordingInv ==
    ASSUME Recording, [Next]_vars
    PROVE  Recording'
BY DEF Recording, Next, NotifyThread, LoopTop, Take, Timeout, Record, Withhold,
       PassOn, SendConsole, SmtpSkip, SmtpConnect, SmtpSend, Raise, ReloadWindow,
       ReloadMinSeverity, Exited, MainThread, RequestStop, StartSniffer,
       StartNotifyThread, StopSniffer, CloseStore, Exit, Abort, vars

LEMMA StoreStep ==
    ASSUME IInv, Genuine, Recording, [Next]_vars
    PROVE  [Store!Next]_storeVars
<1>1. CASE Record
  <2>1. stage = "record" /\ Undecided /\ "dashboard" \in Channels
    BY <1>1 DEF Record, At, Undecided, Recording
  <2>2. PICK k \in Keys, t \in Times : \E s \in KeySeverities[k] : cur = NewAlert(cur.id, k, s, t)
    BY <2>1 DEF Genuine, Fresh
  <2>3. PICK s \in KeySeverities[k] : cur = NewAlert(cur.id, k, s, t)
    BY <2>2
  <2>4. cur.id \in Ids
    BY <2>1 DEF IInv, UnderWay, Alert
  <2>5. cur.id = Len(attempts) + 1
    <3>1. Taken \in Int
      <4>1. Len(queue) \in Nat /\ raised \in Nat
        BY DEF IInv, UnderWay
      <4> QED
        BY <4>1 DEF Taken
    <3> QED
      BY <2>1, <3>1 DEF IInv, NoneSkipped, StoreSeesEveryAlert
  <2> DEFINE a == Store!NewAlert(Len(attempts) + 1, k, s, t)
  <2>6. cur = a
    BY <2>3, <2>5 DEF NewAlert, Store!NewAlert
  <2>7. Store!Insert(a) \/ Store!CommitFails(a) \/ Store!ExecuteFails(a)
    BY <1>1, <2>6 DEF Record
  <2>8. Len(attempts) + 1 \in Ids
    BY <2>4, <2>5
  <2> QED
    BY <2>2, <2>3, <2>7, <2>8 DEF Store!Next
<1>2. CASE CloseStore \/ Abort
  BY <1>2 DEF CloseStore, Abort, Store!Next, storeVars
<1>3. CASE NotifyThread /\ ~Record
  BY <1>3 DEF NotifyThread, LoopTop, Take, Timeout, Withhold, PassOn, SendConsole,
              SmtpSkip, SmtpConnect, SmtpSend
<1>4. CASE \/ \E k \in Keys, t \in Times : \E s \in KeySeverities[k] : Raise(k, s, t)
           \/ \E w \in Windows, m \in MinSeverities : ReloadWindow(w, m)
           \/ ReloadMinSeverity \/ Exited \/ UNCHANGED vars \/ RequestStop
           \/ MainThread /\ ~CloseStore /\ ~Abort
  BY <1>4 DEF Raise, ReloadWindow, ReloadMinSeverity, Exited, RequestStop,
              MainThread, StartSniffer, StartNotifyThread, StopSniffer, Exit, vars
<1> QED
  BY <1>1, <1>2, <1>3, <1>4 DEF Next

(***************************************************************************)
(* The pipeline implements AlertStore: whatever _process_alert and stop()  *)
(* do to the store is what AlertStore allows, so the counts and the spans  *)
(* proved there are those of the running program.                          *)
(***************************************************************************)
THEOREM StoreIsKept == Spec => StoreSpec
<1>1. Init => Store!Init /\ Genuine /\ Recording
  <2> SUFFICES ASSUME Init PROVE Store!Init /\ Genuine /\ Recording
    OBVIOUS
  <2>1. queue = <<>> /\ ~Undecided /\ Recording
    BY DEF Init, Undecided, Recording
  <2>2. Len(queue) = 0
    BY <2>1
  <2> QED
    BY <2>1, <2>2 DEF Init, Genuine
<1>2. IInv => UnderWay
  BY DEF IInv
<1>3. IInv /\ Genuine /\ Recording /\ [Next]_vars => [Store!Next]_(Store!vars)
  BY StoreStep DEF Store!vars, storeVars
<1> QED
  BY <1>1, <1>2, <1>3, StartInv, StepInv, UnbornInv, GenuineInv, RecordingInv, PTL
     DEF Spec, StoreSpec, Store!Spec

-----------------------------------------------------------------------------
(* Mail.  The alert mail is at work on is the one logged last, and the     *)
(* log is in the order of the alerts' numbers.                             *)

AtMail == stage \in {"smtp", "send"}

LogInv ==
    /\ console \in Seq(Alert) /\ mailed \in Seq(Alert)
    /\ smtpMin \in MinSeverities
    /\ reloading \in MinSeverities \cup {NoReload}
    /\ stage = "console" => cur \in Alert /\ cur.id = Len(handled)
    /\ stage \in {"smtp", "send"} =>
        /\ "smtp" \in Channels
        /\ console # <<>> /\ console[Len(console)] = cur
    /\ stage = "send" => \E m \in MinSeverities : SeverityAtLeast(cur.severity, m)
    /\ \A i, j \in 1..Len(console) : i < j => console[i].id < console[j].id
    /\ \A i \in 1..Len(console) :
        console[i].id <= IF stage = "console" THEN Len(handled) - 1 ELSE Len(handled)

LEMMA AlertNumber ==
    ASSUME NEW a \in Alert
    PROVE  a.id \in Int
<1>1. Ids \subseteq Int
  BY AlertAssumption
<1> QED
  BY <1>1 DEF Alert

\* How many logged alerts mail is through with.
Through == IF AtMail THEN Len(console) - 1 ELSE Len(console)

\* MailFollowsTheLog, with Settled as the beginning of the log that it is.
MailInv ==
    /\ \A i, j \in 1..Len(mailed) : i < j => mailed[i].id < mailed[j].id
    /\ \A i \in 1..Len(mailed) :
        /\ \E j \in 1..Through : console[j] = mailed[i]
        /\ \E m \in MinSeverities : SeverityAtLeast(mailed[i].severity, m)
    /\ "smtp" \in Channels \ Faults =>
        \A j \in 1..Through :
            (\A m \in MinSeverities : SeverityAtLeast(console[j].severity, m)) =>
                \E i \in 1..Len(mailed) : mailed[i] = console[j]

LEMMA ThroughIsSettled ==
    ASSUME LogInv
    PROVE  /\ Through \in Nat /\ Len(Settled) = Through
           /\ \A j \in 1..Through : Settled[j] = console[j]
<1>1. console \in Seq(Alert)
  BY DEF LogInv
<1>2. CASE AtMail
  <2>1. Len(console) \in Nat \ {0} /\ Settled = SubSeq(console, 1, Len(console) - 1)
    BY <1>1, <1>2 DEF LogInv, AtMail, Settled
  <2>2. /\ Len(Settled) = Len(console) - 1
        /\ \A j \in 1..(Len(console) - 1) : Settled[j] = console[j]
    <3> DEFINE n == Len(console) - 1
    <3>1. n \in Nat /\ Settled = SubSeq(console, 1, n)
      BY <2>1
    <3> HIDE DEF n
    <3>2. Settled = [j \in 1..n |-> console[j]]
      BY <1>1, <3>1
    <3>3. Settled \in Seq(Alert) /\ Len(Settled) = n
      BY <1>1, <2>1, <3>1, <3>2
    <3> QED
      BY <3>2, <3>3 DEF n
  <2>3. Through = Len(console) - 1 /\ Through \in Nat
    BY <1>2, <2>1 DEF Through
  <2> QED
    BY <2>2, <2>3
<1>3. CASE ~AtMail
  BY <1>1, <1>3 DEF AtMail, Through, Settled
<1> QED
  BY <1>2, <1>3

LEMMA MailInvSuffices ==
    ASSUME LogInv, MailInv
    PROVE  MailFollowsTheLog
BY ThroughIsSettled DEF MailInv, MailFollowsTheLog

\* A step that leaves the log, mail and what is under way to them alone.
LEMMA MailStepsAside ==
    ASSUME LogInv, MailInv, UNCHANGED <<console, mailed, handled>>,
           smtpMin' \in MinSeverities, reloading' \in MinSeverities \cup {NoReload},
           \/ UNCHANGED <<stage, cur>>
           \/ ~AtMail /\ stage # "console" /\ ~AtMail' /\ stage' # "console"
    PROVE  LogInv' /\ MailInv'
<1>1. LogInv'
  BY DEF LogInv, AtMail
<1>2. Through' = Through
  BY DEF Through, AtMail
<1> QED
  BY <1>1, <1>2 DEF MailInv

\* The deduper passes an alert on to the console, with the latest number.
LEMMA PassOnLog ==
    ASSUME IInv, LogInv, MailInv, PassOn
    PROVE  LogInv' /\ MailInv'
<1>1. /\ stage = "dedupe" /\ stage' = "console" /\ Undecided
      /\ UNCHANGED <<console, mailed, smtpMin, reloading>>
      /\ cur' = Deduper!Updated(cur) /\ cur \in Alert /\ IsSequence(handled)
  BY DEF PassOn, At, notifierVars, IInv, UnderWay, Histories, Undecided
<1>2. cur' \in Alert /\ cur'.id = cur.id
  <2>1. Deduper!Opens(cur)
    BY DEF PassOn, Deduper!Pass
  <2> QED
    BY <1>1, <2>1 DEF Deduper!Updated, Alert
<1>3. Len(handled') = Len(handled) + 1 /\ Len(handled) \in Nat
  <2>1. PICK e : handled' = Append(handled, e)
    BY DEF PassOn, Deduper!Pass, Deduper!Remember
  <2> QED
    BY <1>1, <2>1, AppendAny
<1>4. cur.id = Len(handled')
  <2>1. Taken \in Int
    BY DEF Taken, IInv, UnderWay
  <2> QED
    BY <1>1, <1>3, <2>1 DEF IInv, NoneSkipped
<1>5. LogInv'
  <2>1. \A i \in 1..Len(console) : console[i].id <= Len(handled') - 1
    BY <1>1, <1>3 DEF LogInv
  <2> QED
    BY <1>1, <1>2, <1>4, <2>1 DEF LogInv
<1>6. Through' = Through
  BY <1>1 DEF Through, AtMail
<1> QED
  BY <1>1, <1>5, <1>6 DEF MailInv

\* The console logs the alert in hand, and mail is next if there is mail.
LEMMA ConsoleLog ==
    ASSUME IInv, LogInv, MailInv, SendConsole
    PROVE  LogInv' /\ MailInv'
<1>1. /\ stage = "console" /\ cur \in Alert /\ cur.id = Len(handled)
      /\ console \in Seq(Alert) /\ console' = Append(console, cur)
      /\ UNCHANGED <<handled, mailed, smtpMin, reloading>>
      /\ Len(handled) \in Nat
  <2>1. Len(handled) \in Nat
    BY AppendAny DEF IInv, Histories
  <2> QED
    BY <2>1 DEF SendConsole, At, LogInv, deduperVars
<1>2. /\ Len(console) \in Nat /\ Len(console') = Len(console) + 1
      /\ console' \in Seq(Alert)
      /\ \A i \in 1..Len(console) : console'[i] = console[i]
      /\ console'[Len(console')] = cur
  BY <1>1, AppendProperties
<1>3. \A i \in 1..Len(console') : i \in 1..Len(console) \/ i = Len(console')
  BY <1>2
<1>4. \A i \in 1..Len(console) : console[i] \in Alert /\ console[i].id \in Int
  BY <1>1, AlertNumber
<1>5. \A i, j \in 1..Len(console') : i < j => console'[i].id < console'[j].id
  <2> SUFFICES ASSUME NEW i \in 1..Len(console'), NEW j \in 1..Len(console'), i < j
               PROVE  console'[i].id < console'[j].id
    OBVIOUS
  <2>1. i \in 1..Len(console)
    BY <1>2
  <2>2. console[i].id <= Len(handled) - 1
    BY <1>1, <2>1 DEF LogInv
  <2>3. CASE j = Len(console')
    BY <1>1, <1>2, <1>4, <2>1, <2>2, <2>3
  <2>4. CASE j \in 1..Len(console)
    BY <1>2, <2>1, <2>4 DEF LogInv
  <2> QED
    BY <1>3, <2>3, <2>4
<1>6. \A i \in 1..Len(console') : console'[i].id <= Len(handled)
  <2> TAKE i \in 1..Len(console')
  <2>1. CASE i \in 1..Len(console)
    <3>1. console[i].id <= Len(handled) - 1
      BY <1>1, <2>1 DEF LogInv
    <3> QED
      BY <1>1, <1>2, <1>4, <2>1, <3>1
  <2>2. CASE i = Len(console')
    BY <1>1, <1>2, <2>2
  <2> QED
    BY <1>3, <2>1, <2>2
<1>7. CASE "smtp" \in Channels
  <2>1. stage' = "smtp" /\ cur' = cur
    BY <1>7 DEF SendConsole
  <2>2. LogInv'
    BY <1>1, <1>2, <1>5, <1>6, <1>7, <2>1 DEF LogInv
  <2>3. Through' = Through /\ Through = Len(console)
    BY <1>1, <1>2, <2>1 DEF Through, AtMail
  <2> QED
    BY <1>1, <1>2, <2>2, <2>3 DEF MailInv
<1>8. CASE "smtp" \notin Channels
  <2>1. stage' = "loop"
    BY <1>8 DEF SendConsole
  <2>2. LogInv'
    BY <1>1, <1>2, <1>5, <1>6, <2>1 DEF LogInv
  <2>3. Through' = Len(console) + 1 /\ Through = Len(console)
    BY <1>1, <1>2, <2>1 DEF Through, AtMail
  <2>4. \A j \in 1..Len(console) : j \in 1..Len(console')
    BY <1>2
  <2> QED
    BY <1>1, <1>2, <1>8, <2>2, <2>3, <2>4 DEF MailInv
<1> QED
  BY <1>7, <1>8

\* Mail is done with an alert it did not have to take.
LEMMA MailGivesUp ==
    ASSUME IInv, LogInv, MailInv, AtMail, stage' = "loop",
           UNCHANGED <<handled, console, mailed, smtpMin, reloading>>,
           "smtp" \in Channels \ Faults =>
                \E m \in MinSeverities : ~SeverityAtLeast(cur.severity, m)
    PROVE  LogInv' /\ MailInv'
<1>1. /\ console \in Seq(Alert) /\ console[Len(console)] = cur
      /\ Len(console) \in Nat \ {0}
  BY DEF LogInv, AtMail
<1>2. LogInv'
  BY DEF LogInv, AtMail
<1>3. Through' = Len(console) /\ Through = Len(console) - 1
  BY DEF Through, AtMail
<1>4. \A j \in 1..Len(console) : j \in 1..Through \/ j = Len(console)
  BY <1>1, <1>3
<1>5. \A j \in 1..Through : j \in 1..Len(console)
  BY <1>1, <1>3
<1> QED
  BY <1>1, <1>2, <1>3, <1>4, <1>5 DEF MailInv

\* The mail server takes the alert in hand.
LEMMA MailTakes ==
    ASSUME IInv, LogInv, MailInv, stage = "send", stage' = "loop",
           UNCHANGED <<handled, console, smtpMin, reloading>>,
           mailed' = Append(mailed, cur)
    PROVE  LogInv' /\ MailInv'
<1>1. /\ console \in Seq(Alert) /\ console[Len(console)] = cur
      /\ Len(console) \in Nat \ {0} /\ mailed \in Seq(Alert) /\ cur \in Alert
  BY DEF LogInv
<1>2. /\ Len(mailed) \in Nat /\ Len(mailed') = Len(mailed) + 1
      /\ mailed' \in Seq(Alert)
      /\ \A i \in 1..Len(mailed) : mailed'[i] = mailed[i]
      /\ mailed'[Len(mailed')] = cur
  BY <1>1, AppendProperties
<1>3. LogInv'
  BY <1>2 DEF LogInv
<1>4. Through' = Len(console) /\ Through = Len(console) - 1
  BY DEF Through, AtMail
<1>5. \A j \in 1..Len(console) : j \in 1..Through \/ j = Len(console)
  BY <1>1, <1>4
<1>6. \A j \in 1..Through : j \in 1..Len(console)
  BY <1>1, <1>4
<1>7. \A i \in 1..Len(mailed') : i \in 1..Len(mailed) \/ i = Len(mailed')
  BY <1>2
<1>8. \A i \in 1..Len(mailed) : mailed[i].id < cur.id
  <2> TAKE i \in 1..Len(mailed)
  <2>1. PICK j \in 1..Through : console[j] = mailed[i]
    BY DEF MailInv
  <2>2. j \in 1..Len(console) /\ Len(console) \in 1..Len(console) /\ j < Len(console)
    BY <1>1, <1>4
  <2> QED
    BY <1>1, <2>1, <2>2 DEF LogInv
<1>9. \A i, j \in 1..Len(mailed') : i < j => mailed'[i].id < mailed'[j].id
  <2> SUFFICES ASSUME NEW i \in 1..Len(mailed'), NEW j \in 1..Len(mailed'), i < j
               PROVE  mailed'[i].id < mailed'[j].id
    OBVIOUS
  <2>1. i \in 1..Len(mailed)
    BY <1>2
  <2> QED
    BY <1>2, <1>7, <1>8, <2>1 DEF MailInv
<1>10. \A i \in 1..Len(mailed') :
        /\ \E j \in 1..Len(console) : console[j] = mailed'[i]
        /\ \E m \in MinSeverities : SeverityAtLeast(mailed'[i].severity, m)
  <2> TAKE i \in 1..Len(mailed')
  <2>1. CASE i \in 1..Len(mailed)
    BY <1>2, <1>6, <2>1 DEF MailInv
  <2>2. CASE i = Len(mailed')
    BY <1>1, <1>2, <2>2 DEF LogInv
  <2> QED
    BY <1>7, <2>1, <2>2
<1>11. "smtp" \in Channels \ Faults =>
        \A j \in 1..Len(console) :
            (\A m \in MinSeverities : SeverityAtLeast(console[j].severity, m)) =>
                \E i \in 1..Len(mailed') : mailed'[i] = console[j]
  <2> SUFFICES ASSUME "smtp" \in Channels \ Faults, NEW j \in 1..Len(console),
                      \A m \in MinSeverities : SeverityAtLeast(console[j].severity, m)
               PROVE  \E i \in 1..Len(mailed') : mailed'[i] = console[j]
    OBVIOUS
  <2>1. CASE j \in 1..Through
    <3>1. PICK i \in 1..Len(mailed) : mailed[i] = console[j]
      BY <2>1 DEF MailInv
    <3>2. i \in 1..Len(mailed')
      BY <1>2
    <3> QED
      BY <1>2, <3>1, <3>2
  <2>2. CASE j = Len(console)
    <3>1. Len(mailed') \in 1..Len(mailed')
      BY <1>2
    <3> QED
      BY <1>1, <1>2, <2>2, <3>1
  <2> QED
    BY <1>5, <2>1, <2>2
<1> QED
  BY <1>3, <1>4, <1>9, <1>10, <1>11 DEF MailInv

LEMMA MailStep ==
    ASSUME IInv, Unborn, LogInv, MailInv, [Next]_vars
    PROVE  LogInv' /\ MailInv'
<1> USE DEF deduperVars, storeVars, notifierVars, mainVars, At
<1>1. CASE PassOn
  BY <1>1, PassOnLog
<1>2. CASE SendConsole
  BY <1>2, ConsoleLog
<1>3. CASE SmtpSkip
  <2>1. AtMail /\ \E m \in MinSeverities : ~SeverityAtLeast(cur.severity, m)
    BY <1>3 DEF SmtpSkip, AtMail, LogInv
  <2> QED
    BY <1>3, <2>1, MailGivesUp DEF SmtpSkip
<1>4. CASE SmtpSend
  <2>1. CASE mailed' = Append(mailed, cur)
    BY <1>4, <2>1, MailTakes DEF SmtpSend
  <2>2. CASE "smtp" \in Faults /\ mailed' = mailed
    BY <1>4, <2>2, MailGivesUp DEF SmtpSend, AtMail
  <2> QED
    BY <1>4, <2>1, <2>2 DEF SmtpSend
<1>5. CASE SmtpConnect
  <2>1. LogInv'
    BY <1>5 DEF SmtpConnect, LogInv
  <2>2. Through' = Through
    BY <1>5 DEF SmtpConnect, Through, AtMail
  <2> QED
    BY <1>5, <2>1, <2>2 DEF SmtpConnect, MailInv
<1>6. CASE Withhold
  <2>1. /\ stage = "dedupe" /\ stage' = "loop"
        /\ UNCHANGED <<console, mailed, smtpMin, reloading>>
    BY <1>6 DEF Withhold
  <2>2. Len(handled') = Len(handled) + 1 /\ Len(handled) \in Nat
    <3>1. PICK e : handled' = Append(handled, e)
      BY <1>6 DEF Withhold, Deduper!Suppress, Deduper!Remember
    <3> QED
      BY <3>1, AppendAny DEF IInv, Histories
  <2>3. \A i \in 1..Len(console) : console[i].id \in Int
    BY AlertNumber DEF LogInv
  <2>4. LogInv'
    BY <2>1, <2>2, <2>3 DEF LogInv
  <2>5. Through' = Through
    BY <2>1 DEF Through, AtMail
  <2> QED
    BY <2>1, <2>4, <2>5 DEF MailInv
<1>7. CASE LoopTop \/ Take \/ Timeout \/ Record
  BY <1>7, MailStepsAside DEF LoopTop, Take, Timeout, Record, AtMail, LogInv
<1>8. CASE \E w \in Windows, m \in MinSeverities : ReloadWindow(w, m)
  BY <1>8, MailStepsAside DEF ReloadWindow, Deduper!SetWindow, LogInv
<1>9. CASE ReloadMinSeverity
  BY <1>9, MailStepsAside DEF ReloadMinSeverity, LogInv
<1>10. CASE \/ \E k \in Keys, t \in Times : \E s \in KeySeverities[k] : Raise(k, s, t)
            \/ Exited \/ UNCHANGED vars \/ RequestStop
            \/ MainThread /\ ~StartNotifyThread
  BY <1>10, MailStepsAside DEF Raise, Exited, RequestStop, MainThread, StartSniffer,
            StopSniffer, CloseStore, Exit, Abort, LogInv, vars
<1>11. CASE StartNotifyThread
  BY <1>11, MailStepsAside DEF StartNotifyThread, Unborn, AtMail, LogInv
<1> QED
  BY <1>1, <1>2, <1>3, <1>4, <1>5, <1>6, <1>7, <1>8, <1>9, <1>10, <1>11
     DEF Next, NotifyThread

(***************************************************************************)
(* Mail follows the log in order and by min_severity, whatever the mail    *)
(* server does and however often min_severity is replaced between the gate *)
(* of SmtpNotifier.send() and the sending.                                 *)
(***************************************************************************)
THEOREM MailIsOrderly == Spec => []MailFollowsTheLog
<1>1. Init => LogInv /\ MailInv
  <2> SUFFICES ASSUME Init PROVE LogInv /\ MailInv
    OBVIOUS
  <2>1. /\ console = <<>> /\ mailed = <<>> /\ stage = "unborn"
        /\ smtpMin \in MinSeverities /\ reloading = NoReload
    BY DEF Init
  <2>2. Len(console) = 0 /\ Len(mailed) = 0 /\ Through = 0
    BY <2>1 DEF Through, AtMail
  <2> QED
    BY <2>1, <2>2 DEF LogInv, MailInv
<1> QED
  BY <1>1, StartInv, StepInv, UnbornInv, MailStep, MailInvSuffices, PTL DEF Spec

-----------------------------------------------------------------------------
(* The log.  Of the verdicts counted up to any alert let through, the      *)
(* count is that alert's place in the log.                                 *)

PassedIn(h, n) == {i \in 1..n : h[i].passed}

ConsoleInv ==
    /\ ConsoleMissesNothing
    /\ stage = "console" =>
        /\ handled # <<>>
        /\ handled[Len(handled)].passed
        /\ handled[Len(handled)].alert = cur

LEMMA PassedFinite ==
    ASSUME NEW h, NEW n \in Nat
    PROVE  IsFiniteSet(PassedIn(h, n)) /\ Cardinality(PassedIn(h, n)) \in Nat
<1>1. IsFiniteSet(1..n)
  BY FS_Interval
<1>2. PassedIn(h, n) \subseteq 1..n
  BY DEF PassedIn
<1>3. IsFiniteSet(PassedIn(h, n))
  BY <1>1, <1>2, FS_Subset
<1> QED
  BY <1>3, FS_CardinalityType

\* An alert let through is counted after all those before it.
LEMMA PassedNext ==
    ASSUME NEW h, NEW n \in Nat
    PROVE  Cardinality(PassedIn(h, n + 1)) =
            IF h[n + 1].passed THEN Cardinality(PassedIn(h, n)) + 1
                               ELSE Cardinality(PassedIn(h, n))
<1>1. n + 1 \notin PassedIn(h, n)
  BY DEF PassedIn
<1>2. PassedIn(h, n + 1) = IF h[n + 1].passed THEN PassedIn(h, n) \cup {n + 1}
                                              ELSE PassedIn(h, n)
  BY DEF PassedIn
<1> QED
  BY <1>1, <1>2, PassedFinite, FS_AddElement

LEMMA PassedGrows ==
    ASSUME NEW h, NEW n \in Nat, NEW i \in 0..n
    PROVE  Cardinality(PassedIn(h, i)) <= Cardinality(PassedIn(h, n))
<1>1. PassedIn(h, i) \subseteq PassedIn(h, n)
  BY DEF PassedIn
<1> QED
  BY <1>1, PassedFinite, FS_Subset

\* ConsoleMissesNothing of any history and log, with one alert let through
\* that is not logged yet, or none.
Logged(h, c, waiting) ==
    /\ Cardinality(PassedIn(h, Len(h))) = Len(c) + waiting
    /\ \A i \in PassedIn(h, Len(h)) :
        Cardinality(PassedIn(h, i)) <= Len(c) =>
            c[Cardinality(PassedIn(h, i))] = h[i].alert

LEMMA LoggedIs ==
    ASSUME Len(console) \in Nat
    PROVE  ConsoleMissesNothing <=>
                Logged(handled, console, IF stage = "console" THEN 1 ELSE 0)
BY DEF ConsoleMissesNothing, Logged, PassedOn, PassedIn

\* A verdict: one more alert let through waits to be logged, one withheld
\* does not.
LEMMA LoggedVerdict ==
    ASSUME NEW h, IsSequence(h), NEW c, Len(c) \in Nat, NEW e, Logged(h, c, 0)
    PROVE  Logged(Append(h, e), c, IF e.passed THEN 1 ELSE 0)
<1> DEFINE g == Append(h, e)
           n == Len(h)
<1>1. /\ n \in Nat /\ Len(g) = n + 1 /\ g[n + 1] = e
      /\ \A i \in 1..n : g[i] = h[i]
  BY AppendAny
<1> HIDE DEF g
<1>2. \A i \in 0..n : PassedIn(g, i) = PassedIn(h, i)
  BY <1>1 DEF PassedIn
<1>3. Cardinality(PassedIn(g, n)) = Len(c)
  BY <1>1, <1>2 DEF Logged
<1>4. Cardinality(PassedIn(g, n + 1)) = Len(c) + IF e.passed THEN 1 ELSE 0
  <2>1. Cardinality(PassedIn(g, n + 1)) =
            IF e.passed THEN Cardinality(PassedIn(g, n)) + 1
                        ELSE Cardinality(PassedIn(g, n))
    BY <1>1, PassedNext
  <2>2. CASE e.passed
    BY <1>3, <2>1, <2>2
  <2>3. CASE ~e.passed
    BY <1>3, <2>1, <2>3
  <2> QED
    BY <2>2, <2>3
<1>5. ASSUME NEW i \in PassedIn(g, n + 1), Cardinality(PassedIn(g, i)) <= Len(c)
      PROVE  c[Cardinality(PassedIn(g, i))] = g[i].alert
  <2>1. i \in 1..(n + 1) /\ g[i].passed
    BY DEF PassedIn
  <2>2. i # n + 1
    BY <1>1, <1>4, <1>5, <2>1
  <2>3. i \in 1..n
    BY <1>1, <2>1, <2>2
  <2>4. i \in PassedIn(h, n) /\ PassedIn(g, i) = PassedIn(h, i) /\ g[i] = h[i]
    BY <1>1, <1>2, <2>1, <2>3 DEF PassedIn
  <2> QED
    BY <1>5, <2>4 DEF Logged
<1>6. Logged(g, c, IF e.passed THEN 1 ELSE 0)
  BY <1>1, <1>4, <1>5 DEF Logged
<1> QED
  BY <1>6 DEF g

\* The alert that waited is logged: it is the last let through, and every
\* other has its place before it.
LEMMA LoggedEntry ==
    ASSUME NEW h, IsSequence(h), h # <<>>, NEW c \in Seq(Alert), NEW a \in Alert,
           h[Len(h)].passed, h[Len(h)].alert = a, Logged(h, c, 1)
    PROVE  Logged(h, Append(c, a), 0)
<1> DEFINE d == Append(c, a)
           n == Len(h)
<1>1. /\ Len(c) \in Nat /\ Len(d) = Len(c) + 1 /\ d[Len(c) + 1] = a
      /\ \A i \in 1..Len(c) : d[i] = c[i]
  BY AppendProperties
<1> HIDE DEF d
<1>2. n \in Nat /\ n # 0
  BY DEF IsSequence
<1>3. Cardinality(PassedIn(h, n)) = Len(c) + 1
  BY DEF Logged
<1>4. Cardinality(PassedIn(h, n - 1)) = Len(c)
  <2>1. n - 1 \in Nat /\ (n - 1) + 1 = n
    BY <1>2
  <2>2. Cardinality(PassedIn(h, n)) = Cardinality(PassedIn(h, n - 1)) + 1
    BY <2>1, PassedNext
  <2> QED
    BY <1>1, <1>3, <2>1, <2>2, PassedFinite
<1>5. ASSUME NEW i \in PassedIn(h, n)
      PROVE  d[Cardinality(PassedIn(h, i))] = h[i].alert
  <2>1. i \in 1..n /\ h[i].passed
    BY DEF PassedIn
  <2>2. CASE i = n
    BY <1>1, <1>3, <2>2
  <2>3. CASE i # n
    <3>1. i \in 0..(n - 1) /\ n - 1 \in Nat /\ i \in Nat
      BY <1>2, <2>1, <2>3
    <3>2. Cardinality(PassedIn(h, i)) <= Len(c)
      BY <1>4, <3>1, PassedGrows
    <3>3. Cardinality(PassedIn(h, i)) \in 1..Len(c)
      <4>1. i \in PassedIn(h, i)
        BY <2>1 DEF PassedIn
      <4>2. /\ IsFiniteSet(PassedIn(h, i)) /\ Cardinality(PassedIn(h, i)) \in Nat
            /\ Cardinality(PassedIn(h, i)) # 0
        BY <3>1, <4>1, PassedFinite, FS_EmptySet
      <4> QED
        BY <1>1, <3>2, <4>2
    <3>4. c[Cardinality(PassedIn(h, i))] = h[i].alert
      BY <3>2 DEF Logged
    <3> QED
      BY <1>1, <3>3, <3>4
  <2> QED
    BY <2>2, <2>3
<1>6. Logged(h, d, 0)
  BY <1>1, <1>3, <1>5 DEF Logged
<1> QED
  BY <1>6 DEF d

LEMMA ConsoleStep ==
    ASSUME IInv, LogInv, Unborn, ConsoleInv, [Next]_vars
    PROVE  ConsoleInv'
<1> USE DEF deduperVars, storeVars, notifierVars, mainVars, At
<1>1. /\ IsSequence(handled) /\ console \in Seq(Alert) /\ Len(console) \in Nat
      /\ Logged(handled, console, IF stage = "console" THEN 1 ELSE 0)
  <2>1. IsSequence(handled) /\ console \in Seq(Alert) /\ Len(console) \in Nat
    BY DEF IInv, Histories, LogInv
  <2> QED
    BY <2>1, LoggedIs DEF ConsoleInv
<1>0. ASSUME Len(console') \in Nat,
             Logged(handled', console', IF stage' = "console" THEN 1 ELSE 0)
      PROVE  ConsoleMissesNothing'
  <2>1. \A n : PassedOn(n)' = PassedIn(handled', n)
    BY DEF PassedOn, PassedIn
  <2>2. \A n : Cardinality(PassedOn(n))' = Cardinality(PassedIn(handled', n))
    BY <2>1
  <2>3. Cardinality(PassedOn(Len(handled)))' = Cardinality(PassedIn(handled', Len(handled')))
    BY <2>1
  <2>4. PassedOn(Len(handled))' = PassedIn(handled', Len(handled'))
    BY DEF PassedOn, PassedIn
  <2>5. CASE stage' = "console"
    BY <1>0, <2>2, <2>3, <2>4, <2>5 DEF ConsoleMissesNothing, Logged
  <2>6. CASE stage' # "console"
    BY <1>0, <2>2, <2>3, <2>4, <2>6 DEF ConsoleMissesNothing, Logged
  <2> QED
    BY <2>5, <2>6
<1>2. CASE Withhold \/ PassOn
  <2> DEFINE e == [ alert |-> Deduper!Updated(cur), passed |-> Deduper!Opens(cur),
                    window |-> window ]
  <2>1. /\ stage = "dedupe" /\ console' = console /\ handled' = Append(handled, e)
        /\ stage' = "console" <=> e.passed
        /\ stage' = "console" => cur' = e.alert
    BY <1>2 DEF Withhold, PassOn, Deduper!Suppress, Deduper!Pass, Deduper!Remember
  <2> HIDE DEF e
  <2>2. Logged(handled', console', IF stage' = "console" THEN 1 ELSE 0)
    <3>1. Logged(Append(handled, e), console, IF e.passed THEN 1 ELSE 0)
      BY <1>1, <2>1, LoggedVerdict
    <3> QED
      BY <2>1, <3>1
  <2>3. /\ handled' # <<>> /\ handled'[Len(handled')] = e
    <3>1. /\ Len(handled) \in Nat /\ Len(handled') = Len(handled) + 1
          /\ handled'[Len(handled) + 1] = e
      BY <1>1, <2>1, AppendAny
    <3> QED
      BY <3>1
  <2>4. ConsoleMissesNothing'
    BY <1>0, <1>1, <2>1, <2>2
  <2> QED
    BY <2>1, <2>3, <2>4 DEF ConsoleInv
<1>3. CASE SendConsole
  <2>1. /\ stage = "console" /\ stage' # "console" /\ handled' = handled
        /\ console' = Append(console, cur) /\ cur \in Alert
        /\ handled # <<>> /\ handled[Len(handled)].passed
        /\ handled[Len(handled)].alert = cur
    BY <1>3 DEF SendConsole, LogInv, ConsoleInv
  <2>2. Logged(handled', console', 0)
    BY <1>1, <2>1, LoggedEntry
  <2>3. Len(console') \in Nat
    BY <1>1, <2>1, AppendProperties
  <2>4. ConsoleMissesNothing'
    BY <1>0, <2>1, <2>2, <2>3
  <2> QED
    BY <2>1, <2>4 DEF ConsoleInv
<1>4. ASSUME UNCHANGED <<handled, console>>,
             stage' = "console" <=> stage = "console",
             stage = "console" => cur' = cur
      PROVE  ConsoleInv'
  BY <1>4 DEF ConsoleInv, ConsoleMissesNothing, PassedOn
<1>5. CASE LoopTop \/ Take \/ Timeout \/ Record \/ SmtpSkip \/ SmtpConnect \/ SmtpSend
  BY <1>4, <1>5 DEF LoopTop, Take, Timeout, Record, SmtpSkip, SmtpConnect, SmtpSend
<1>6. CASE \/ \E k \in Keys, t \in Times : \E s \in KeySeverities[k] : Raise(k, s, t)
           \/ \E w \in Windows, m \in MinSeverities : ReloadWindow(w, m)
           \/ ReloadMinSeverity \/ Exited \/ UNCHANGED vars
  BY <1>4, <1>6 DEF Raise, ReloadWindow, Deduper!SetWindow, ReloadMinSeverity, Exited, vars
<1>7. CASE MainThread \/ RequestStop
  BY <1>4, <1>7 DEF MainThread, RequestStop, StartSniffer, StartNotifyThread,
                    StopSniffer, CloseStore, Exit, Abort, Unborn
<1> QED
  BY <1>2, <1>3, <1>5, <1>6, <1>7 DEF Next, NotifyThread

(***************************************************************************)
(* The k-th alert the deduper lets through is the k-th the console logs,   *)
(* for any number of alerts, whatever mail, the database, a reload or a    *)
(* stop are doing: none is lost to the log, doubled or out of place.       *)
(***************************************************************************)
THEOREM ConsoleIsComplete == Spec => []ConsoleMissesNothing
<1> DEFINE J == IInv /\ LogInv /\ MailInv /\ Unborn /\ ConsoleInv
<1>1. Init => J
  <2> SUFFICES ASSUME Init PROVE J
    OBVIOUS
  <2>1. /\ handled = <<>> /\ console = <<>> /\ mailed = <<>> /\ stage = "unborn"
        /\ smtpMin \in MinSeverities /\ reloading = NoReload
    BY DEF Init, Deduper!Init
  <2>2. Len(handled) = 0 /\ Len(console) = 0 /\ Len(mailed) = 0 /\ Through = 0
    BY <2>1 DEF Through, AtMail
  <2>3. LogInv /\ MailInv
    BY <2>1, <2>2 DEF LogInv, MailInv
  <2>4. ConsoleInv
    <3>1. PassedOn(Len(handled)) = {}
      BY <2>2 DEF PassedOn
    <3> QED
      BY <2>1, <2>2, <3>1, FS_EmptySet DEF ConsoleInv, ConsoleMissesNothing
  <2> QED
    BY <2>3, <2>4, StartInv
<1>2. J /\ [Next]_vars => J'
  BY StepInv, UnbornInv, MailStep, ConsoleStep
<1>3. J => ConsoleMissesNothing
  BY DEF ConsoleInv
<1> HIDE DEF J
<1> QED
  BY <1>1, <1>2, <1>3, PTL DEF Spec

-----------------------------------------------------------------------------
(* Delivery.  What AlertDelivery sees of a step.                           *)

Note == [id : Ids, key : Keys]

Backlog == Held \o Essences(queue)

LEMMA EssencesOf ==
    ASSUME NEW q \in Seq(Alert)
    PROVE  /\ Essences(q) \in Seq(Note)
           /\ Len(Essences(q)) = Len(q) /\ Len(q) \in Nat
           /\ \A i \in 1..Len(q) : Essences(q)[i] = Essence(q[i])
<1>1. \A a \in Alert : Essence(a) \in Note
  BY DEF Essence, Note, Alert
<1>2. \A i \in 1..Len(q) : q[i] \in Alert
  OBVIOUS
<1>3. Len(q) \in Nat /\ Essences(q) \in [1..Len(q) -> Note]
  BY <1>1, <1>2 DEF Essences
<1>4. Essences(q) \in Seq(Note) /\ Len(Essences(q)) = Len(q)
  BY <1>3
<1> QED
  BY <1>3, <1>4 DEF Essences

LEMMA EssencesAppend ==
    ASSUME NEW q \in Seq(Alert), NEW a \in Alert
    PROVE  Essences(Append(q, a)) = Append(Essences(q), Essence(a))
<1>1. /\ Append(q, a) \in Seq(Alert)
      /\ Len(Append(q, a)) = Len(q) + 1 /\ Len(q) \in Nat
      /\ \A i \in 1..Len(q) : Append(q, a)[i] = q[i]
      /\ Append(q, a)[Len(q) + 1] = a
  BY AppendProperties
<1>2. Essence(a) \in Note
  BY DEF Essence, Note, Alert
<1> DEFINE l == Essences(Append(q, a))
           r == Append(Essences(q), Essence(a))
<1>3. /\ l \in Seq(Note) /\ Len(l) = Len(q) + 1
      /\ \A i \in 1..(Len(q) + 1) : l[i] = Essence(Append(q, a)[i])
  BY <1>1, EssencesOf
<1>4. /\ r \in Seq(Note) /\ Len(r) = Len(q) + 1
      /\ \A i \in 1..Len(q) : r[i] = Essence(q[i])
      /\ r[Len(q) + 1] = Essence(a)
  <2>1. /\ Essences(q) \in Seq(Note) /\ Len(Essences(q)) = Len(q)
        /\ \A i \in 1..Len(q) : Essences(q)[i] = Essence(q[i])
    BY EssencesOf
  <2> QED
    BY <1>2, <2>1, AppendProperties
<1> HIDE DEF l, r
<1>5. \A i \in 1..(Len(q) + 1) : i \in 1..Len(q) \/ i = Len(q) + 1
  BY <1>1
<1>6. \A i \in 1..Len(l) : l[i] = r[i]
  BY <1>1, <1>3, <1>4, <1>5
<1>7. l = r
  BY <1>3, <1>4, <1>6, SeqEqual
<1> QED
  BY <1>7 DEF l, r

LEMMA EssencesTail ==
    ASSUME NEW q \in Seq(Alert), q # <<>>
    PROVE  <<Essence(Head(q))>> \o Essences(Tail(q)) = Essences(q)
<1>1. /\ Len(q) \in Nat \ {0} /\ Head(q) = q[1] /\ Head(q) \in Alert
      /\ Tail(q) \in Seq(Alert) /\ Len(Tail(q)) = Len(q) - 1
      /\ \A i \in 1..Len(Tail(q)) : Tail(q)[i] = q[i + 1]
  BY HeadTailProperties
<1> DEFINE t == Essences(Tail(q))
           e == Essence(Head(q))
           l == <<e>> \o t
           r == Essences(q)
<1>2. e \in Note
  BY <1>1 DEF Essence, Note, Alert
<1>3. /\ t \in Seq(Note) /\ Len(t) = Len(q) - 1
      /\ \A i \in 1..(Len(q) - 1) : t[i] = Essence(q[i + 1])
  BY <1>1, EssencesOf
<1>4. /\ r \in Seq(Note) /\ Len(r) = Len(q)
      /\ \A i \in 1..Len(q) : r[i] = Essence(q[i])
  BY EssencesOf
<1> HIDE DEF t, r, l
<1>5. /\ l \in Seq(Note) /\ Len(l) = Len(q) /\ l[1] = e
      /\ \A i \in 2..Len(q) : l[i] = t[i - 1]
  <2> HIDE DEF e
  <2>1. <<e>> \in Seq(Note) /\ Len(<<e>>) = 1 /\ <<e>>[1] = e
    BY <1>2
  <2>2. /\ l \in Seq(Note) /\ Len(l) = 1 + Len(t)
        /\ \A i \in 1..(1 + Len(t)) :
              l[i] = IF i <= 1 THEN <<e>>[i] ELSE t[i - 1]
    BY <1>3, <2>1, ConcatProperties DEF l
  <2> QED
    BY <1>1, <1>3, <2>1, <2>2
<1>6. \A i \in 1..Len(q) : l[i] = r[i]
  <2> TAKE i \in 1..Len(q)
  <2>1. CASE i = 1
    BY <1>1, <1>4, <1>5, <2>1
  <2>2. CASE i # 1
    <3>1. i \in 2..Len(q) /\ i - 1 \in 1..(Len(q) - 1) /\ (i - 1) + 1 = i
      BY <1>1, <2>2
    <3> QED
      BY <1>3, <1>4, <1>5, <3>1
  <2> QED
    BY <2>1, <2>2
<1>7. l = r
  BY <1>4, <1>5, <1>6, SeqEqual
<1> QED
  BY <1>7 DEF l, r, t

\* What the deduper knows a source by was logged, or is about to be.
KeysNoticed ==
    \A k \in DOMAIN dedup :
        \/ \E i \in 1..Len(console) : console[i].key = k
        \/ stage = "console" /\ cur.key = k

\* The event is set from the request to stop on.
StopInv ==
    /\ main \in MainStages /\ stage \in Stages
    /\ stopEvent = IF main \in {"stopping", "quiet", "closed", "exited"}
                   THEN TRUE ELSE FALSE

LEMMA StopInvStep ==
    ASSUME StopInv, [Next]_vars
    PROVE  StopInv'
<1> USE DEF StopInv, Stages, MainStages, mainVars
<1>1. CASE NotifyThread
  BY <1>1 DEF NotifyThread, LoopTop, Take, Timeout, Record, Withhold, PassOn,
              SendConsole, SmtpSkip, SmtpConnect, SmtpSend
<1>2. CASE MainThread \/ RequestStop
  <2>1. CASE StartSniffer
    BY <2>1 DEF StartSniffer
  <2>2. CASE StartNotifyThread
    BY <2>2 DEF StartNotifyThread
  <2>3. CASE RequestStop
    BY <2>3 DEF RequestStop
  <2>4. CASE StopSniffer \/ Exit
    BY <2>4 DEF StopSniffer, Exit
  <2>5. CASE CloseStore
    BY <2>5 DEF CloseStore
  <2>6. CASE Abort
    BY <2>6 DEF Abort
  <2> QED
    BY <1>2, <2>1, <2>2, <2>3, <2>4, <2>5, <2>6 DEF MainThread
<1>3. CASE \/ \E k \in Keys, t \in Times : \E s \in KeySeverities[k] : Raise(k, s, t)
           \/ \E w \in Windows, m \in MinSeverities : ReloadWindow(w, m)
           \/ ReloadMinSeverity \/ Exited \/ UNCHANGED vars
  BY <1>3 DEF Raise, ReloadWindow, ReloadMinSeverity, Exited, vars
<1> QED
  BY <1>1, <1>2, <1>3 DEF Next

LEMMA KeysNoticedStep ==
    ASSUME IInv, LogInv, KeysNoticed, Unborn, [Next]_vars
    PROVE  KeysNoticed'
<1> USE DEF KeysNoticed, deduperVars, notifierVars, At
<1>1. CASE PassOn
  <2>1. Deduper!Updated(cur).key = cur.key
    BY <1>1 DEF PassOn, Deduper!Pass, Deduper!Updated, IInv, UnderWay, Undecided, Alert
  <2>2. dedup' = Deduper!Put(dedup, cur.key, Deduper!Opened(cur))
    BY <1>1 DEF PassOn, Deduper!Pass
  <2>3. DOMAIN dedup' = DOMAIN dedup \cup {cur.key}
    BY <2>2 DEF Deduper!Put
  <2> QED
    BY <1>1, <2>1, <2>3 DEF PassOn
<1>2. CASE Withhold
  <2>1. /\ dedup' = Deduper!Put(dedup, cur.key, Deduper!Repeated(cur))
        /\ cur.key \in DOMAIN dedup
    BY <1>2 DEF Withhold, Deduper!Suppress, Deduper!Opens
  <2>2. DOMAIN dedup' = DOMAIN dedup
    BY <2>1 DEF Deduper!Put
  <2> QED
    BY <1>2, <2>2 DEF Withhold
<1>3. CASE SendConsole
  <2>1. console' = Append(console, cur) /\ cur \in Alert /\ console \in Seq(Alert)
    BY <1>3 DEF SendConsole, LogInv
  <2>2. /\ Len(console) \in Nat /\ Len(console') = Len(console) + 1
        /\ \A i \in 1..Len(console) : console'[i] = console[i]
        /\ console'[Len(console) + 1] = cur
    BY <2>1, AppendProperties
  <2>3. \A i \in 1..Len(console) : i \in 1..Len(console')
    BY <2>2
  <2>4. Len(console) + 1 \in 1..Len(console')
    BY <2>2
  <2> QED
    BY <1>3, <2>2, <2>3, <2>4 DEF SendConsole
<1>4. CASE LoopTop \/ Take \/ Timeout \/ Record \/ SmtpSkip \/ SmtpConnect \/ SmtpSend
  BY <1>4 DEF LoopTop, Take, Timeout, Record, SmtpSkip, SmtpConnect, SmtpSend
<1>5. CASE MainThread
  BY <1>5 DEF MainThread, StartSniffer, StartNotifyThread, StopSniffer,
              CloseStore, Exit, Abort, Unborn
<1>6. CASE \/ \E k \in Keys, t \in Times : \E s \in KeySeverities[k] : Raise(k, s, t)
           \/ \E w \in Windows, m \in MinSeverities : ReloadWindow(w, m)
           \/ ReloadMinSeverity \/ Exited \/ UNCHANGED vars \/ RequestStop
  BY <1>6 DEF Raise, ReloadWindow, Deduper!SetWindow, ReloadMinSeverity, Exited,
              RequestStop, vars
<1> QED
  BY <1>1, <1>2, <1>3, <1>4, <1>5, <1>6 DEF Next, NotifyThread

LEMMA BacklogType ==
    ASSUME IInv, LogInv
    PROVE  /\ Held \in Seq(Note) /\ Essences(queue) \in Seq(Note)
           /\ Held # <<>> => cur \in Alert
<1>1. Held # <<>> => cur \in Alert
  BY DEF Held, IInv, UnderWay, Undecided, LogInv
<1>2. \A a \in Alert : Essence(a) \in Note
  BY DEF Essence, Note, Alert
<1>3. Held \in Seq(Note)
  <2>1. CASE stage \in {"record", "dedupe", "console"}
    <3>1. Held = <<Essence(cur)>> /\ cur \in Alert
      BY <2>1 DEF Held, IInv, UnderWay, Undecided, LogInv
    <3> QED
      BY <1>2, <3>1
  <2>2. CASE stage \notin {"record", "dedupe", "console"}
    BY <2>2 DEF Held
  <2> QED
    BY <2>1, <2>2
<1> QED
  BY <1>1, <1>3, EssencesOf DEF IInv, UnderWay

\* Numbers grow: whatever is waiting or logged was raised before.
LEMMA NumbersSoFar ==
    ASSUME IInv, LogInv
    PROVE  /\ raised \in Nat
           /\ \A i \in 1..Len(Backlog) : Backlog[i].id <= raised
           /\ \A i \in 1..Len(Essences(console)) : Essences(console)[i].id <= raised
<1>1. /\ raised \in Nat /\ queue \in Seq(Alert) /\ Len(queue) \in Nat
      /\ Len(queue) <= raised /\ Len(handled) \in Nat
  BY AppendAny DEF IInv, UnderWay, Histories
<1>2. /\ Taken \in Nat /\ Taken + Len(queue) = raised
      /\ Len(handled) <= Taken
  BY <1>1 DEF Taken, IInv, NoneSkipped
<1>3. \A i \in 1..Len(Held) : Held[i].id <= raised
  <2>1. CASE Undecided
    <3>1. Held = <<Essence(cur)>> /\ cur.id = Taken
      BY <2>1 DEF Held, Undecided, IInv, NoneSkipped
    <3>2. Len(Held) = 1 /\ Held[1] = Essence(cur) /\ Essence(cur).id = Taken
      BY <3>1 DEF Essence
    <3> QED
      BY <1>1, <1>2, <3>2
  <2>2. CASE stage = "console"
    <3>1. Held = <<Essence(cur)>> /\ cur.id = Len(handled)
      BY <2>2 DEF Held, LogInv
    <3>2. Len(Held) = 1 /\ Held[1] = Essence(cur) /\ Essence(cur).id = Len(handled)
      BY <3>1 DEF Essence
    <3> QED
      BY <1>1, <1>2, <3>2
  <2>3. CASE ~Undecided /\ stage # "console"
    <3>1. Len(Held) = 0
      BY <2>3 DEF Held, Undecided
    <3> QED
      BY <3>1
  <2> QED
    BY <2>1, <2>2, <2>3
<1>4. \A i \in 1..Len(Essences(queue)) : Essences(queue)[i].id <= raised
  <2>1. \A i \in 1..Len(queue) : queue[i].id = Taken + i
    BY DEF IInv, NoneSkipped
  <2>2. \A i \in 1..Len(queue) : Essence(queue[i]).id <= raised
    BY <1>1, <1>2, <2>1 DEF Essence
  <2> QED
    BY <1>1, <2>2, EssencesOf
<1>5. \A i \in 1..Len(Backlog) : Backlog[i].id <= raised
  <2>1. Held \in Seq(Note) /\ Essences(queue) \in Seq(Note)
    BY BacklogType
  <2>2. /\ Len(Backlog) = Len(Held) + Len(Essences(queue))
        /\ \A i \in 1..Len(Held) + Len(Essences(queue)) :
              Backlog[i] = IF i <= Len(Held) THEN Held[i]
                           ELSE Essences(queue)[i - Len(Held)]
    BY <2>1, ConcatProperties DEF Backlog
  <2>3. Len(Held) \in Nat /\ Len(Essences(queue)) \in Nat
    BY <2>1
  <2>4. \A i \in 1..(Len(Held) + Len(Essences(queue))) :
            i <= Len(Held) => i \in 1..Len(Held)
    BY <2>3
  <2>5. \A i \in 1..(Len(Held) + Len(Essences(queue))) :
            ~(i <= Len(Held)) => i - Len(Held) \in 1..Len(Essences(queue))
    BY <2>3
  <2> QED
    BY <1>3, <1>4, <2>2, <2>4, <2>5
<1>6. \A i \in 1..Len(Essences(console)) : Essences(console)[i].id <= raised
  <2>1. /\ Len(Essences(console)) = Len(console)
        /\ \A i \in 1..Len(console) : Essences(console)[i] = Essence(console[i])
    BY EssencesOf DEF LogInv
  <2>2. \A i \in 1..Len(console) : console[i] \in Alert /\ console[i].id \in Int
    BY AlertNumber DEF LogInv
  <2>3. \A i \in 1..Len(console) : console[i].id <= Len(handled)
    <3> TAKE i \in 1..Len(console)
    <3>1. console[i].id <= IF stage = "console" THEN Len(handled) - 1 ELSE Len(handled)
      BY DEF LogInv
    <3> QED
      BY <1>1, <2>2, <3>1
  <2>4. \A i \in 1..Len(console) : console[i].id <= raised
    BY <1>1, <1>2, <2>2, <2>3
  <2>5. \A a : Essence(a).id = a.id
    BY DEF Essence
  <2> QED
    BY <2>1, <2>4, <2>5
<1> QED
  BY <1>1, <1>5, <1>6

\* An alert raised is the last of the backlog.
LEMMA BacklogGrows ==
    ASSUME IInv, LogInv, NEW k \in Keys, NEW s \in KeySeverities[k], NEW t \in Times,
           Raise(k, s, t)
    PROVE  Backlog' = Append(Backlog, [id |-> raised + 1, key |-> k])
<1> DEFINE a == NewAlert(raised + 1, k, s, t)
<1>1. a \in Alert /\ Essence(a) = [id |-> raised + 1, key |-> k]
  BY NewAlertType DEF Raise, Essence
<1>2. queue' = Append(queue, a) /\ queue \in Seq(Alert) /\ Held' = Held
  BY DEF Raise, IInv, UnderWay, Held, Essence
<1> HIDE DEF a
<1>3. Essences(queue)' = Append(Essences(queue), Essence(a))
  <2>1. Essences(queue)' = Essences(queue')
    BY DEF Essences, Essence
  <2> QED
    BY <1>1, <1>2, <2>1, EssencesAppend
<1> DEFINE h == Held
           q == Essences(queue)
           e == Essence(a)
<1>4. h \in Seq(Note) /\ q \in Seq(Note) /\ e \in Note
  BY <1>1, BacklogType DEF Essence, Note, Alert
<1>5. Backlog' = h \o Append(q, e) /\ Backlog = h \o q
  BY <1>2, <1>3 DEF Backlog
<1> HIDE DEF h, q, e
<1>6. /\ Append(q, e) = q \o <<e>> /\ <<e>> \in Seq(Note)
      /\ h \o q \in Seq(Note)
      /\ Append(h \o q, e) = (h \o q) \o <<e>>
  <2>1. h \o q \in Seq(Note)
    BY <1>4, ConcatProperties
  <2> QED
    BY <1>4, <2>1, AppendIsConcat
<1>7. h \o Append(q, e) = Append(h \o q, e)
  BY <1>4, <1>6, ConcatAssociative
<1> QED
  BY <1>1, <1>5, <1>7 DEF e

\* An alert taken off the queue is in hand.
LEMMA BacklogStays ==
    ASSUME IInv, LogInv, Take
    PROVE  Backlog' = Backlog
<1>1. /\ queue \in Seq(Alert) /\ queue # <<>> /\ Held = <<>>
      /\ Held' = <<Essence(Head(queue))>> /\ queue' = Tail(queue)
  BY DEF Take, At, IInv, UnderWay, Held, Essence
<1>2. Essences(queue)' = Essences(Tail(queue))
  BY <1>1 DEF Essences, Essence
<1>3. Backlog' = Essences(queue)
  BY <1>1, <1>2, EssencesTail DEF Backlog
<1>4. Backlog = Essences(queue)
  BY <1>1, BacklogType, ConcatEmptySeq DEF Backlog
<1> QED
  BY <1>3, <1>4

\* An alert done with was the first of the backlog.
LEMMA BacklogShrinks ==
    ASSUME IInv, LogInv, Held = <<Essence(cur)>>, Held' = <<>>, UNCHANGED queue
    PROVE  /\ Backlog # <<>> /\ Head(Backlog) = Essence(cur)
           /\ Backlog' = Tail(Backlog)
<1> DEFINE q == Essences(queue)
           e == Essence(cur)
<1>1. q \in Seq(Note) /\ q' = q
  BY BacklogType DEF Essences, Essence
<1>2. e \in Note
  <2>1. Held # <<>>
    OBVIOUS
  <2> QED
    BY <2>1, BacklogType DEF Essence, Note, Alert
<1>3. Backlog = <<e>> \o q /\ Backlog' = <<>> \o q
  BY <1>1 DEF Backlog
<1> HIDE DEF q, e
<1>4. /\ Len(q) \in Nat /\ <<e>> \in Seq(Note) /\ Len(<<e>>) = 1 /\ <<e>>[1] = e
  BY <1>1, <1>2
<1>5. /\ <<e>> \o q \in Seq(Note) /\ Len(<<e>> \o q) = 1 + Len(q)
      /\ \A i \in 1..(1 + Len(q)) :
            (<<e>> \o q)[i] = IF i <= 1 THEN <<e>>[i] ELSE q[i - 1]
  BY <1>1, <1>4, ConcatProperties
<1> DEFINE b == <<e>> \o q
<1>6. b \in Seq(Note) /\ Len(b) = 1 + Len(q) /\ b[1] = e
      /\ \A i \in 1..Len(q) : b[i + 1] = q[i]
  BY <1>4, <1>5
<1> HIDE DEF b
<1>7. b # <<>> /\ Head(b) = e
  BY <1>4, <1>6
<1>8. Tail(b) = q
  <2>1. /\ Tail(b) \in Seq(Note) /\ Len(Tail(b)) = Len(q)
        /\ \A i \in 1..Len(q) : Tail(b)[i] = b[i + 1]
    BY <1>4, <1>6, <1>7, HeadTailProperties
  <2> QED
    BY <1>1, <1>6, <2>1, SeqEqual
<1>9. <<>> \o q = q
  BY <1>1, ConcatEmptySeq
<1> QED
  BY <1>3, <1>7, <1>8, <1>9 DEF b, e

\* What AlertDelivery says of a step, in the pipeline's own words.
Handled ==
    /\ Phase # "halted"
    /\ Backlog # <<>>
    /\ Backlog' = Tail(Backlog)
    /\ Phase' = IF Phase = "halting" THEN "halted" ELSE Phase
    /\ \/ Essences(console)' = Append(Essences(console), Head(Backlog))
       \/ /\ Essences(console)' = Essences(console)
          /\ \E i \in 1..Len(Essences(console)) :
                Essences(console)[i].key = Head(Backlog).key

LEMMA HandledIsDelivery ==
    ASSUME Handled
    PROVE  Delivery!Next
BY DEF Handled, Backlog, Delivery!Next, Delivery!Handle, Delivery!NoticeHead,
       Delivery!WithholdHead, Delivery!Last

\* A step that may only move the phase on.
LEMMA PhaseStep ==
    ASSUME UNCHANGED <<Backlog, Essences(console)>>,
           \/ UNCHANGED Phase
           \/ Phase = "up" /\ Phase' \in {"halting", "halted"}
           \/ Phase = "halting" /\ Phase' = "halted"
    PROVE  [Delivery!Next]_(Delivery!vars)
BY DEF Backlog, Delivery!Next, Delivery!vars, Delivery!Halt, Delivery!GiveUp

LEMMA DeliveryStep ==
    ASSUME IInv, LogInv, KeysNoticed, StopInv, Unborn, [Next]_vars
    PROVE  [Delivery!Next]_(Delivery!vars)
<1> USE DEF deduperVars, notifierVars, mainVars, At
<1>1. ASSUME NEW k \in Keys, NEW t \in Times, NEW s \in KeySeverities[k],
             Raise(k, s, t)
      PROVE  [Delivery!Next]_(Delivery!vars)
  <2>1. Backlog' = Append(Backlog, [id |-> raised + 1, key |-> k])
    BY <1>1, BacklogGrows
  <2>2. UNCHANGED <<Essences(console), Phase>> /\ raised + 1 \in Ids
    BY <1>1 DEF Raise, Essences, Essence, Phase
  <2>3. /\ \A i \in 1..Len(Backlog) : Backlog[i].id < raised + 1
        /\ \A i \in 1..Len(Essences(console)) : Essences(console)[i].id < raised + 1
    <3>1. Ids \subseteq Int
      BY AlertAssumption
    <3>2. /\ \A i \in 1..Len(Backlog) : Backlog[i].id \in Int
          /\ \A i \in 1..Len(Essences(console)) : Essences(console)[i].id \in Int
      <4>1. Backlog \in Seq(Note)
        BY BacklogType, ConcatProperties DEF Backlog
      <4>2. Essences(console) \in Seq(Note)
        BY EssencesOf DEF LogInv
      <4>3. /\ \A i \in 1..Len(Backlog) : Backlog[i] \in Note
            /\ \A i \in 1..Len(Essences(console)) : Essences(console)[i] \in Note
        BY <4>1, <4>2
      <4>4. \A e \in Note : e.id \in Int
        BY <3>1 DEF Note
      <4> QED
        BY <4>3, <4>4
    <3> QED
      BY <3>2, NumbersSoFar
  <2>4. Delivery!Raise(raised + 1, k)
    BY <2>1, <2>2, <2>3 DEF Delivery!Raise, Backlog
  <2> QED
    BY <2>2, <2>4 DEF Delivery!Next
<1>2. CASE Take
  <2>1. UNCHANGED <<Essences(console), Phase>>
    BY <1>2 DEF Take, Essences, Essence, Phase
  <2> QED
    BY <1>2, <2>1, BacklogStays, PhaseStep
<1>3. CASE Withhold
  <2>1. /\ Held = <<Essence(cur)>> /\ Held' = <<>> /\ UNCHANGED queue
        /\ UNCHANGED Essences(console)
        /\ Phase # "halted" /\ Phase' = IF Phase = "halting" THEN "halted" ELSE Phase
    BY <1>3 DEF Withhold, Held, Phase, Essences, Essence
  <2>2. PICK i \in 1..Len(console) : console[i].key = cur.key
    BY <1>3 DEF Withhold, Deduper!Suppress, Deduper!Opens, KeysNoticed
  <2>3. i \in 1..Len(Essences(console)) /\ Essences(console)[i].key = Essence(cur).key
    <3>1. /\ Len(Essences(console)) = Len(console)
          /\ Essences(console)[i] = Essence(console[i])
      BY EssencesOf DEF LogInv
    <3>2. Essence(console[i]).key = Essence(cur).key
      BY <2>2 DEF Essence
    <3> QED
      BY <3>1, <3>2
  <2> QED
    BY <2>1, <2>3, BacklogShrinks, HandledIsDelivery DEF Handled
<1>4. CASE SendConsole
  <2>1. /\ Held = <<Essence(cur)>> /\ Held' = <<>> /\ UNCHANGED queue
        /\ Phase # "halted" /\ Phase' = IF Phase = "halting" THEN "halted" ELSE Phase
    BY <1>4 DEF SendConsole, Held, Phase
  <2>2. console \in Seq(Alert) /\ cur \in Alert /\ console' = Append(console, cur)
    BY <1>4 DEF SendConsole, LogInv
  <2>3. Essences(console)' = Append(Essences(console), Essence(cur))
    <3>1. Essences(console)' = Essences(console')
      BY DEF Essences, Essence
    <3> QED
      BY <2>2, <3>1, EssencesAppend
  <2> QED
    BY <2>1, <2>3, BacklogShrinks, HandledIsDelivery DEF Handled
<1>5. CASE Record \/ PassOn
  <2>1. UNCHANGED <<Essences(console), Essences(queue), Phase>>
    BY <1>5 DEF Record, PassOn, Essences, Essence, Phase
  <2>2. Held' = Held
    <3>1. CASE Record
      BY <3>1 DEF Record, Held, Essence
    <3>2. CASE PassOn
      <4>1. Essence(cur)' = Essence(cur)
        BY <3>2 DEF PassOn, Deduper!Pass, Deduper!Updated, Essence, IInv, UnderWay,
                    Undecided, Alert
      <4> QED
        BY <3>2, <4>1 DEF PassOn, Held
    <3> QED
      BY <1>5, <3>1, <3>2
  <2> QED
    BY <2>1, <2>2, PhaseStep DEF Backlog
<1>6. CASE LoopTop \/ Timeout \/ SmtpSkip \/ SmtpConnect \/ SmtpSend
  <2>1. /\ Held = <<>> /\ Held' = <<>> /\ UNCHANGED <<queue, console>>
        /\ \/ UNCHANGED Phase
           \/ Phase = "halting" /\ Phase' = "halted"
    <3>1. /\ UNCHANGED <<queue, console, main, stopEvent>> /\ main # "exited"
          /\ \/ stage = "loop" /\ stopEvent /\ stage' = "ended"
             \/ stage = "loop" /\ ~stopEvent /\ stage' = "get"
             \/ stage \in {"get", "smtp", "send"} /\ stage' \in {"loop", "send"}
      BY <1>6 DEF LoopTop, Timeout, SmtpSkip, SmtpConnect, SmtpSend
    <3>2. Held = <<>> /\ Held' = <<>>
      BY <3>1 DEF Held
    <3>3. UNCHANGED Phase \/ (Phase = "halting" /\ Phase' = "halted")
      BY <3>1 DEF Phase
    <3> QED
      BY <3>1, <3>2, <3>3
  <2>2. UNCHANGED <<Backlog, Essences(console)>>
    BY <2>1 DEF Backlog, Essences, Essence
  <2> QED
    BY <2>1, <2>2, PhaseStep
<1>7. CASE MainThread \/ RequestStop
  <2>1. UNCHANGED <<queue, console, cur>> /\ Held' = Held
    BY <1>7 DEF MainThread, RequestStop, StartSniffer, StartNotifyThread, StopSniffer,
                CloseStore, Exit, Abort, Held, Essence, Unborn
  <2>2. UNCHANGED <<Backlog, Essences(console)>>
    BY <2>1 DEF Backlog, Essences, Essence
  <2>3. \/ UNCHANGED Phase
        \/ Phase = "up" /\ Phase' \in {"halting", "halted"}
        \/ Phase = "halting" /\ Phase' = "halted"
    <3>1. CASE StartSniffer \/ StartNotifyThread
      <4>1. stopEvent = FALSE /\ stopEvent' = FALSE
        BY <3>1 DEF StartSniffer, StartNotifyThread, StopInv
      <4> QED
        BY <4>1 DEF Phase
    <3>2. CASE RequestStop
      <4>1. stopEvent = FALSE
        BY <3>2 DEF RequestStop, StopInv
      <4> QED
        BY <3>2, <4>1 DEF RequestStop, Phase
    <3>3. CASE StopSniffer \/ CloseStore
      BY <3>3 DEF StopSniffer, CloseStore, Phase
    <3>4. CASE Exit \/ Abort
      <4>1. stopEvent = TRUE
        BY <3>4 DEF Exit, Abort, StopInv
      <4> QED
        BY <3>4, <4>1 DEF Exit, Abort, Phase
    <3> QED
      BY <1>7, <3>1, <3>2, <3>3, <3>4 DEF MainThread
  <2> QED
    BY <2>2, <2>3, PhaseStep
<1>8. CASE \/ \E w \in Windows, m \in MinSeverities : ReloadWindow(w, m)
           \/ ReloadMinSeverity \/ Exited \/ UNCHANGED vars
  <2>1. UNCHANGED <<queue, console, cur, stage, stopEvent, main>>
    BY <1>8 DEF ReloadWindow, ReloadMinSeverity, Exited, vars
  <2>2. UNCHANGED <<Backlog, Essences(console), Phase>>
    BY <2>1 DEF Backlog, Held, Essences, Essence, Phase
  <2> QED
    BY <2>2, PhaseStep
<1> QED
  BY <1>1, <1>2, <1>3, <1>4, <1>5, <1>6, <1>7, <1>8 DEF Next, NotifyThread

(***************************************************************************)
(* The safety of DeliverySpec: every step of the pipeline is one that      *)
(* AlertDelivery allows, or none.  Alerts are handled in the order raised, *)
(* only repeats of what was logged are withheld, and after a stop at most  *)
(* one more alert is handled, for any number of alerts and any faults.     *)
(***************************************************************************)
THEOREM DeliveryIsKept == Spec => Delivery!Init /\ [][Delivery!Next]_(Delivery!vars)
<1> DEFINE J == IInv /\ LogInv /\ MailInv /\ KeysNoticed /\ StopInv /\ Unborn
<1>1. Init => J /\ Delivery!Init
  <2> SUFFICES ASSUME Init PROVE J /\ Delivery!Init
    OBVIOUS
  <2>1. /\ console = <<>> /\ mailed = <<>> /\ stage = "unborn" /\ queue = <<>>
        /\ smtpMin \in MinSeverities /\ reloading = NoReload
        /\ main = "init" /\ stopEvent = FALSE /\ dedup = Deduper!NoEntries
    BY DEF Init, Deduper!Init
  <2>2. Len(console) = 0 /\ Len(mailed) = 0 /\ Through = 0
    BY <2>1 DEF Through, AtMail
  <2>3. LogInv /\ MailInv
    BY <2>1, <2>2 DEF LogInv, MailInv
  <2>4. KeysNoticed
    BY <2>1 DEF KeysNoticed, Deduper!NoEntries
  <2>5. StopInv
    BY <2>1 DEF StopInv, MainStages, Stages
  <2>6. Delivery!Init
    <3>1. Held = <<>> /\ Phase = "up"
      BY <2>1 DEF Held, Phase
    <3>2. <<>> \in Seq(Alert) /\ Essences(<<>>) = <<>>
      <4>1. <<>> \in Seq(Alert) /\ Len(<<>>) = 0
        BY EmptySeq
      <4>2. Essences(<<>>) \in Seq(Note) /\ Len(Essences(<<>>)) = 0
        BY <4>1, EssencesOf
      <4> QED
        BY <4>1, <4>2, EmptySeq
    <3>3. <<>> \o <<>> = <<>>
      BY ConcatEmptySeq
    <3> QED
      BY <2>1, <3>1, <3>2, <3>3 DEF Delivery!Init
  <2> QED
    BY <2>3, <2>4, <2>5, <2>6, StartInv
<1>2. J /\ [Next]_vars => J' /\ [Delivery!Next]_(Delivery!vars)
  BY StepInv, UnbornInv, MailStep, KeysNoticedStep, StopInvStep, DeliveryStep
<1> HIDE DEF J
<1> QED
  BY <1>1, <1>2, PTL DEF Spec

-----------------------------------------------------------------------------
(* Types.  The deduper's and the store's fields hold what their own        *)
(* specifications say, and the notify thread an alert or none.             *)

CurType == cur \in Alert \cup {NoAlert}

LEMMA SameAlerts == Deduper!Alert = Alert /\ Store!Alert = Alert /\ Store!Severity = Severity
BY DEF Deduper!Alert, Store!Alert, Alert, Deduper!Severity, Store!Severity, Severity

\* One entry of a dict is set, another is added, or none: the rest stays.
LEMMA PutType ==
    ASSUME NEW S, NEW d, DOMAIN d \subseteq Keys, d \in [DOMAIN d -> S],
           NEW k \in Keys, NEW e \in S
    PROVE  /\ DOMAIN Put(d, k, e) \subseteq Keys
           /\ Put(d, k, e) \in [DOMAIN Put(d, k, e) -> S]
<1>1. DOMAIN Put(d, k, e) = DOMAIN d \cup {k}
  BY DEF Put
<1>2. \A x \in DOMAIN d \cup {k} : Put(d, k, e)[x] \in S
  BY DEF Put
<1> QED
  BY <1>1, <1>2 DEF Put

\* process() leaves the state of a key and the alert well typed.
LEMMA VerdictTypes ==
    ASSUME Deduper!TypeOK, NEW a \in Alert
    PROVE  /\ Deduper!Opened(a) \in Deduper!DedupeState
           /\ a.key \in DOMAIN dedup => Deduper!Repeated(a) \in Deduper!DedupeState
           /\ Deduper!Updated(a) \in Alert
           /\ [ alert |-> Deduper!Updated(a), passed |-> Deduper!Opens(a),
                window |-> window ] \in Deduper!Outcome
<1>1. Deduper!Opened(a) \in Deduper!DedupeState
  BY DEF Deduper!Opened, Deduper!DedupeState, Alert
<1>2. ASSUME a.key \in DOMAIN dedup
      PROVE  Deduper!Repeated(a) \in Deduper!DedupeState
  <2> DEFINE d == dedup[a.key]
  <2>1. d \in Deduper!DedupeState
    BY <1>2 DEF Deduper!TypeOK
  <2>2. Deduper!Repeated(a) = [d EXCEPT !.occurrences = d.occurrences + 1,
                                       !.lastSeen = a.lastSeen]
    BY DEF Deduper!Repeated
  <2>3. d.occurrences + 1 \in Nat \ {0}
    BY <2>1 DEF Deduper!DedupeState
  <2>4. a.lastSeen \in Times
    BY DEF Alert
  <2> HIDE DEF d
  <2> QED
    BY <2>1, <2>2, <2>3, <2>4 DEF Deduper!DedupeState
<1>3. Deduper!Updated(a) \in Alert
  <2>1. CASE Deduper!Opens(a)
    BY <2>1 DEF Deduper!Updated, Alert
  <2>2. CASE ~Deduper!Opens(a)
    <3>1. Deduper!Repeated(a) \in Deduper!DedupeState
      BY <2>2, <1>2 DEF Deduper!Opens
    <3> QED
      BY <2>2, <3>1 DEF Deduper!Updated, Alert, Deduper!DedupeState
  <2> QED
    BY <2>1, <2>2
<1>4. Deduper!Opens(a) \in BOOLEAN
  BY DEF Deduper!Opens, Deduper!WindowExpired
<1> QED
  BY <1>1, <1>2, <1>3, <1>4, SameAlerts DEF Deduper!Outcome, Deduper!TypeOK

LEMMA DeduperTypes ==
    ASSUME IInv, Deduper!TypeOK, [Next]_vars
    PROVE  Deduper!TypeOK'
<1>1. CASE Withhold \/ PassOn
  <2>1. cur \in Alert /\ cur.key \in Keys
    BY <1>1 DEF Withhold, PassOn, At, IInv, UnderWay, Undecided, Alert
  <2>2. PICK e \in Deduper!DedupeState : dedup' = Put(dedup, cur.key, e)
    <3>1. Put(dedup, cur.key, Deduper!Opened(cur)) = Deduper!Put(dedup, cur.key, Deduper!Opened(cur))
      BY DEF Put, Deduper!Put
    <3>2. Put(dedup, cur.key, Deduper!Repeated(cur)) = Deduper!Put(dedup, cur.key, Deduper!Repeated(cur))
      BY DEF Put, Deduper!Put
    <3> QED
      BY <1>1, <2>1, <3>1, <3>2, VerdictTypes
         DEF Withhold, PassOn, Deduper!Pass, Deduper!Suppress, Deduper!Opens
  <2>3. window' = window /\ handled' \in Seq(Deduper!Outcome)
    <3> DEFINE o == [ alert |-> Deduper!Updated(cur), passed |-> Deduper!Opens(cur),
                      window |-> window ]
    <3>1. window' = window /\ handled' = Append(handled, o)
      BY <1>1 DEF Withhold, PassOn, Deduper!Pass, Deduper!Suppress, Deduper!Remember
    <3>2. o \in Deduper!Outcome
      BY <2>1, VerdictTypes
    <3> HIDE DEF o
    <3> QED
      BY <3>1, <3>2, AppendProperties DEF Deduper!TypeOK
  <2>4. DOMAIN dedup' \subseteq Keys /\ dedup' \in [DOMAIN dedup' -> Deduper!DedupeState]
    BY <2>1, <2>2, PutType DEF Deduper!TypeOK
  <2> QED
    BY <2>3, <2>4 DEF Deduper!TypeOK
<1>2. CASE \E w \in Windows, m \in MinSeverities : ReloadWindow(w, m)
  BY <1>2 DEF ReloadWindow, Deduper!SetWindow, Deduper!TypeOK
<1>3. CASE UNCHANGED deduperVars
  BY <1>3 DEF deduperVars, Deduper!TypeOK
<1>4. \/ Withhold \/ PassOn \/ UNCHANGED deduperVars
      \/ \E w \in Windows, m \in MinSeverities : ReloadWindow(w, m)
  BY DEF Next, NotifyThread, MainThread, LoopTop, Take, Timeout, Record, SendConsole,
         SmtpSkip, SmtpConnect, SmtpSend, Raise, ReloadMinSeverity, Exited,
         RequestStop, StartSniffer, StartNotifyThread, StopSniffer, CloseStore, Exit,
         Abort, vars
<1> QED
  BY <1>1, <1>2, <1>3, <1>4

\* An upsert leaves its row well typed.
LEMMA UpsertType ==
    ASSUME Store!TypeOK, NEW a \in Alert
    PROVE  /\ DOMAIN Store!Upserted(a) \subseteq Keys
           /\ Store!Upserted(a) \in [DOMAIN Store!Upserted(a) -> Store!Row]
<1> DEFINE new == IF a.key \in DOMAIN rows
                  THEN [rows[a.key] EXCEPT !.occurrences = @ + 1,
                                           !.severity = a.severity,
                                           !.lastSeen = a.lastSeen]
                  ELSE Store!FirstRow(a)
<1>1. Store!Upserted(a) = Put(rows, a.key, new)
  BY DEF Store!Upserted, Store!Put, Put
<1>2. /\ a.key \in Keys /\ a.severity \in Severity /\ a.lastSeen \in Times
      /\ a.firstSeen \in Times
  BY DEF Alert
<1>3. new \in Store!Row
  <2>1. CASE a.key \in DOMAIN rows
    <3> DEFINE d == rows[a.key]
    <3>1. d \in Store!Row
      BY <2>1 DEF Store!TypeOK
    <3>2. new = [d EXCEPT !.occurrences = d.occurrences + 1,
                          !.severity = a.severity, !.lastSeen = a.lastSeen]
      BY <2>1
    <3>3. d.occurrences + 1 \in Nat \ {0}
      BY <3>1 DEF Store!Row
    <3> HIDE DEF d, new
    <3> QED
      BY <1>2, <3>1, <3>2, <3>3, SameAlerts DEF Store!Row
  <2>2. CASE a.key \notin DOMAIN rows
    <3>1. new = Store!FirstRow(a)
      BY <2>2
    <3> HIDE DEF new
    <3> QED
      BY <1>2, <3>1, SameAlerts DEF Store!FirstRow, Store!Row
  <2> QED
    BY <2>1, <2>2
<1> HIDE DEF new
<1>4. DOMAIN rows \subseteq Keys /\ rows \in [DOMAIN rows -> Store!Row]
  BY DEF Store!TypeOK
<1>5. /\ DOMAIN Put(rows, a.key, new) \subseteq Keys
      /\ Put(rows, a.key, new) \in [DOMAIN Put(rows, a.key, new) -> Store!Row]
  BY <1>2, <1>3, <1>4, PutType
<1> QED
  BY <1>1, <1>5

LEMMA StoreTypes ==
    ASSUME IInv, Store!TypeOK, [Next]_vars
    PROVE  Store!TypeOK'
<1>1. CASE Record
  <2>1. cur \in Alert
    BY <1>1 DEF Record, At, IInv, UnderWay, Undecided
  <2>2. /\ rows' \in {Store!Upserted(cur), disk, rows}
        /\ disk' \in {disk, rows'} /\ open' = open
    BY <1>1 DEF Record, Store!Insert, Store!CommitFails, Store!ExecuteFails
  <2>3. PICK how \in {"stored", "uncommitted", "rejected"} :
            attempts' = Append(attempts, [alert |-> cur, ended |-> how])
    BY <1>1 DEF Record, Store!Insert, Store!CommitFails, Store!ExecuteFails, Store!Log
  <2>4. attempts' \in Seq(Store!Attempt)
    <3>1. [alert |-> cur, ended |-> how] \in Store!Attempt
      BY <2>1, SameAlerts DEF Store!Attempt
    <3> QED
      BY <2>3, <3>1, AppendProperties DEF Store!TypeOK
  <2>5. DOMAIN rows' \subseteq Keys /\ rows' \in [DOMAIN rows' -> Store!Row]
    BY <2>1, <2>2, UpsertType DEF Store!TypeOK
  <2>6. DOMAIN disk' \subseteq Keys /\ disk' \in [DOMAIN disk' -> Store!Row]
    BY <2>2, <2>5 DEF Store!TypeOK
  <2> QED
    BY <2>2, <2>4, <2>5, <2>6 DEF Store!TypeOK
<1>2. CASE Store!Close
  BY <1>2 DEF Store!Close, Store!TypeOK
<1>3. CASE UNCHANGED storeVars
  BY <1>3 DEF storeVars, Store!TypeOK
<1>4. Record \/ Store!Close \/ UNCHANGED storeVars
  BY DEF Next, NotifyThread, MainThread, LoopTop, Take, Timeout, Withhold, PassOn,
         SendConsole, SmtpSkip, SmtpConnect, SmtpSend, Raise, ReloadWindow,
         ReloadMinSeverity, Exited, RequestStop, StartSniffer, StartNotifyThread,
         StopSniffer, CloseStore, Exit, Abort, vars
<1> QED
  BY <1>1, <1>2, <1>3, <1>4

LEMMA CurStep ==
    ASSUME IInv, Deduper!TypeOK, CurType, [Next]_vars
    PROVE  CurType'
<1>1. CASE Take
  <2>1. queue \in Seq(Alert) /\ queue # <<>> /\ cur' = Head(queue)
    BY <1>1 DEF Take, IInv, UnderWay
  <2> QED
    BY <2>1, HeadTailProperties DEF CurType
<1>2. CASE PassOn
  <2>1. cur \in Alert /\ cur' = Deduper!Updated(cur)
    BY <1>2 DEF PassOn, At, IInv, UnderWay, Undecided
  <2> QED
    BY <2>1, VerdictTypes DEF CurType
<1>3. cur' \in {cur, NoAlert} \/ Take \/ PassOn
  BY DEF Next, NotifyThread, MainThread, LoopTop, Timeout, Record, Withhold,
         SendConsole, SmtpSkip, SmtpConnect, SmtpSend, Raise, ReloadWindow,
         ReloadMinSeverity, Exited, RequestStop, StartSniffer, StartNotifyThread,
         StopSniffer, CloseStore, Exit, Abort, vars
<1> QED
  BY <1>1, <1>2, <1>3 DEF CurType

(***************************************************************************)
(* The program's state stays in the sets declared for it: the dict, the    *)
(* rows and the histories as their own modules declare them, although what *)
(* reaches them comes off a queue between the steps of other threads.      *)
(***************************************************************************)
THEOREM TypeCorrect == Spec => []TypeOK
<1> DEFINE J == /\ IInv /\ LogInv /\ MailInv /\ Unborn /\ StopInv
                /\ Deduper!TypeOK /\ Store!TypeOK /\ CurType
<1>1. Init => J
  <2> SUFFICES ASSUME Init PROVE J
    OBVIOUS
  <2>1. /\ handled = <<>> /\ console = <<>> /\ mailed = <<>> /\ stage = "unborn"
        /\ smtpMin \in MinSeverities /\ reloading = NoReload
        /\ main = "init" /\ stopEvent = FALSE /\ cur = NoAlert
    BY DEF Init, Deduper!Init
  <2>2. Len(handled) = 0 /\ Len(console) = 0 /\ Len(mailed) = 0 /\ Through = 0
    BY <2>1 DEF Through, AtMail
  <2>3. LogInv /\ MailInv
    BY <2>1, <2>2 DEF LogInv, MailInv
  <2>4. StopInv /\ CurType
    BY <2>1 DEF StopInv, MainStages, Stages, CurType
  <2>5. Deduper!TypeOK
    BY DEF Init, Deduper!Init, Deduper!TypeOK, Deduper!NoEntries
  <2>6. Store!TypeOK
    BY DEF Init, Store!Init, Store!TypeOK, Store!NoEntries
  <2> QED
    BY <2>3, <2>4, <2>5, <2>6, StartInv
<1>2. J /\ [Next]_vars => J'
  BY StepInv, UnbornInv, MailStep, StopInvStep, DeduperTypes, StoreTypes, CurStep
<1>3. J => TypeOK
  BY DEF IInv, UnderWay, LogInv, StopInv, CurType, TypeOK
<1> HIDE DEF J
<1> QED
  BY <1>1, <1>2, <1>3, PTL DEF Spec
=============================================================================
