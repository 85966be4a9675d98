--------------------------- MODULE AlertPipeline ----------------------------
(***************************************************************************)
(* PoisonHoundApp of app.py: how an alert travels from the sniffer thread  *)
(* to the console, the mail server and the dashboard's database, while the *)
(* dashboard's threads hot-reload the configuration and the main thread    *)
(* starts and stops everything.                                            *)
(*                                                                         *)
(*   sniffer thread    Raise: a detector's emit is queue.put               *)
(*   notify thread     _notify_loop and _process_alert, one action per     *)
(*                     step another thread can come between                *)
(*   dashboard thread  reload_config, as far as it reaches this pipeline   *)
(*   main thread       run() and stop()                                    *)
(*                                                                         *)
(* The deduper and the store run under locks of their own; their actions   *)
(* are those of AlertDeduper and AlertStore.                               *)
(***************************************************************************)
EXTENDS Alerts, FiniteSets

CONSTANTS
    Windows,        \* rate_limit.dedupe_window_seconds, over all reloads
    MinSeverities,  \* smtp.min_severity, over all reloads
    Channels,       \* of "dashboard" and "smtp", those configured
    Faults,         \* of "store" and "smtp", those that may raise
    NoAlert         \* the notify thread holds no alert

ASSUME PipelineAssumption ==
    /\ Windows \subseteq Int
    /\ MinSeverities \subseteq Severity
    /\ Channels \subseteq {"dashboard", "smtp"}
    /\ Faults \subseteq {"store", "smtp"}
    /\ NoAlert \notin Alert

VARIABLES
    window, dedup, handled,         \* the AlertDeduper
    rows, disk, open, attempts,     \* the AlertStore
    queue,          \* _alert_queue
    raised,         \* history: how many alerts were put on it
    stage,          \* where the notify thread is
    cur,            \* the alert it holds
    smtpMin,        \* SmtpNotifier._min_severity
    console,        \* history: alerts ConsoleNotifier logged
    mailed,         \* history: alerts SmtpNotifier got to the mail server
    stopEvent,      \* _stop_event is set
    main,           \* where the main thread is
    reloading       \* the min_severity a reload still has to assign

deduperVars == <<window, dedup, handled>>
storeVars == <<rows, disk, open, attempts>>
notifierVars == <<smtpMin, console, mailed>>
mainVars == <<stopEvent, main>>
vars == <<deduperVars, storeVars, queue, raised, stage, cur, notifierVars,
          mainVars, reloading>>

Deduper == INSTANCE AlertDeduper
Store == INSTANCE AlertStore

Stages == {"unborn", "loop", "get", "record", "dedupe", "console", "smtp",
           "send", "ended"}

MainStages == {"init", "sniffing", "serving", "stopping", "quiet", "closed",
               "exited"}

NoReload == "none"

TypeOK ==
    /\ Deduper!TypeOK
    /\ Store!TypeOK
    /\ queue \in Seq(Alert)
    /\ raised \in Nat
    /\ stage \in Stages
    /\ cur \in Alert \cup {NoAlert}
    /\ smtpMin \in MinSeverities
    /\ console \in Seq(Alert)
    /\ mailed \in Seq(Alert)
    /\ stopEvent \in BOOLEAN
    /\ main \in MainStages
    /\ reloading \in MinSeverities \cup {NoReload}

\* PoisonHoundApp(config).
Init ==
    /\ Deduper!Init
    /\ Store!Init
    /\ queue = <<>>
    /\ raised = 0
    /\ stage = "unborn"
    /\ cur = NoAlert
    /\ smtpMin \in MinSeverities
    /\ console = <<>>
    /\ mailed = <<>>
    /\ stopEvent = FALSE
    /\ main = "init"
    /\ reloading = NoReload

-----------------------------------------------------------------------------
(* Mistakes a change to this code could make, for the checks to catch.     *)

At(s) == stage = s /\ main # "exited"

LoopTopUnchecked ==
    /\ At("loop")
    /\ stage' = "get"
    /\ UNCHANGED <<deduperVars, storeVars, queue, raised, cur, notifierVars,
                   mainVars, reloading>>

TakeNewest ==
    /\ At("get")
    /\ queue # <<>>
    /\ cur' = queue[Len(queue)]
    /\ queue' = SubSeq(queue, 1, Len(queue) - 1)
    /\ stage' = IF "dashboard" \in Channels THEN "record" ELSE "dedupe"
    /\ UNCHANGED <<deduperVars, storeVars, raised, notifierVars, mainVars,
                   reloading>>

TakeRecordingOnlyNews ==
    /\ At("get")
    /\ queue # <<>>
    /\ cur' = Head(queue)
    /\ queue' = Tail(queue)
    /\ stage' = IF Head(queue).key \in DOMAIN dedup THEN "dedupe" ELSE "record"
    /\ UNCHANGED <<deduperVars, storeVars, raised, notifierVars, mainVars,
                   reloading>>

RecordWithoutCommit ==
    /\ At("record")
    /\ IF open THEN rows' = Store!Upserted(cur) /\ Store!Log(cur, "stored")
               ELSE rows' = rows /\ Store!Log(cur, "rejected")
    /\ stage' = "dedupe"
    /\ UNCHANGED <<deduperVars, disk, open, queue, raised, cur, notifierVars,
                   mainVars, reloading>>

SendConsoleAsFallback ==
    /\ At("console")
    /\ IF "smtp" \in Channels
       THEN stage' = "smtp" /\ UNCHANGED <<cur, console>>
       ELSE stage' = "loop" /\ cur' = NoAlert /\ console' = Append(console, cur)
    /\ UNCHANGED <<deduperVars, storeVars, queue, raised, smtpMin, mailed,
                   mainVars, reloading>>

SmtpSkipAtMinimum ==
    /\ At("smtp")
    /\ ~SeverityAtLeast(cur.severity, smtpMin) \/ cur.severity = smtpMin
    /\ cur' = NoAlert
    /\ stage' = "loop"
    /\ UNCHANGED <<deduperVars, storeVars, queue, raised, notifierVars,
                   mainVars, reloading>>

ReloadWindowForgetting(w, m) ==
    /\ main \in {"serving", "stopping", "quiet", "closed"}
    /\ reloading = NoReload
    /\ window' = w
    /\ dedup' = NoEntries
    /\ reloading' = m
    /\ UNCHANGED <<handled, storeVars, queue, raised, stage, cur, notifierVars,
                   mainVars>>

ReloadMinSeverityCleared ==
    /\ reloading # NoReload
    /\ main # "exited"
    /\ smtpMin' = NoReload
    /\ reloading' = NoReload
    /\ UNCHANGED <<deduperVars, storeVars, queue, raised, stage, cur, console,
                   mailed, mainVars>>

CloseStoreDrained ==
    /\ main = "quiet"
    /\ queue = <<>>
    /\ IF "dashboard" \in Channels THEN Store!Close ELSE UNCHANGED storeVars
    /\ main' = "closed"
    /\ UNCHANGED <<deduperVars, queue, raised, stage, cur, notifierVars,
                   stopEvent, reloading>>

-----------------------------------------------------------------------------
(* The sniffer thread: a detector's callback puts an alert on the queue,   *)
(* stamped with whatever the wall clock says.                              *)

Raise(k, s, t) ==
    /\ main \in {"sniffing", "serving", "stopping"}
    /\ raised + 1 \in Ids
    /\ raised' = raised + 1
    /\ queue' = Append(queue, NewAlert(raised + 1, k, s, t))
    /\ UNCHANGED <<deduperVars, storeVars, stage, cur, notifierVars, mainVars,
                   reloading>>

-----------------------------------------------------------------------------
(* The notify thread.  It is a daemon: it runs until the process exits.    *)

\* while not self._stop_event.is_set()
LoopTop ==
    /\ At("loop")
    /\ stage' = IF stopEvent THEN "ended" ELSE "get"
    /\ UNCHANGED <<deduperVars, storeVars, queue, raised, cur, notifierVars,
                   mainVars, reloading>>

\* get(timeout=1) returns an alert.  Without a dashboard there is no store
\* to record it in.
Take ==
    /\ At("get")
    /\ queue # <<>>
    /\ cur' = Head(queue)
    /\ queue' = Tail(queue)
    /\ stage' = IF "dashboard" \in Channels THEN "record" ELSE "dedupe"
    /\ UNCHANGED <<deduperVars, storeVars, raised, notifierVars, mainVars,
                   reloading>>

\* get(timeout=1) raises Empty.
Timeout ==
    /\ At("get")
    /\ queue = <<>>
    /\ stage' = "loop"
    /\ UNCHANGED <<deduperVars, storeVars, queue, raised, cur, notifierVars,
                   mainVars, reloading>>

\* insert_or_update(); whatever it raises is logged and the alert goes on.
Record ==
    /\ At("record")
    /\ \/ Store!Insert(cur)
       \/ "store" \in Faults /\ (Store!CommitFails(cur) \/ Store!ExecuteFails(cur))
       \/ ~open /\ Store!ExecuteFails(cur)
    /\ stage' = "dedupe"
    /\ UNCHANGED <<deduperVars, queue, raised, cur, notifierVars, mainVars,
                   reloading>>

\* The deduper returns None, and the thread is done with the alert.
Withhold ==
    /\ At("dedupe")
    /\ Deduper!Suppress(cur)
    /\ cur' = NoAlert
    /\ stage' = "loop"
    /\ UNCHANGED <<storeVars, queue, raised, notifierVars, mainVars, reloading>>

\* The deduper returns the alert, its count reset.
PassOn ==
    /\ At("dedupe")
    /\ Deduper!Pass(cur)
    /\ cur' = Deduper!Updated(cur)
    /\ stage' = "console"
    /\ UNCHANGED <<storeVars, queue, raised, notifierVars, mainVars, reloading>>

\* The console notifier comes first in self.notifiers and is always there.
SendConsole ==
    /\ At("console")
    /\ console' = Append(console, cur)
    /\ IF "smtp" \in Channels
       THEN stage' = "smtp" /\ cur' = cur
       ELSE stage' = "loop" /\ cur' = NoAlert
    /\ UNCHANGED <<deduperVars, storeVars, queue, raised, smtpMin, mailed,
                   mainVars, reloading>>

\* SmtpNotifier.send() returns at once below min_severity.
SmtpSkip ==
    /\ At("smtp")
    /\ ~SeverityAtLeast(cur.severity, smtpMin)
    /\ cur' = NoAlert
    /\ stage' = "loop"
    /\ UNCHANGED <<deduperVars, storeVars, queue, raised, notifierVars,
                   mainVars, reloading>>

SmtpConnect ==
    /\ At("smtp")
    /\ SeverityAtLeast(cur.severity, smtpMin)
    /\ stage' = "send"
    /\ UNCHANGED <<deduperVars, storeVars, queue, raised, cur, notifierVars,
                   mainVars, reloading>>

\* The mail server takes the message, or a step of the conversation with it
\* raises, which is logged.
SmtpSend ==
    /\ At("send")
    /\ \/ mailed' = Append(mailed, cur)
       \/ "smtp" \in Faults /\ mailed' = mailed
    /\ cur' = NoAlert
    /\ stage' = "loop"
    /\ UNCHANGED <<deduperVars, storeVars, queue, raised, smtpMin, console,
                   mainVars, reloading>>

NotifyThread ==
    \/ LoopTop \/ Take \/ Timeout \/ Record \/ Withhold \/ PassOn
    \/ SendConsole \/ SmtpSkip \/ SmtpConnect \/ SmtpSend

-----------------------------------------------------------------------------
(* The dashboard: reload_config() holds _reload_lock, and the notify       *)
(* thread, which does not take it, runs between its assignments.           *)

DashboardUp ==
    "dashboard" \in Channels /\ main \in {"serving", "stopping", "quiet", "closed"}

\* deduper.set_window(...)
ReloadWindow(w, m) ==
    /\ DashboardUp
    /\ reloading = NoReload
    /\ Deduper!SetWindow(w)
    /\ reloading' = m
    /\ UNCHANGED <<storeVars, queue, raised, stage, cur, notifierVars, mainVars>>

\* notifier._min_severity = ..., for each SmtpNotifier
ReloadMinSeverity ==
    /\ reloading # NoReload
    /\ main # "exited"
    /\ smtpMin' = IF "smtp" \in Channels THEN reloading ELSE smtpMin
    /\ reloading' = NoReload
    /\ UNCHANGED <<deduperVars, storeVars, queue, raised, stage, cur, console,
                   mailed, mainVars>>

-----------------------------------------------------------------------------
(* The main thread.                                                        *)

\* run(), up to the sniffer's start.
StartSniffer ==
    /\ main = "init"
    /\ main' = "sniffing"
    /\ UNCHANGED <<deduperVars, storeVars, queue, raised, stage, cur,
                   notifierVars, stopEvent, reloading>>

\* run(): _stop_event.clear(), then the notify thread and the dashboard.
StartNotifyThread ==
    /\ main = "sniffing"
    /\ stopEvent' = FALSE
    /\ stage' = "loop"
    /\ main' = "serving"
    /\ UNCHANGED <<deduperVars, storeVars, queue, raised, cur, notifierVars,
                   reloading>>

\* A signal arrived; stop() sets the event first.
RequestStop ==
    /\ main = "serving"
    /\ stopEvent' = TRUE
    /\ main' = "stopping"
    /\ UNCHANGED <<deduperVars, storeVars, queue, raised, stage, cur,
                   notifierVars, reloading>>

\* stop(): the sniffer, then the detectors and the notifiers' no-op close().
StopSniffer ==
    /\ main = "stopping"
    /\ main' = "quiet"
    /\ UNCHANGED <<deduperVars, storeVars, queue, raised, stage, cur,
                   notifierVars, stopEvent, reloading>>

\* stop(): the dashboard is asked to exit and joined for 5 s at most, then
\* the store is closed.  Nobody waits for the notify thread.
CloseStore ==
    /\ main = "quiet"
    /\ IF "dashboard" \in Channels THEN Store!Close ELSE UNCHANGED storeVars
    /\ main' = "closed"
    /\ UNCHANGED <<deduperVars, queue, raised, stage, cur, notifierVars,
                   stopEvent, reloading>>

\* The process ends, and its daemon threads with it, wherever they are.
Exit ==
    /\ main = "closed"
    /\ main' = "exited"
    /\ UNCHANGED <<deduperVars, storeVars, queue, raised, stage, cur,
                   notifierVars, stopEvent, reloading>>

\* sniffer.stop() raises because the sniffer has died, and the process ends
\* with the store as it is: nothing more is committed.
Abort ==
    /\ main = "stopping"
    /\ Store!Close
    /\ main' = "exited"
    /\ UNCHANGED <<deduperVars, queue, raised, stage, cur, notifierVars,
                   stopEvent, reloading>>

MainThread ==
    \/ StartSniffer \/ StartNotifyThread
    \/ StopSniffer \/ CloseStore \/ Exit \/ Abort

Exited == main = "exited" /\ UNCHANGED vars

Next ==
    \/ \E k \in Keys, t \in Times : \E s \in KeySeverities[k] : Raise(k, s, t)
    \/ NotifyThread
    \/ \E w \in Windows, m \in MinSeverities : ReloadWindow(w, m)
    \/ ReloadMinSeverity
    \/ MainThread
    \/ RequestStop
    \/ Exited

(***************************************************************************)
(* The notify thread is always runnable: get() times out after a second,   *)
(* the locks it takes are held for a bounded time, and the mail server is  *)
(* given 10 s.  run() and stop() go on once begun.  Nobody has to attack,  *)
(* edit the configuration or stop the program.                             *)
(***************************************************************************)
Fairness == WF_vars(NotifyThread) /\ WF_vars(MainThread)

Spec == Init /\ [][Next]_vars /\ Fairness

-----------------------------------------------------------------------------
\* The alert taken last is with the deduper or on its way there.
Undecided == stage \in {"record", "dedupe"}

Taken == raised - Len(queue)

(***************************************************************************)
(* Every alert that is raised is decided exactly once and in the order     *)
(* raised: the queue holds the latest without a gap, the notify thread the *)
(* one before them, the deduper has seen all the others.                   *)
(***************************************************************************)
NoneSkipped ==
    /\ \A i \in 1..Len(queue) : queue[i].id = Taken + i
    /\ Undecided => cur.id = Taken
    /\ Len(handled) = IF Undecided THEN Taken - 1 ELSE Taken
    /\ \A i \in 1..Len(handled) : handled[i].alert.id = i

(***************************************************************************)
(* The store is offered every alert, withheld or not, before the deduper   *)
(* decides on it: the dashboard's counts do not depend on the rate limit.  *)
(***************************************************************************)
StoreSeesEveryAlert ==
    "dashboard" \in Channels =>
        /\ Len(attempts) = IF stage = "dedupe" THEN Taken ELSE Len(handled)
        /\ \A i \in 1..Len(attempts) : attempts[i].alert.id = i

\* Of the first n alerts decided, those the deduper let through.
PassedOn(n) == {i \in 1..n : handled[i].passed}

(***************************************************************************)
(* The comment on ConsoleNotifier: nothing the deduper lets through is     *)
(* lost to the log, whatever the mail server or the database does, and     *)
(* nothing is logged twice: the k-th alert let through is the k-th in the  *)
(* log, unless the thread is just about to log it.                         *)
(***************************************************************************)
ConsoleMissesNothing ==
    /\ Cardinality(PassedOn(Len(handled))) =
        IF stage = "console" THEN Len(console) + 1 ELSE Len(console)
    /\ \A i \in PassedOn(Len(handled)) :
        Cardinality(PassedOn(i)) <= Len(console) =>
            console[Cardinality(PassedOn(i))] = handled[i].alert

\* The logged alerts that mail is through with.
Settled ==
    IF stage \in {"smtp", "send"} THEN SubSeq(console, 1, Len(console) - 1)
                                  ELSE console

(***************************************************************************)
(* Mail says what the log says, from min_severity up: an alert is mailed   *)
(* after it was logged, once and in the same order; never when it is below *)
(* every min_severity in use; and always when it is at or above all of     *)
(* them, the mail server works and the thread was done with it.            *)
(***************************************************************************)
MailFollowsTheLog ==
    /\ \A i, j \in 1..Len(mailed) : i < j => mailed[i].id < mailed[j].id
    /\ \A i \in 1..Len(mailed) :
        /\ \E j \in 1..Len(Settled) : Settled[j] = mailed[i]
        /\ \E m \in MinSeverities : SeverityAtLeast(mailed[i].severity, m)
    /\ "smtp" \in Channels \ Faults =>
        \A j \in 1..Len(Settled) :
            (\A m \in MinSeverities : SeverityAtLeast(Settled[j].severity, m)) =>
                \E i \in 1..Len(mailed) : mailed[i] = Settled[j]

\* The pipeline makes no use of the deduper or of the store that their own
\* specifications do not allow, so what holds of them holds here.
DeduperSpec == Deduper!Spec
StoreSpec == Store!Spec

-----------------------------------------------------------------------------
(* The promise of AlertDelivery: an alert is pending until the console has *)
(* it or the deduper withholds it.                                         *)

Essence(a) == [id |-> a.id, key |-> a.key]

Essences(alerts) == [i \in 1..Len(alerts) |-> Essence(alerts[i])]

Held ==
    IF stage \in {"record", "dedupe", "console"} THEN <<Essence(cur)>> ELSE <<>>

Phase ==
    IF ~stopEvent THEN "up"
    ELSE IF main # "exited" /\ stage \in {"get", "record", "dedupe", "console"}
    THEN "halting"
    ELSE "halted"

Delivery ==
    INSTANCE AlertDelivery
    WITH backlog <- Held \o Essences(queue),
         noticed <- Essences(console),
         phase <- Phase

(***************************************************************************)
(* The pipeline delivers: in order, at most once, withholding only repeats *)
(* of what was noticed, leaving nothing waiting while the program is up,   *)
(* and handling at most one more alert after it is told to stop.           *)
(***************************************************************************)
DeliverySpec == Delivery!Spec

(***************************************************************************)
(* Once stop() begins the program ends, whatever the notify thread, the    *)
(* mail server or a reload are doing.                                      *)
(***************************************************************************)
StopEndsTheProgram == stopEvent ~> main = "exited"

-----------------------------------------------------------------------------
(***************************************************************************)
(* The docstring of dashboard/store.py: "Every alert PoisonHound raises is *)
(* recorded here".  A stop() that goes well leaves the queue undrained and *)
(* closes the store under the notify thread.                               *)
(***************************************************************************)
EveryAlertIsRecorded ==
    main = "closed" => \A k \in 1..raised :
        \E i \in 1..Len(attempts) :
            attempts[i].alert.id = k /\ attempts[i].ended = "stored"
=============================================================================
