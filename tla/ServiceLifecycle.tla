-------------------------- MODULE ServiceLifecycle --------------------------
(***************************************************************************)
(* Starting and stopping PoisonHound: run() and stop() of app.py, driven   *)
(* by main() of cli.py or by the Windows service of win_service.py, with   *)
(* the detectors of core/registry.py and the timers on which two of them   *)
(* probe (rogue_dhcp.py, name_resolution_canary.py).                       *)
(*                                                                         *)
(* On the command line one thread runs and stops the application.  In the  *)
(* service, SvcDoRun runs it while SvcStop, on the thread of the service   *)
(* control dispatcher, may stop it at any point of the start: pywin32      *)
(* reports the service as running before it calls SvcDoRun, and the        *)
(* service manager delivers a stop to a running service only.  All other   *)
(* threads are daemons and end with the process.                           *)
(***************************************************************************)
EXTENDS Naturals, Sequences

CONSTANTS
    Registered,     \* the detectors, in the order of build_enabled_detectors
    Probers,        \* those whose start() begins to probe
    MaxRequests,    \* bound: stop controls and signals
    SnifferMayDie   \* the capture may fail to open, or end by itself

ASSUME LifecycleAssumption ==
    /\ Registered \in Seq(STRING)
    /\ \A i, j \in DOMAIN Registered : Registered[i] = Registered[j] => i = j
    /\ Probers \subseteq STRING
    /\ MaxRequests \in Nat
    /\ SnifferMayDie \in BOOLEAN

Names == {Registered[i] : i \in DOMAIN Registered}

VARIABLES
    host,       \* "cli" or "service"
    main,       \* where main() or SvcDoRun is
    status,     \* what the service manager was told last
    released,   \* stop_event of the service, shutdown of the command line
    stopper,    \* where app.stop() and SvcStop are, or "idle"
    detectors,  \* PoisonHoundApp.detectors
    up,         \* the detector that run() starts next
    down,       \* the detector that stop() stops next
    running,    \* detector |-> _running
    round,      \* detector |-> where its timer, or _schedule_probe(), is
    handle,     \* detector |-> the state of its _probe_timer
    sniffer,    \* _sniffer
    halted,     \* _stop_event
    dashboard,  \* the uvicorn thread: "leaving" once should_exit is set
    closed,     \* alert_store was closed
    requests,   \* how many stop controls and signals were accepted
    early,      \* history: a stop control came before the start was over
    raised,     \* history: app.stop() raised
    late        \* history: detector |-> rounds sent while not _running

probes  == <<round, handle, late>>
serving == <<halted, dashboard, closed>>
asked   == <<status, requests, early>>
vars == <<host, main, status, released, stopper, detectors, up, down, running,
          round, handle, sniffer, halted, dashboard, closed, requests, early,
          raised, late>>

TypeOK ==
    /\ host \in {"cli", "service"}
    /\ main \in {"configure", "detectors", "probing", "sniffer", "loop",
                 "dashboard", "report", "wait", "stopping", "exited"}
    /\ status \in {"running", "stop_pending", "stopped"}
    /\ stopper \in {"idle", "halt", "sniffer", "quit", "cancel", "forget",
                    "join", "store", "release"}
    /\ detectors \in Seq(Names)
    /\ up \in 1..Len(detectors) + 1 /\ down \in 1..Len(detectors) + 1
    /\ running \in [Names -> BOOLEAN]
    /\ round \in [Names -> {"none", "check", "send", "make", "arm", "pending"}]
    /\ handle \in [Names -> {"none", "live", "cancelled"}]
    /\ sniffer \in {"none", "created", "starting", "running", "dead"}
    /\ dashboard \in {"off", "serving", "leaving"}
    /\ {released, halted, closed, early, raised} \subseteq BOOLEAN
    /\ requests \in 0..MaxRequests
    /\ late \in [Names -> Nat]

\* Which of the registered detectors a configuration may enable, in order.
Enabled ==
    { which \in UNION {[1..n -> DOMAIN Registered] : n \in 0..Len(Registered)} :
        \A i, j \in DOMAIN which : i < j => which[i] < which[j] }

BuildEnabledDetectors(which) == [i \in DOMAIN which |-> Registered[which[i]]]

Init ==
    /\ host \in {"cli", "service"}
    /\ main = "configure" /\ status = "running" /\ stopper = "idle"
    /\ \E which \in Enabled : detectors = BuildEnabledDetectors(which)
    /\ up = 1 /\ down = 1
    /\ running = [d \in Names |-> FALSE]
    /\ round = [d \in Names |-> "none"]
    /\ handle = [d \in Names |-> "none"]
    /\ sniffer = "none"
    /\ released = FALSE /\ halted = FALSE /\ dashboard = "off" /\ closed = FALSE
    /\ requests = 0 /\ early = FALSE /\ raised = FALSE
    /\ late = [d \in Names |-> 0]

Alive == main # "exited"

-----------------------------------------------------------------------------
(* _schedule_probe() may run inside detector.start() on the main thread.   *)

InStart(d) == main = "probing" /\ detectors[up] = d

\* The first call returns to run(), which goes on with the next detector.
Return(d) ==
    IF InStart(d) THEN main' = "detectors" /\ up' = up + 1
                  ELSE UNCHANGED <<main, up>>

Leave(d) == round' = [round EXCEPT ![d] = "none"]

ProbeFrame == UNCHANGED <<host, released, stopper, detectors, down, running,
                          sniffer, serving, requests, early, raised>>

StopFrame == UNCHANGED <<host, detectors, up, late, asked>>

-----------------------------------------------------------------------------
(* Mistakes a change to this code could make, for the checks to catch.     *)

CheckNothing(d) ==
    /\ Alive /\ round[d] = "check"
    /\ round' = [round EXCEPT ![d] = "send"]
    /\ UNCHANGED <<main, up, handle, late, status>> /\ ProbeFrame

SendProbesOrFail(d) ==
    /\ Alive /\ round[d] = "send"
    /\ \/ Leave(d) /\ Return(d)
       \/ round' = [round EXCEPT ![d] = "make"] /\ UNCHANGED <<main, up>>
    /\ late' = [late EXCEPT ![d] = IF running[d] THEN @ ELSE @ + 1]
    /\ UNCHANGED <<handle, status>> /\ ProbeFrame

AcceptStop(next, set) ==
    /\ host = "service" /\ Alive
    /\ status = "running" /\ stopper = "idle"
    /\ requests < MaxRequests
    /\ requests' = requests + 1
    /\ early' = (early \/ main # "wait")
    /\ status' = "stop_pending"
    /\ stopper' = next
    /\ released' = set
    /\ UNCHANGED <<host, main, detectors, up, down, running, probes, sniffer,
                   serving, raised>>

StopControlReleasing ==
    AcceptStop(IF main = "configure" THEN "release" ELSE "halt", TRUE)

StopControlNeedingApp ==
    AcceptStop(IF main = "configure" THEN "idle" ELSE "halt", released)

StopSnifferFromZero ==
    /\ stopper = "sniffer" /\ sniffer \in {"none", "running"}
    /\ sniffer' = "none"
    /\ down' = 0
    /\ stopper' = "quit"
    /\ UNCHANGED <<main, released, running, round, handle, serving, raised>>
    /\ StopFrame

-----------------------------------------------------------------------------
(* main() of cli.py and SvcDoRun of win_service.py, with run() inside.     *)

\* A configuration that does not load, no Npcap, a detector that cannot be
\* built, or --check-config: the program ends having started nothing.
StartFails ==
    /\ main = "configure"
    /\ main' = "exited"
    /\ status' = "stopped"
    /\ UNCHANGED <<host, released, stopper, detectors, up, down, running,
                   probes, sniffer, serving, requests, early, raised>>

\* The application is built; from here on self.app is not None.
Configure ==
    /\ main = "configure"
    /\ main' = "detectors"
    /\ UNCHANGED <<host, released, stopper, detectors, up, down, running,
                   probes, sniffer, serving, asked, raised>>

\* detector.start(), up to the first probe of those that probe.  The DHCP
\* detector probes if active_probe_enabled is set.
StartDetector ==
    /\ main = "detectors" /\ up <= Len(detectors)
    /\ LET d == detectors[up] IN
        /\ running' = [running EXCEPT ![d] = TRUE]
        /\ \/ /\ d \in Probers
              /\ main' = "probing"
              /\ round' = [round EXCEPT ![d] = "check"]
              /\ UNCHANGED up
           \/ /\ d # "name_resolution_canary"
              /\ up' = up + 1
              /\ UNCHANGED <<main, round>>
    /\ UNCHANGED <<host, released, stopper, detectors, down, handle, late,
                   sniffer, serving, asked, raised>>

\* self._sniffer = AsyncSniffer(...)
CreateSniffer ==
    /\ main = "detectors" /\ up > Len(detectors)
    /\ main' = "sniffer"
    /\ sniffer' = "created"
    /\ UNCHANGED <<host, released, stopper, detectors, up, down, running,
                   probes, serving, asked, raised>>

StartSniffer ==
    /\ main = "sniffer"
    /\ main' = "loop"
    /\ sniffer' = "starting"
    /\ UNCHANGED <<host, released, stopper, detectors, up, down, running,
                   probes, serving, asked, raised>>

\* _stop_event.clear(), and the notify thread is started.
StartNotifyThread ==
    /\ main = "loop"
    /\ main' = "dashboard"
    /\ halted' = FALSE
    /\ UNCHANGED <<host, released, stopper, detectors, up, down, running,
                   probes, sniffer, dashboard, closed, asked, raised>>

\* config.dashboard.enabled
StartDashboard ==
    /\ main = "dashboard"
    /\ main' = IF host = "service" THEN "report" ELSE "wait"
    /\ dashboard' \in {"off", "serving"}
    /\ UNCHANGED <<host, released, stopper, detectors, up, down, running,
                   probes, sniffer, halted, closed, asked, raised>>

\* ReportServiceStatus(SERVICE_RUNNING), also after a stop was accepted.
ReportRunning ==
    /\ main = "report"
    /\ main' = "wait"
    /\ status' = "running"
    /\ UNCHANGED <<host, released, stopper, detectors, up, down, running,
                   probes, sniffer, serving, requests, early, raised>>

\* shutdown.wait() returns and main() calls stop().
WakeCli ==
    /\ main = "wait" /\ host = "cli" /\ released
    /\ main' = "stopping"
    /\ stopper' = "halt"
    /\ UNCHANGED <<host, released, detectors, up, down, running, probes,
                   sniffer, serving, asked, raised>>

\* WaitForSingleObject returns, SvcDoRun too, and the process ends.
WakeService ==
    /\ main = "wait" /\ host = "service" /\ released
    /\ main' = "exited"
    /\ status' = "stopped"
    /\ UNCHANGED <<host, released, stopper, detectors, up, down, running,
                   probes, sniffer, serving, requests, early, raised>>

MainStep ==
    \/ StartFails \/ Configure \/ StartDetector \/ CreateSniffer \/ StartSniffer
    \/ StartNotifyThread \/ StartDashboard \/ ReportRunning
    \/ WakeCli \/ WakeService

-----------------------------------------------------------------------------
(* _schedule_probe(), on a timer's thread or, the first time, on the main  *)
(* thread inside detector.start().                                         *)

\* if not self._running: return
CheckRunning(d) ==
    /\ Alive /\ round[d] = "check"
    /\ IF running[d] THEN /\ round' = [round EXCEPT ![d] = "send"]
                          /\ UNCHANGED <<main, up>>
                     ELSE Leave(d) /\ Return(d)
    /\ UNCHANGED <<handle, late, status>> /\ ProbeFrame

\* The probes go out; one that cannot be sent is logged.
SendProbes(d) ==
    /\ Alive /\ round[d] = "send"
    /\ round' = [round EXCEPT ![d] = "make"]
    /\ late' = [late EXCEPT ![d] = IF running[d] THEN @ ELSE @ + 1]
    /\ UNCHANGED <<main, up, handle, status>> /\ ProbeFrame

\* self._probe_timer = threading.Timer(...)
MakeTimer(d) ==
    /\ Alive /\ round[d] = "make"
    /\ round' = [round EXCEPT ![d] = "arm"]
    /\ handle' = [handle EXCEPT ![d] = "live"]
    /\ UNCHANGED <<main, up, late, status>> /\ ProbeFrame

\* self._probe_timer.start(); a timer cancelled before runs out at once.
ArmTimer(d) ==
    /\ Alive /\ round[d] = "arm" /\ handle[d] # "none"
    /\ IF handle[d] = "live" THEN round' = [round EXCEPT ![d] = "pending"]
                             ELSE Leave(d)
    /\ Return(d)
    /\ UNCHANGED <<handle, late, status>> /\ ProbeFrame

\* stop() has set _probe_timer to None: AttributeError, which ends the
\* timer's thread, or SvcDoRun and with it the service.
ArmNothing(d) ==
    /\ Alive /\ round[d] = "arm" /\ handle[d] = "none"
    /\ Leave(d)
    /\ IF InStart(d) THEN main' = "exited" /\ status' = "stopped"
                     ELSE UNCHANGED <<main, status>>
    /\ UNCHANGED <<up, handle, late>> /\ ProbeFrame

\* The interval is over.
Fire(d) ==
    /\ Alive /\ round[d] = "pending"
    /\ round' = [round EXCEPT ![d] = "check"]
    /\ UNCHANGED <<main, up, handle, late, status>> /\ ProbeFrame

ProbeStep(d) ==
    \/ CheckRunning(d) \/ SendProbes(d) \/ MakeTimer(d)
    \/ ArmTimer(d) \/ ArmNothing(d) \/ Fire(d)

-----------------------------------------------------------------------------
(* SvcStop and stop() of app.py.                                           *)

\* Ctrl+C or SIGTERM: the handler sets the event.  Before main() has
\* installed it the signal ends the program.
Signal ==
    /\ host = "cli" /\ Alive
    /\ requests < MaxRequests
    /\ requests' = requests + 1
    /\ IF main = "configure" THEN main' = "exited" /\ UNCHANGED released
                             ELSE released' = TRUE /\ UNCHANGED main
    /\ UNCHANGED <<host, status, stopper, detectors, up, down, running, probes,
                   sniffer, serving, early, raised>>

\* SvcStop begins: SERVICE_STOP_PENDING, and app.stop() if there is an app.
StopControl ==
    /\ host = "service" /\ Alive
    /\ status = "running" /\ stopper = "idle"
    /\ requests < MaxRequests
    /\ requests' = requests + 1
    /\ early' = (early \/ main # "wait")
    /\ status' = "stop_pending"
    /\ stopper' = IF main = "configure" THEN "release" ELSE "halt"
    /\ UNCHANGED <<host, main, released, detectors, up, down, running, probes,
                   sniffer, serving, raised>>

\* self._stop_event.set()
Halt ==
    /\ stopper = "halt"
    /\ halted' = TRUE
    /\ stopper' = "sniffer"
    /\ UNCHANGED <<main, released, down, running, round, handle, sniffer,
                   dashboard, closed, raised>>
    /\ StopFrame

\* self._sniffer.stop(), which waits for the sniffer thread.
StopSniffer ==
    /\ stopper = "sniffer" /\ sniffer \in {"none", "running"}
    /\ sniffer' = "none"
    /\ down' = 1
    /\ stopper' = "quit"
    /\ UNCHANGED <<main, released, running, round, handle, serving, raised>>
    /\ StopFrame

\* It raises for a sniffer that is not running: SvcStop ends without having
\* set its event, main() ends with a traceback.
StopRaises ==
    /\ stopper = "sniffer" /\ sniffer \in {"created", "starting", "dead"}
    /\ raised' = TRUE
    /\ stopper' = "idle"
    /\ main' = IF host = "cli" THEN "exited" ELSE main
    /\ UNCHANGED <<released, down, running, round, handle, sniffer, serving>>
    /\ StopFrame

\* detector.stop() begins with _running = False.
QuitDetector ==
    /\ stopper = "quit" /\ down <= Len(detectors)
    /\ running' = [running EXCEPT ![detectors[down]] = FALSE]
    /\ stopper' = "cancel"
    /\ UNCHANGED <<main, released, down, round, handle, sniffer, serving, raised>>
    /\ StopFrame

\* self._probe_timer.cancel(), for a detector that has one.
CancelTimer ==
    /\ stopper = "cancel"
    /\ LET d == detectors[down] IN
        IF handle[d] = "none"
        THEN /\ stopper' = "quit" /\ down' = down + 1
             /\ UNCHANGED <<round, handle>>
        ELSE /\ stopper' = "forget"
             /\ handle' = [handle EXCEPT ![d] = "cancelled"]
             /\ round' = [round EXCEPT ![d] = IF @ = "pending" THEN "none" ELSE @]
             /\ UNCHANGED down
    /\ UNCHANGED <<main, released, running, sniffer, serving, raised>>
    /\ StopFrame

\* self._probe_timer = None
ForgetTimer ==
    /\ stopper = "forget"
    /\ handle' = [handle EXCEPT ![detectors[down]] = "none"]
    /\ stopper' = "quit" /\ down' = down + 1
    /\ UNCHANGED <<main, released, running, round, sniffer, serving, raised>>
    /\ StopFrame

\* The notifiers are closed, and should_exit is set.
TellDashboard ==
    /\ stopper = "quit" /\ down > Len(detectors)
    /\ dashboard' = IF dashboard = "serving" THEN "leaving" ELSE dashboard
    /\ stopper' = "join"
    /\ UNCHANGED <<main, released, down, running, round, handle, sniffer,
                   halted, closed, raised>>
    /\ StopFrame

\* join(timeout=5) returns, whether the dashboard's thread has ended or not.
JoinDashboard ==
    /\ stopper = "join"
    /\ stopper' = "store"
    /\ UNCHANGED <<main, released, down, running, round, handle, sniffer,
                   serving, raised>>
    /\ StopFrame

\* alert_store.close(), and stop() returns to SvcStop or to main().
CloseStore ==
    /\ stopper = "store"
    /\ closed' = TRUE
    /\ IF host = "cli" THEN stopper' = "idle" /\ main' = "exited"
                       ELSE stopper' = "release" /\ UNCHANGED main
    /\ UNCHANGED <<released, down, running, round, handle, sniffer, halted,
                   dashboard, raised>>
    /\ StopFrame

\* win32event.SetEvent(self.stop_event)
Release ==
    /\ stopper = "release"
    /\ released' = TRUE
    /\ stopper' = "idle"
    /\ UNCHANGED <<main, down, running, round, handle, sniffer, serving, raised>>
    /\ StopFrame

StopStep ==
    /\ Alive
    /\ \/ Halt \/ StopSniffer \/ StopRaises \/ QuitDetector \/ CancelTimer
       \/ ForgetTimer \/ TellDashboard \/ JoinDashboard \/ CloseStore \/ Release

-----------------------------------------------------------------------------
SnifferFrame == UNCHANGED <<host, main, released, stopper, detectors, up, down,
                            running, probes, serving, asked, raised>>

\* The capture opens on the sniffer's thread, or fails to.
SnifferSettles ==
    /\ Alive /\ sniffer = "starting"
    /\ sniffer' \in {"running"} \cup (IF SnifferMayDie THEN {"dead"} ELSE {})
    /\ SnifferFrame

\* The capture ends, with the interface it was on.
SnifferDies ==
    /\ Alive /\ SnifferMayDie /\ sniffer = "running"
    /\ sniffer' = "dead"
    /\ SnifferFrame

\* The uvicorn thread ends: by itself if it cannot have its port, or told to,
\* once the requests under way are answered and their connections closed.
DashboardEnds ==
    /\ Alive /\ dashboard # "off"
    /\ dashboard' = "off"
    /\ UNCHANGED <<host, main, released, stopper, detectors, up, down, running,
                   probes, sniffer, halted, closed, asked, raised>>

\* The process is gone, or waits for a stop, which nobody has to ask for.
Idle == (~Alive \/ (main = "wait" /\ ~released)) /\ UNCHANGED vars

Next ==
    \/ MainStep
    \/ StopStep
    \/ \E d \in Names : ProbeStep(d)
    \/ Signal \/ StopControl
    \/ SnifferSettles \/ SnifferDies \/ DashboardEnds
    \/ Idle

(***************************************************************************)
(* The process's own threads go on, a timer's interval ends, the capture   *)
(* opens or fails.  Nobody has to ask for a stop.                          *)
(***************************************************************************)
Fairness ==
    /\ WF_vars(MainStep) /\ WF_vars(StopStep) /\ WF_vars(SnifferSettles)
    /\ \A d \in Names : WF_vars(ProbeStep(d))

Spec == Init /\ [][Next]_vars /\ Fairness

-----------------------------------------------------------------------------
(***************************************************************************)
(* The stop is graceful: when it comes to a program that has started and   *)
(* does not fail on its way, the process ends only after the sniffer and   *)
(* all detectors were stopped, the dashboard was told to exit and the      *)
(* store was closed.  The dashboard may serve to the very end, also after  *)
(* the store is closed: join() gives up after 5 s.                         *)
(***************************************************************************)
StopIsGraceful ==
    ~Alive /\ released /\ ~early /\ ~raised =>
        /\ sniffer = "none" /\ halted /\ closed /\ dashboard # "serving"
        /\ \A d \in Names : ~running[d]

(***************************************************************************)
(* The check of _running and the cancelled timer together: a detector that *)
(* was stopped sends at most the one round of probes that was past its     *)
(* check, on whichever thread and however often it is stopped.             *)
(***************************************************************************)
AtMostOneLateRound == \A d \in Names : late[d] <= 1

(***************************************************************************)
(* While its detector runs, every round of probes is followed by another,  *)
(* whatever becomes of its packets.                                        *)
(***************************************************************************)
ProbingGoesOn ==
    \A d \in Names :
        LET Over == ~running[d] \/ ~Alive IN
        /\ round[d] = "send" ~> (round[d] = "pending" \/ Over)
        /\ round[d] = "pending" ~> (round[d] = "send" \/ Over)

(***************************************************************************)
(* A stop ends the program wherever in the start it comes, with no app     *)
(* yet, before run() or within it, and on the command line even if         *)
(* stop() raises.                                                          *)
(***************************************************************************)
StopEndsTheProgram ==
    (requests > 0) ~> (~Alive \/ (host = "service" /\ raised))

-----------------------------------------------------------------------------
(***************************************************************************)
(* The docstring of win_service.py: the service wraps run() and stop() so  *)
(* that the service manager can manage it, and README lists the command    *)
(* stop.  If the sniffer is not running when the stop comes, SvcStop       *)
(* raises before it sets the event for which SvcDoRun waits, and the       *)
(* service, now STOP_PENDING, takes no further stop control.               *)
(***************************************************************************)
StopControlEndsTheService == (host = "service" /\ requests > 0) ~> ~Alive
=============================================================================
