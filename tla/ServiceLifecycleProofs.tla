------------------------ MODULE ServiceLifecycleProofs ------------------------
(***************************************************************************)
(* ServiceLifecycle for any detectors and any number of stop requests.     *)
(*                                                                         *)
(* A late round cannot repeat: it is sent by the thread that had passed    *)
(* its check when _running was cleared, _running is set only once, by the  *)
(* start, and until then nothing was sent (ProbeInv).  A stop is graceful  *)
(* since what each of its steps has done stays done (GraceInv): of the     *)
(* steps that would undo it, all come before the wait for the stop.        *)
(***************************************************************************)
EXTENDS ServiceLifecycle, TLAPS

\* Where run() and stop() are among the detectors, and that they differ.
PlaceInv ==
    /\ main = "probing" => up \in DOMAIN detectors
    /\ stopper \in {"cancel", "forget"} => down \in DOMAIN detectors
    /\ \A i, j \in DOMAIN detectors : detectors[i] = detectors[j] => i = j
    /\ \A d \in Names : running[d] => \E i \in DOMAIN detectors : detectors[i] = d

\* run() has not yet come to the detector at i.
NotStarted(i) ==
    \/ main \in {"configure", "detectors"} /\ i >= up
    \/ main = "probing" /\ i > up

ProbeInv ==
    /\ \A i \in DOMAIN detectors :
        NotStarted(i) => round[detectors[i]] = "none" /\ late[detectors[i]] = 0
    /\ \A d \in Names : late[d] > 0 => ~running[d] /\ round[d] # "send"
    /\ AtMostOneLateRound

\* What a stop leaves behind.
Quiesced ==
    /\ sniffer = "none" /\ halted /\ closed /\ dashboard # "serving"
    /\ \A d \in Names : ~running[d]

\* The start is over when a stop runs, unless the signal or control was early.
StartIsOver ==
    /\ stopper # "idle" => main = IF host = "cli" THEN "stopping" ELSE "wait"
    /\ main = "configure" => ~released
    /\ main = "probing" /\ round[detectors[up]] = "arm" =>
            handle[detectors[up]] # "none"

\* What stop() has done when it is at a step.
DoneSoFar ==
    /\ stopper \in {"sniffer", "quit", "cancel", "forget", "join", "store", "release"}
            => halted
    /\ stopper \in {"quit", "cancel", "forget", "join", "store", "release"} =>
            sniffer = "none"
    /\ stopper \in {"quit", "cancel", "forget"} =>
            \A i \in DOMAIN detectors : i < down => ~running[detectors[i]]
    /\ stopper \in {"cancel", "forget"} => ~running[detectors[down]]
    /\ stopper \in {"join", "store", "release"} =>
            dashboard # "serving" /\ \A d \in Names : ~running[d]
    /\ stopper = "release" => closed

\* What it has done when it is over, and that the service is stopped once.
DoneAtTheEnd ==
    /\ host = "service" /\ (released \/ stopper # "idle") => status # "running"
    /\ host = "service" /\ released =>
            Quiesced /\ stopper = "idle" /\ main \in {"wait", "exited"}
    /\ main = "exited" /\ released => Quiesced

GraceInv == ~early /\ ~raised => StartIsOver /\ DoneSoFar /\ DoneAtTheEnd

-----------------------------------------------------------------------------
\* The detectors built are distinct and registered.
LEMMA BuiltDetectors ==
    ASSUME NEW which \in Enabled
    PROVE  /\ BuildEnabledDetectors(which) \in Seq(Names)
           /\ \A i, j \in DOMAIN BuildEnabledDetectors(which) :
                BuildEnabledDetectors(which)[i] = BuildEnabledDetectors(which)[j]
                    => i = j
<1> DEFINE s == BuildEnabledDetectors(which)
<1>1. PICK n \in 0..Len(Registered) : which \in [1..n -> DOMAIN Registered]
  BY DEF Enabled
<1>2. n \in Nat /\ DOMAIN s = 1..n
  BY <1>1, LifecycleAssumption DEF BuildEnabledDetectors
<1>3. \A i \in 1..n : s[i] = Registered[which[i]] /\ s[i] \in Names
  BY <1>1 DEF BuildEnabledDetectors, Names
<1>4. s \in [1..n -> Names]
  BY <1>1, <1>3 DEF BuildEnabledDetectors
<1>5. s \in Seq(Names)
  BY <1>2, <1>4
<1>6. ASSUME NEW i \in 1..n, NEW j \in 1..n, s[i] = s[j] PROVE i = j
  <2>1. which[i] = which[j]
    BY <1>1, <1>3, <1>6, LifecycleAssumption
  <2>2. ~(i < j) /\ ~(j < i)
    <3>1. i \in DOMAIN which /\ j \in DOMAIN which /\ which[i] \in Nat
      BY <1>1, LifecycleAssumption
    <3> QED
      BY <2>1, <3>1 DEF Enabled
  <2> QED
    BY <1>2, <2>2
<1> QED
  BY <1>2, <1>5, <1>6

-----------------------------------------------------------------------------
\* The steps of main() and SvcDoRun, with run() inside.
LEMMA MainTyped ==
    ASSUME TypeOK, PlaceInv, MainStep
    PROVE  TypeOK' /\ PlaceInv'
<1> USE DEF TypeOK, PlaceInv, probes, serving, asked
<1>1. CASE StartFails
  BY <1>1 DEF StartFails
<1>2. CASE Configure
  BY <1>2 DEF Configure
<1>3. CASE StartDetector
  <2>1. /\ up \in DOMAIN detectors /\ detectors[up] \in Names
        /\ Len(detectors) \in Nat /\ up + 1 \in 1..Len(detectors) + 1
    BY <1>3 DEF StartDetector
  <2>2. running' = [running EXCEPT ![detectors[up]] = TRUE]
    BY <1>3 DEF StartDetector
  <2>3. TypeOK'
    BY <1>3, <2>1 DEF StartDetector
  <2>4. \A d \in Names : running'[d] => \E i \in DOMAIN detectors : detectors[i] = d
    BY <2>1, <2>2
  <2> QED
    BY <1>3, <2>1, <2>3, <2>4 DEF StartDetector
<1>4. CASE CreateSniffer
  BY <1>4 DEF CreateSniffer
<1>5. CASE StartSniffer
  BY <1>5 DEF StartSniffer
<1>6. CASE StartNotifyThread
  BY <1>6 DEF StartNotifyThread
<1>7. CASE StartDashboard
  BY <1>7 DEF StartDashboard
<1>8. CASE ReportRunning
  BY <1>8 DEF ReportRunning
<1>9. CASE WakeCli
  BY <1>9 DEF WakeCli
<1>10. CASE WakeService
  BY <1>10 DEF WakeService
<1> QED
  BY <1>1, <1>2, <1>3, <1>4, <1>5, <1>6, <1>7, <1>8, <1>9, <1>10 DEF MainStep

\* The steps of stop() and SvcStop.
LEMMA StopTyped ==
    ASSUME TypeOK, PlaceInv, StopStep
    PROVE  TypeOK' /\ PlaceInv'
<1> USE DEF TypeOK, PlaceInv, probes, serving, asked, StopFrame
<1>1. CASE Halt
  BY <1>1 DEF Halt
<1>2. CASE StopSniffer
  BY <1>2 DEF StopSniffer
<1>3. CASE StopRaises
  BY <1>3 DEF StopRaises
<1>4. CASE QuitDetector
  BY <1>4 DEF QuitDetector
<1>5. CASE CancelTimer
  <2>1. /\ down \in DOMAIN detectors /\ detectors[down] \in Names
        /\ Len(detectors) \in Nat /\ down + 1 \in 1..Len(detectors) + 1
    BY <1>5 DEF CancelTimer
  <2>2. CASE handle[detectors[down]] = "none"
    BY <1>5, <2>1, <2>2 DEF CancelTimer
  <2>3. CASE handle[detectors[down]] # "none"
    BY <1>5, <2>1, <2>3 DEF CancelTimer
  <2> QED
    BY <2>2, <2>3
<1>6. CASE ForgetTimer
  BY <1>6 DEF ForgetTimer
<1>7. CASE TellDashboard
  BY <1>7 DEF TellDashboard
<1>8. CASE JoinDashboard
  BY <1>8 DEF JoinDashboard
<1>9. CASE CloseStore
  BY <1>9 DEF CloseStore
<1>10. CASE Release
  BY <1>10 DEF Release
<1> QED
  BY <1>1, <1>2, <1>3, <1>4, <1>5, <1>6, <1>7, <1>8, <1>9, <1>10 DEF StopStep

\* The step of main() to the next detector, if the probe was the first one.
LEMMA ReturnTyped ==
    ASSUME TypeOK, PlaceInv, NEW d \in Names, Return(d)
    PROVE  /\ \/ main' = main /\ up' = up
              \/ main' = "detectors" /\ up' = up + 1 /\ InStart(d)
           /\ main' \in {"configure", "detectors", "probing", "sniffer", "loop",
                          "dashboard", "report", "wait", "stopping", "exited"}
           /\ up' \in 1..Len(detectors) + 1
           /\ main' = "probing" => up' \in DOMAIN detectors
<1>1. Len(detectors) \in Nat /\ DOMAIN detectors = 1..Len(detectors)
  BY DEF TypeOK
<1>2. CASE InStart(d)
  BY <1>1, <1>2 DEF TypeOK, PlaceInv, Return, InStart
<1>3. CASE ~InStart(d)
  <2>1. main' = main /\ up' = up
    BY <1>3 DEF Return
  <2> QED
    BY <2>1 DEF TypeOK, PlaceInv
<1> QED
  BY <1>2, <1>3

\* The steps of _schedule_probe().
LEMMA ProbeTyped ==
    ASSUME TypeOK, PlaceInv, NEW d \in Names, ProbeStep(d)
    PROVE  TypeOK' /\ PlaceInv'
<1> USE DEF TypeOK, PlaceInv, serving, ProbeFrame
<1>1. CASE CheckRunning(d)
  <2>1. CASE running[d]
    <3>1. round' = [round EXCEPT ![d] = "send"] /\ UNCHANGED <<main, up>>
      BY <1>1, <2>1 DEF CheckRunning
    <3> QED
      BY <1>1, <3>1 DEF CheckRunning
  <2>2. CASE ~running[d]
    <3>1. round' = [round EXCEPT ![d] = "none"] /\ Return(d)
      BY <1>1, <2>2 DEF CheckRunning, Leave
    <3> QED
      BY <1>1, <3>1, ReturnTyped DEF CheckRunning
  <2> QED
    BY <2>1, <2>2
<1>2. CASE SendProbes(d)
  BY <1>2 DEF SendProbes
<1>3. CASE MakeTimer(d)
  BY <1>3 DEF MakeTimer
<1>4. CASE ArmTimer(d)
  <2>1. \/ round' = [round EXCEPT ![d] = "pending"]
        \/ round' = [round EXCEPT ![d] = "none"]
    BY <1>4 DEF ArmTimer, Leave
  <2>2. Return(d)
    BY <1>4 DEF ArmTimer
  <2> QED
    BY <1>4, <2>1, <2>2, ReturnTyped DEF ArmTimer
<1>5. CASE ArmNothing(d)
  BY <1>5 DEF ArmNothing, Leave
<1>6. CASE Fire(d)
  BY <1>6 DEF Fire
<1> QED
  BY <1>1, <1>2, <1>3, <1>4, <1>5, <1>6 DEF ProbeStep

\* Types and places of every behaviour.
LEMMA Placed == Spec => [](TypeOK /\ PlaceInv)
<1>1. Init => TypeOK /\ PlaceInv
  <2> SUFFICES ASSUME Init PROVE TypeOK /\ PlaceInv
    OBVIOUS
  <2>1. /\ detectors \in Seq(Names)
        /\ \A i, j \in DOMAIN detectors : detectors[i] = detectors[j] => i = j
    BY BuiltDetectors DEF Init
  <2>2. Len(detectors) \in Nat /\ requests \in 0..MaxRequests
    BY <2>1, LifecycleAssumption DEF Init
  <2> QED
    <3>1. /\ running \in [Names -> BOOLEAN] /\ late \in [Names -> Nat]
          /\ handle \in [Names -> {"none", "live", "cancelled"}]
          /\ round \in [Names -> {"none", "check", "send", "make", "arm", "pending"}]
          /\ up \in 1..Len(detectors) + 1 /\ down \in 1..Len(detectors) + 1
      BY <2>2 DEF Init
    <3>2. TypeOK
      BY <2>1, <2>2, <3>1 DEF Init, TypeOK
    <3> QED
      BY <2>1, <3>2 DEF Init, PlaceInv
<1>2. TypeOK /\ PlaceInv /\ [Next]_vars => TypeOK' /\ PlaceInv'
  <2> SUFFICES ASSUME TypeOK, PlaceInv, [Next]_vars PROVE TypeOK' /\ PlaceInv'
    OBVIOUS
  <2>1. CASE Signal
    <3>1. requests' \in 0..MaxRequests
      BY <2>1, LifecycleAssumption DEF Signal, TypeOK
    <3>2. CASE main = "configure"
      BY <2>1, <3>1, <3>2 DEF Signal, TypeOK, PlaceInv, probes, serving
    <3>3. CASE main # "configure"
      BY <2>1, <3>1, <3>3 DEF Signal, TypeOK, PlaceInv, probes, serving
    <3> QED
      BY <3>2, <3>3
  <2>2. CASE StopControl
    <3>1. requests' \in 0..MaxRequests
      BY <2>2, LifecycleAssumption DEF StopControl, TypeOK
    <3>2. early' \in BOOLEAN
      BY <2>2, Zenon DEF StopControl, TypeOK
    <3> QED
      BY <2>2, <3>1, <3>2 DEF StopControl, TypeOK, PlaceInv, probes, serving
  <2>3. CASE SnifferSettles \/ SnifferDies \/ DashboardEnds
    BY <2>3 DEF SnifferSettles, SnifferDies, SnifferFrame, DashboardEnds, TypeOK,
                PlaceInv, probes, serving, asked
  <2>4. CASE UNCHANGED vars
    BY <2>4 DEF vars, TypeOK, PlaceInv
  <2> QED
    BY <2>1, <2>2, <2>3, <2>4, MainTyped, StopTyped, ProbeTyped DEF Next, Idle
<1> QED
  BY <1>1, <1>2, PTL DEF Spec

(***************************************************************************)
(* Every variable stays in its set: run() and stop() never go beyond the   *)
(* detectors, however the two overlap.                                     *)
(***************************************************************************)
THEOREM TypeCorrect == Spec => []TypeOK
BY Placed, PTL

-----------------------------------------------------------------------------
\* A step outside the detectors, or one that only clears _running or takes a
\* round from a timer, adds no round.
LEMMA QuietStep ==
    ASSUME TypeOK, PlaceInv, ProbeInv,
           UNCHANGED <<detectors, late>>,
           \A i \in DOMAIN detectors : NotStarted(i)' => NotStarted(i),
           running' \in [Names -> BOOLEAN],
           \A d \in Names : running'[d] => running[d],
           \A d \in Names : round'[d] \in {round[d], "none"}
    PROVE  ProbeInv'
<1>1. ASSUME NEW i \in DOMAIN detectors, NotStarted(i)'
      PROVE  round'[detectors[i]] = "none" /\ late'[detectors[i]] = 0
  <2>1. detectors[i] \in Names
    BY DEF TypeOK
  <2> QED
    BY <1>1, <2>1 DEF ProbeInv
<1>2. ASSUME NEW d \in Names, late'[d] > 0
      PROVE  ~running'[d] /\ round'[d] # "send"
  BY <1>2 DEF ProbeInv
<1>3. AtMostOneLateRound'
  BY DEF ProbeInv, AtMostOneLateRound
<1> QED
  BY <1>1, <1>2, <1>3 DEF ProbeInv

\* The start of a detector finds nothing sent and nothing under way.
LEMMA MainSends ==
    ASSUME TypeOK, PlaceInv, ProbeInv, MainStep
    PROVE  ProbeInv'
<1>1. CASE StartDetector
  <2> DEFINE d == detectors[up]
  <2>1. /\ up \in DOMAIN detectors /\ d \in Names
        /\ up \in Nat /\ DOMAIN detectors \subseteq Nat
    BY <1>1 DEF StartDetector, TypeOK
  <2>2. round[d] = "none" /\ late[d] = 0
    BY <1>1, <2>1 DEF StartDetector, ProbeInv, NotStarted
  <2>3. /\ UNCHANGED <<detectors, late>>
        /\ running' = [running EXCEPT ![d] = TRUE]
        /\ \/ main' = "probing" /\ up' = up /\ round' = [round EXCEPT ![d] = "check"]
           \/ main' = "detectors" /\ up' = up + 1 /\ round' = round
    BY <1>1 DEF StartDetector
  <2>4. ASSUME NEW i \in DOMAIN detectors, NotStarted(i)'
        PROVE  round'[detectors[i]] = "none" /\ late'[detectors[i]] = 0
    <3>1. i \in Nat /\ i > up /\ NotStarted(i)
      BY <1>1, <2>1, <2>3, <2>4 DEF StartDetector, NotStarted
    <3>2. detectors[i] # d
      BY <2>1, <3>1 DEF PlaceInv
    <3> QED
      BY <2>3, <3>1, <3>2 DEF ProbeInv, TypeOK
  <2>5. ASSUME NEW e \in Names, late'[e] > 0
        PROVE  ~running'[e] /\ round'[e] # "send"
    BY <2>1, <2>2, <2>3, <2>5 DEF ProbeInv, TypeOK
  <2>6. AtMostOneLateRound'
    BY <2>3 DEF ProbeInv, AtMostOneLateRound
  <2> QED
    BY <2>3, <2>4, <2>5, <2>6 DEF ProbeInv
<1>2. CASE ~StartDetector
  <2>1. /\ UNCHANGED <<detectors, late, running, round, up>>
        /\ main' \in {"configure", "detectors", "probing"} => main = "configure"
        /\ main' # "probing"
    BY <1>2 DEF MainStep, StartFails, Configure, CreateSniffer, StartSniffer,
                StartNotifyThread, StartDashboard, ReportRunning, WakeCli,
                WakeService, probes
  <2> QED
    BY <2>1, QuietStep DEF NotStarted, TypeOK
<1> QED
  BY <1>1, <1>2

\* stop() only clears _running and takes pending rounds from their timers.
LEMMA StopSends ==
    ASSUME TypeOK, PlaceInv, ProbeInv, StopStep
    PROVE  ProbeInv'
<1>1. UNCHANGED <<detectors, late, up>> /\ main' \in {main, "exited"}
  BY DEF StopStep, Halt, StopSniffer, StopRaises, QuitDetector, CancelTimer,
         ForgetTimer, TellDashboard, JoinDashboard, CloseStore, Release, StopFrame
<1>2. /\ running' \in [Names -> BOOLEAN]
      /\ \A d \in Names : running'[d] => running[d]
  <2>1. CASE QuitDetector
    BY <2>1 DEF QuitDetector, TypeOK
  <2>2. CASE ~QuitDetector
    <3>1. running' = running
      BY <2>2 DEF StopStep, Halt, StopSniffer, StopRaises, CancelTimer,
                  ForgetTimer, TellDashboard, JoinDashboard, CloseStore, Release
    <3> QED
      BY <3>1 DEF TypeOK
  <2> QED
    BY <2>1, <2>2
<1>3. \A d \in Names : round'[d] \in {round[d], "none"}
  <2>1. CASE CancelTimer
    BY <2>1 DEF CancelTimer, TypeOK
  <2>2. CASE ~CancelTimer
    BY <2>2 DEF StopStep, Halt, StopSniffer, StopRaises, QuitDetector,
                ForgetTimer, TellDashboard, JoinDashboard, CloseStore, Release
  <2> QED
    BY <2>1, <2>2
<1> QED
  BY <1>1, <1>2, <1>3, QuietStep DEF NotStarted

\* A round is sent late by the thread past its check, which it was not twice.
LEMMA ProbeSends ==
    ASSUME TypeOK, PlaceInv, ProbeInv, NEW d \in Names, ProbeStep(d)
    PROVE  ProbeInv'
<1> DEFINE Moves == \/ main' = main /\ up' = up
                    \/ main' = "detectors" /\ up' = up + 1 /\ InStart(d)
                    \/ main' = "exited"
<1>1. /\ UNCHANGED <<detectors, running>> /\ Moves
      /\ round[d] # "none"
      /\ \E r \in {"none", "check", "send", "make", "arm", "pending"} :
            round' = [round EXCEPT ![d] = r] /\ (r = "send" => running[d])
  <2>1. UNCHANGED <<detectors, running>> /\ round[d] # "none"
    BY DEF ProbeStep, CheckRunning, SendProbes, MakeTimer, ArmTimer, ArmNothing,
           Fire, ProbeFrame
  <2>2. Moves
    BY ReturnTyped DEF ProbeStep, CheckRunning, SendProbes, MakeTimer, ArmTimer,
                       ArmNothing, Fire
  <2>3. \E r \in {"none", "check", "send", "make", "arm", "pending"} :
            round' = [round EXCEPT ![d] = r] /\ (r = "send" => running[d])
    BY DEF ProbeStep, CheckRunning, SendProbes, MakeTimer, ArmTimer, ArmNothing,
           Fire, Leave
  <2> QED
    BY <2>1, <2>2, <2>3
<1>2. ASSUME NEW i \in DOMAIN detectors, NotStarted(i)'
      PROVE  NotStarted(i) /\ detectors[i] \in Names /\ detectors[i] # d
  <2>1. i \in Nat /\ up \in Nat /\ detectors[i] \in Names
    BY DEF TypeOK
  <2>2. NotStarted(i)
    BY <1>1, <1>2, <2>1 DEF NotStarted, InStart
  <2> QED
    BY <1>1, <2>1, <2>2 DEF ProbeInv
<1>3. CASE SendProbes(d)
  <2>1. late[d] = 0
    BY <1>3 DEF SendProbes, ProbeInv, TypeOK
  <2>2. /\ late' = [late EXCEPT ![d] = IF running[d] THEN 0 ELSE 1]
        /\ round' = [round EXCEPT ![d] = "make"]
    BY <1>3, <2>1 DEF SendProbes, TypeOK
  <2>3. \A i \in DOMAIN detectors' : NotStarted(i)' =>
            round'[detectors'[i]] = "none" /\ late'[detectors'[i]] = 0
    BY <1>1, <1>2, <2>2 DEF ProbeInv, TypeOK
  <2>4. \A e \in Names : late'[e] > 0 => ~running'[e] /\ round'[e] # "send"
    BY <1>1, <2>2 DEF ProbeInv, TypeOK
  <2>5. AtMostOneLateRound'
    BY <2>2 DEF ProbeInv, AtMostOneLateRound, TypeOK
  <2> QED
    BY <2>3, <2>4, <2>5 DEF ProbeInv
<1>4. CASE ~SendProbes(d)
  <2>1. late' = late
    BY <1>4 DEF ProbeStep, CheckRunning, MakeTimer, ArmTimer, ArmNothing, Fire
  <2>2. \A i \in DOMAIN detectors' : NotStarted(i)' =>
            round'[detectors'[i]] = "none" /\ late'[detectors'[i]] = 0
    BY <1>1, <1>2, <2>1 DEF ProbeInv, TypeOK
  <2>3. \A e \in Names : late'[e] > 0 => ~running'[e] /\ round'[e] # "send"
    BY <1>1, <2>1 DEF ProbeInv, TypeOK
  <2>4. AtMostOneLateRound'
    BY <2>1 DEF ProbeInv, AtMostOneLateRound
  <2> QED
    BY <2>2, <2>3, <2>4 DEF ProbeInv
<1> QED
  BY <1>3, <1>4

(***************************************************************************)
(* However often and wherever in its start the application is stopped, a   *)
(* detector sends at most one round of probes after it.                    *)
(***************************************************************************)
THEOREM LateRoundsAreBounded == Spec => []AtMostOneLateRound
<1>1. Init => ProbeInv
  <2> SUFFICES ASSUME Init PROVE ProbeInv
    OBVIOUS
  <2>1. detectors \in Seq(Names)
    BY BuiltDetectors DEF Init
  <2> QED
    BY <2>1 DEF Init, ProbeInv, AtMostOneLateRound
<1>2. TypeOK /\ PlaceInv /\ ProbeInv /\ [Next]_vars => ProbeInv'
  <2> SUFFICES ASSUME TypeOK, PlaceInv, ProbeInv, [Next]_vars PROVE ProbeInv'
    OBVIOUS
  <2>1. CASE \/ Signal \/ StopControl \/ SnifferSettles \/ SnifferDies
             \/ DashboardEnds \/ UNCHANGED vars
    <3>1. UNCHANGED <<detectors, late, running, round, up>> /\ main' \in {main, "exited"}
      BY <2>1 DEF Signal, StopControl, SnifferSettles, SnifferDies, SnifferFrame,
                  DashboardEnds, probes, vars
    <3> QED
      BY <3>1, QuietStep DEF NotStarted, TypeOK
  <2> QED
    BY <2>1, MainSends, StopSends, ProbeSends DEF Next, Idle
<1>3. ProbeInv => AtMostOneLateRound
  BY DEF ProbeInv
<1> QED
  BY <1>1, <1>2, <1>3, Placed, PTL DEF Spec

-----------------------------------------------------------------------------
\* While no stop runs, stop() has done nothing that could be undone.
LEMMA NothingToUndo ==
    ASSUME stopper' = "idle" PROVE DoneSoFar'
BY DEF DoneSoFar

\* A step that is not one of stop() undoes nothing that stop() has done.
LEMMA NothingUndone ==
    ASSUME DoneSoFar, UNCHANGED <<stopper, halted, sniffer, detectors, down,
                                  running, dashboard, closed>>
    PROVE  DoneSoFar'
BY DEF DoneSoFar

\* run() acts before a stop that is not early, and after it waits for its end.
LEMMA MainGraceful ==
    ASSUME TypeOK, PlaceInv, StartIsOver, DoneSoFar, DoneAtTheEnd, MainStep
    PROVE  StartIsOver' /\ DoneSoFar' /\ DoneAtTheEnd'
<1> USE DEF probes, serving, asked
<1>1. CASE StartFails
  <2>1. stopper = "idle" /\ ~released /\ UNCHANGED <<stopper, released>>
    BY <1>1 DEF StartFails, StartIsOver, TypeOK
  <2> QED
    BY <1>1, <2>1, NothingToUndo DEF StartFails, StartIsOver, DoneAtTheEnd
<1>2. CASE Configure
  <2>1. stopper = "idle" /\ ~released /\ UNCHANGED <<stopper, released>>
    BY <1>2 DEF Configure, StartIsOver, TypeOK
  <2> QED
    BY <1>2, <2>1, NothingToUndo DEF Configure, StartIsOver, DoneAtTheEnd
<1>3. CASE StartDetector
  <2>1. stopper = "idle" /\ UNCHANGED <<stopper, released, host, status>>
    BY <1>3 DEF StartDetector, StartIsOver, TypeOK
  <2>2. /\ main' \in {"detectors", "probing"}
        /\ main' = "probing" => round'[detectors'[up']] = "check"
    BY <1>3 DEF StartDetector, TypeOK
  <2>3. host = "service" => ~released
    BY <1>3 DEF StartDetector, DoneAtTheEnd
  <2> QED
    BY <2>1, <2>2, <2>3, NothingToUndo DEF StartIsOver, DoneAtTheEnd
<1>4. CASE CreateSniffer \/ StartSniffer \/ StartNotifyThread \/ StartDashboard
  <2>1. stopper = "idle" /\ UNCHANGED <<stopper, released, host, status>>
    BY <1>4 DEF CreateSniffer, StartSniffer, StartNotifyThread, StartDashboard,
                StartIsOver, TypeOK
  <2>2. main' \in {"sniffer", "loop", "dashboard", "report", "wait"}
    BY <1>4 DEF CreateSniffer, StartSniffer, StartNotifyThread, StartDashboard
  <2>3. host = "service" => ~released
    BY <1>4 DEF CreateSniffer, StartSniffer, StartNotifyThread, StartDashboard,
                DoneAtTheEnd
  <2> QED
    BY <2>1, <2>2, <2>3, NothingToUndo DEF StartIsOver, DoneAtTheEnd
<1>5. CASE ReportRunning
  <2>1. stopper = "idle" /\ UNCHANGED <<stopper, released, host>> /\ main' = "wait"
    BY <1>5 DEF ReportRunning, StartIsOver, TypeOK
  <2>2. host = "service" => ~released
    BY <1>5 DEF ReportRunning, DoneAtTheEnd
  <2> QED
    BY <2>1, <2>2, NothingToUndo DEF StartIsOver, DoneAtTheEnd
<1>6. CASE WakeCli
  BY <1>6 DEF WakeCli, StartIsOver, DoneSoFar, DoneAtTheEnd
<1>7. CASE WakeService
  <2>1. Quiesced /\ stopper = "idle"
    BY <1>7 DEF WakeService, DoneAtTheEnd
  <2>2. /\ UNCHANGED <<host, released, stopper, sniffer, halted, closed,
                       dashboard, running>>
        /\ main' = "exited" /\ status' = "stopped"
    BY <1>7 DEF WakeService
  <2>3. Quiesced'
    BY <2>1, <2>2 DEF Quiesced
  <2> QED
    BY <2>1, <2>2, <2>3, NothingToUndo DEF StartIsOver, DoneAtTheEnd
<1> QED
  BY <1>1, <1>2, <1>3, <1>4, <1>5, <1>6, <1>7 DEF MainStep

\* A first probe that finds no timer ends the program, but only an early stop
\* takes the timer away.
LEMMA ProbeGraceful ==
    ASSUME TypeOK, PlaceInv, StartIsOver, DoneSoFar, DoneAtTheEnd,
           NEW d \in Names, ProbeStep(d)
    PROVE  StartIsOver' /\ DoneSoFar' /\ DoneAtTheEnd'
<1>1. UNCHANGED <<host, released, stopper, detectors, down, running, sniffer,
                  halted, closed, dashboard>>
  BY DEF ProbeStep, CheckRunning, SendProbes, MakeTimer, ArmTimer, ArmNothing,
         Fire, ProbeFrame, serving
<1>2. DoneSoFar'
  BY <1>1, NothingUndone
<1>3. /\ \/ main' = main /\ up' = up
         \/ main = "probing" /\ main' = "detectors"
      /\ status' = status
  <2>1. CASE ArmNothing(d)
    <3>1. ~InStart(d)
      BY <2>1 DEF ArmNothing, InStart, StartIsOver
    <3> QED
      BY <2>1, <3>1 DEF ArmNothing
  <2>2. CASE ~ArmNothing(d)
    BY <2>2, ReturnTyped DEF ProbeStep, CheckRunning, SendProbes, MakeTimer,
                             ArmTimer, Fire, InStart
  <2> QED
    BY <2>1, <2>2
<1>4. ASSUME NEW e \in Names, round'[e] = "arm", round[e] = "arm" => handle[e] # "none"
      PROVE  handle'[e] # "none"
  <2>1. CASE MakeTimer(d)
    BY <1>4, <2>1 DEF MakeTimer, TypeOK
  <2>2. CASE ~MakeTimer(d)
    BY <1>4, <2>2 DEF ProbeStep, CheckRunning, SendProbes, ArmTimer, ArmNothing,
                      Fire, Leave, TypeOK
  <2> QED
    BY <2>1, <2>2
<1>5. StartIsOver'
  <2>1. main = "probing" => detectors[up] \in Names
    BY DEF TypeOK, PlaceInv
  <2>2. main' = "probing" /\ round'[detectors'[up']] = "arm" =>
            handle'[detectors'[up']] # "none"
    BY <1>1, <1>3, <1>4, <2>1 DEF StartIsOver
  <2>3. stopper' # "idle" => main' = IF host' = "cli" THEN "stopping" ELSE "wait"
    BY <1>1, <1>3 DEF StartIsOver
  <2>4. main' = "configure" => ~released'
    BY <1>1, <1>3 DEF StartIsOver
  <2> QED
    BY <2>2, <2>3, <2>4 DEF StartIsOver
<1>6. DoneAtTheEnd'
  <2>1. Quiesced => Quiesced'
    BY <1>1 DEF Quiesced
  <2> QED
    BY <1>1, <1>3, <2>1 DEF DoneAtTheEnd
<1> QED
  BY <1>2, <1>5, <1>6

\* Each step of stop() adds to what the steps before it have done.
LEMMA StopGraceful ==
    ASSUME TypeOK, PlaceInv, StartIsOver, DoneSoFar, DoneAtTheEnd, StopStep,
           ~raised'
    PROVE  StartIsOver' /\ DoneSoFar' /\ DoneAtTheEnd'
<1> USE DEF StopFrame, asked, serving
<1> DEFINE Waits == IF host = "cli" THEN "stopping" ELSE "wait"
<1>1. /\ UNCHANGED <<host, detectors, up, late, status>>
      /\ stopper # "idle" /\ main = Waits
      /\ Len(detectors) \in Nat /\ DOMAIN detectors = 1..Len(detectors)
  <2>1. stopper # "idle"
    BY DEF StopStep, Halt, StopSniffer, StopRaises, QuitDetector, CancelTimer,
           ForgetTimer, TellDashboard, JoinDashboard, CloseStore, Release
  <2>2. UNCHANGED <<host, detectors, up, late, status>>
    BY DEF StopStep, Halt, StopSniffer, StopRaises, QuitDetector, CancelTimer,
           ForgetTimer, TellDashboard, JoinDashboard, CloseStore, Release
  <2> QED
    BY <2>1, <2>2 DEF StartIsOver, TypeOK
<1>2. host \in {"cli", "service"} /\ (host = "service" => ~released /\ status # "running")
  BY <1>1 DEF DoneAtTheEnd, TypeOK
<1>3. ASSUME UNCHANGED <<main, released>>, stopper' # "idle"
      PROVE  StartIsOver' /\ DoneAtTheEnd'
  <2>1. main' = Waits /\ host' = host /\ (host = "service" => ~released')
    BY <1>1, <1>2, <1>3
  <2>2. main' \notin {"configure", "probing", "exited"}
    BY <1>2, <2>1
  <2> QED
    BY <1>1, <1>2, <2>1, <2>2 DEF StartIsOver, DoneAtTheEnd
<1>4. CASE Halt
  BY <1>3, <1>4 DEF Halt, DoneSoFar
<1>5. CASE StopSniffer
  <2>1. /\ halted' /\ sniffer' = "none" /\ stopper' = "quit" /\ down' = 1
        /\ UNCHANGED <<main, released>>
    BY <1>5 DEF StopSniffer, DoneSoFar
  <2>2. \A i \in DOMAIN detectors' : ~(i < down')
    BY <1>1, <2>1
  <2>3. DoneSoFar'
    BY <2>1, <2>2 DEF DoneSoFar
  <2> QED
    BY <1>3, <2>1, <2>3
<1>6. CASE StopRaises
  BY <1>6 DEF StopRaises
<1>7. CASE QuitDetector
  <2>1. /\ stopper' = "cancel" /\ down' = down /\ halted' /\ sniffer' = "none"
        /\ UNCHANGED <<main, released>>
        /\ running' = [running EXCEPT ![detectors[down]] = FALSE]
        /\ down \in DOMAIN detectors
    BY <1>1, <1>7 DEF QuitDetector, DoneSoFar, TypeOK
  <2>2. \A i \in DOMAIN detectors : detectors[i] \in Names
    BY DEF TypeOK
  <2>3. /\ \A i \in DOMAIN detectors : i < down => ~running'[detectors[i]]
        /\ ~running'[detectors[down]]
    BY <1>7, <2>1, <2>2 DEF QuitDetector, DoneSoFar, TypeOK
  <2>4. DoneSoFar'
    BY <1>1, <2>1, <2>3 DEF DoneSoFar
  <2> QED
    BY <1>3, <2>1, <2>4
<1>8. CASE CancelTimer
  <2>1. /\ stopper \in {"cancel", "forget"} /\ halted' /\ sniffer' = "none"
        /\ \/ stopper' = "quit" /\ down' = down + 1
           \/ stopper' = "forget" /\ down' = down
        /\ UNCHANGED <<main, released, running>>
    BY <1>8 DEF CancelTimer, DoneSoFar
  <2>2. \A i \in DOMAIN detectors : i <= down => ~running[detectors[i]]
    BY <1>1, <2>1 DEF DoneSoFar, TypeOK
  <2>3. /\ \A i \in DOMAIN detectors' : i < down' => ~running'[detectors'[i]]
        /\ stopper' = "forget" => ~running'[detectors'[down']]
    BY <1>1, <1>8, <2>1, <2>2 DEF DoneSoFar, TypeOK
  <2>4. DoneSoFar'
    BY <2>1, <2>3 DEF DoneSoFar
  <2> QED
    BY <1>3, <2>1, <2>4
<1>9. CASE ForgetTimer
  <2>1. /\ halted' /\ sniffer' = "none" /\ stopper' = "quit" /\ down' = down + 1
        /\ UNCHANGED <<main, released, running>>
    BY <1>9 DEF ForgetTimer, DoneSoFar
  <2>2. \A i \in DOMAIN detectors : i <= down => ~running[detectors[i]]
    BY <1>1, <1>9 DEF ForgetTimer, DoneSoFar, TypeOK
  <2>3. \A i \in DOMAIN detectors' : i < down' => ~running'[detectors'[i]]
    BY <1>1, <2>1, <2>2 DEF TypeOK
  <2>4. DoneSoFar'
    BY <2>1, <2>3 DEF DoneSoFar
  <2> QED
    BY <1>3, <2>1, <2>4
<1>10. CASE TellDashboard
  <2>1. \A d \in Names : ~running[d]
    <3>1. \A i \in DOMAIN detectors : i < down
      BY <1>1, <1>10 DEF TellDashboard, TypeOK
    <3> QED
      BY <1>10, <3>1 DEF TellDashboard, DoneSoFar, PlaceInv
  <2>2. /\ halted' /\ sniffer' = "none" /\ stopper' = "join"
        /\ dashboard' # "serving"
        /\ UNCHANGED <<main, released, running>>
    BY <1>10 DEF TellDashboard, DoneSoFar
  <2>3. DoneSoFar'
    BY <2>1, <2>2 DEF DoneSoFar
  <2> QED
    BY <1>3, <2>2, <2>3
<1>11. CASE JoinDashboard
  <2>1. DoneSoFar'
    BY <1>11 DEF JoinDashboard, DoneSoFar
  <2> QED
    BY <1>3, <1>11, <2>1 DEF JoinDashboard
<1>12. CASE CloseStore
  <2>1. Quiesced'
    BY <1>12 DEF CloseStore, DoneSoFar, Quiesced
  <2>2. CASE host = "cli"
    BY <1>1, <1>12, <2>1, <2>2, NothingToUndo
       DEF CloseStore, StartIsOver, DoneAtTheEnd
  <2>3. CASE host # "cli"
    <3>1. stopper' = "release" /\ UNCHANGED <<main, released>>
      BY <1>12, <2>3 DEF CloseStore
    <3>2. DoneSoFar'
      BY <2>1, <3>1 DEF DoneSoFar, Quiesced
    <3> QED
      BY <1>3, <3>1, <3>2
  <2> QED
    BY <2>2, <2>3
<1>13. CASE Release
  <2>1. Quiesced'
    BY <1>13 DEF Release, DoneSoFar, Quiesced
  <2>2. stopper' = "idle" /\ main' = main
    BY <1>13 DEF Release
  <2> QED
    BY <1>1, <1>2, <2>1, <2>2, NothingToUndo DEF StartIsOver, DoneAtTheEnd
<1> QED
  BY <1>4, <1>5, <1>6, <1>7, <1>8, <1>9, <1>10, <1>11, <1>12,
     <1>13 DEF StopStep

\* A signal or a control that is not early only starts a stop.
LEMMA RequestGraceful ==
    ASSUME TypeOK, PlaceInv, StartIsOver, DoneSoFar, DoneAtTheEnd,
           Signal \/ StopControl, ~early'
    PROVE  StartIsOver' /\ DoneSoFar' /\ DoneAtTheEnd'
<1> USE DEF probes, serving
<1>1. DoneSoFar'
  <2>1. CASE Signal
    BY <2>1, NothingUndone DEF Signal
  <2>2. CASE StopControl
    BY <2>2 DEF StopControl, DoneSoFar
  <2> QED
    BY <2>1, <2>2
<1>2. CASE Signal
  <2>1. /\ UNCHANGED <<host, stopper, up, detectors, round, handle, status>>
        /\ host = "cli"
        /\ \/ main = "configure" /\ main' = "exited" /\ released' = released
           \/ main \notin {"configure", "exited"} /\ main' = main
    BY <1>2 DEF Signal, Alive
  <2> QED
    BY <1>1, <2>1 DEF StartIsOver, DoneAtTheEnd
<1>3. CASE StopControl
  <2>1. /\ main = "wait" /\ main' = "wait" /\ host = "service" /\ host' = host
        /\ released' = released /\ status = "running" /\ status' = "stop_pending"
    BY <1>3 DEF StopControl
  <2> QED
    BY <1>1, <2>1 DEF StartIsOver, DoneAtTheEnd
<1> QED
  BY <1>2, <1>3

(***************************************************************************)
(* A stop that comes to a started program, and does not fail, ends it      *)
(* after the sniffer and every detector were stopped, the dashboard was    *)
(* told to exit and the store was closed, however the timers' threads and  *)
(* the dashboard's, which may outlast the wait for it, interleave with it. *)
(***************************************************************************)
THEOREM StopsAreGraceful == Spec => []StopIsGraceful
<1>1. Init => GraceInv
  BY DEF Init, GraceInv, StartIsOver, DoneSoFar, DoneAtTheEnd
<1>2. TypeOK /\ PlaceInv /\ GraceInv /\ [Next]_vars => GraceInv'
  <2> SUFFICES ASSUME TypeOK, PlaceInv, GraceInv, [Next]_vars, ~early', ~raised'
               PROVE  StartIsOver' /\ DoneSoFar' /\ DoneAtTheEnd'
    BY DEF GraceInv
  <2>1. ~early /\ ~raised
    <3>1. CASE MainStep
      BY <3>1 DEF MainStep, StartFails, Configure, StartDetector, CreateSniffer,
                  StartSniffer, StartNotifyThread, StartDashboard, ReportRunning,
                  WakeCli, WakeService, asked
    <3>2. CASE StopStep
      BY <3>2 DEF StopStep, Halt, StopSniffer, StopRaises, QuitDetector,
                  CancelTimer, ForgetTimer, TellDashboard, JoinDashboard,
                  CloseStore, Release, StopFrame, asked
    <3>3. CASE \E d \in Names : ProbeStep(d)
      BY <3>3 DEF ProbeStep, CheckRunning, SendProbes, MakeTimer, ArmTimer,
                  ArmNothing, Fire, ProbeFrame
    <3>4. CASE Signal \/ SnifferSettles \/ SnifferDies \/ DashboardEnds
               \/ UNCHANGED vars
      BY <3>4 DEF Signal, SnifferSettles, SnifferDies, SnifferFrame, DashboardEnds,
                  asked, vars
    <3>5. CASE StopControl
      BY <3>5 DEF StopControl
    <3> QED
      BY <3>1, <3>2, <3>3, <3>4, <3>5 DEF Next, Idle
  <2>2. StartIsOver /\ DoneSoFar /\ DoneAtTheEnd
    BY <2>1 DEF GraceInv
  <2>3. CASE SnifferSettles \/ SnifferDies
    <3>1. /\ UNCHANGED <<host, main, status, released, stopper, detectors, up,
                         down, running, round, handle, halted, dashboard, closed>>
          /\ sniffer # "none" /\ Alive
      BY <2>3 DEF SnifferSettles, SnifferDies, SnifferFrame, probes, serving, asked
    <3>2. stopper \notin {"quit", "cancel", "forget", "join", "store", "release"}
      BY <2>2, <3>1 DEF DoneSoFar
    <3>3. ~(host = "service" /\ released)
      BY <2>2, <3>1 DEF DoneAtTheEnd, Quiesced
    <3> QED
      BY <2>2, <3>1, <3>2, <3>3 DEF StartIsOver, DoneSoFar, DoneAtTheEnd, Alive
  <2>4. CASE UNCHANGED vars
    BY <2>2, <2>4 DEF vars, StartIsOver, DoneSoFar, DoneAtTheEnd, Quiesced
  \* A dashboard that has ended is no longer serving.
  <2>5. CASE DashboardEnds
    <3>1. /\ UNCHANGED <<host, main, status, released, stopper, detectors, up,
                         down, running, round, handle, sniffer, halted, closed>>
          /\ dashboard' = "off"
      BY <2>5 DEF DashboardEnds, probes, asked
    <3> QED
      BY <2>2, <3>1 DEF StartIsOver, DoneSoFar, DoneAtTheEnd, Quiesced
  <2> QED
    BY <2>2, <2>3, <2>4, <2>5, MainGraceful, StopGraceful, ProbeGraceful,
       RequestGraceful DEF Next, Idle
<1>3. GraceInv => StopIsGraceful
  BY DEF GraceInv, DoneAtTheEnd, Quiesced, StopIsGraceful, Alive
<1> QED
  BY <1>1, <1>2, <1>3, Placed, PTL DEF Spec
=============================================================================
