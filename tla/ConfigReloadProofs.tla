------------------------- MODULE ConfigReloadProofs -------------------------
(***************************************************************************)
(* ConfigReload for any number of workers, sources, settings and requests: *)
(* what can be said of the running configuration although the file is      *)
(* edited without any lock.                                                *)
(*                                                                         *)
(* The inductive invariant follows a configuration on its way from the     *)
(* file to the running program: a file that loads is one that was written, *)
(* a worker past load_config holds such a one, and the worker inside the   *)
(* lock has assigned the parts its stage says, all the others being equal. *)
(***************************************************************************)
EXTENDS ConfigReload, TLAPS

AtStage(w, stage) == job[w] # NoJob /\ job[w].at = stage

Loaded(w) == AtStage(w, "swap") \/ AtStage(w, "detectors") \/ AtStage(w, "notifiers")

WrittenInv ==
    /\ Loadable(file) => file \in written
    /\ \A w \in Workers : Loaded(w) => job[w].data \in written /\ Valid(job[w].data)
    /\ RunningWasWritten

LockInv ==
    /\ \A w \in Workers : AtStage(w, "detectors") => app = job[w].data
    /\ \A w \in Workers :
        AtStage(w, "notifiers") => app = job[w].data /\ detector = job[w].data
    /\ AppliedTogether

\* How far a worker that has the file to itself has taken what is expected.
Progress(w) ==
    /\ AtStage(w, "read") =>
        /\ expected = Edited(file, job[w].edit)
        /\ file \in Content /\ (Loadable(file) => InStep)
    /\ AtStage(w, "truncate") => job[w].data = expected
    /\ AtStage(w, "write") => job[w].data = expected /\ file = Empty
    /\ AtStage(w, "load") => file = expected
    /\ Loaded(w) => job[w].data = expected /\ file = expected
    /\ AtStage(w, "detectors") => app = expected
    /\ AtStage(w, "notifiers") => app = expected /\ detector = expected

Settled == file = expected /\ (Loadable(file) => InStep)

AddInv ==
    expected # Garbled =>
        /\ \A v, w \in Workers : Busy(v) /\ Busy(w) => v = w
        /\ ~alive => Quiet
        /\ Quiet => Settled
        /\ \A w \in Workers : Progress(w)

-----------------------------------------------------------------------------
\* A worker that has read the file has edited content; the two others have
\* a request or a form only.
LEMMA JobAtStage ==
    ASSUME TypeOK, NEW w \in Workers, job[w] # NoJob
    PROVE  /\ job[w].at = "form" => job[w] \in Form
           /\ job[w].at = "read" => job[w] \in Unread
           /\ job[w].at \notin {"form", "read"} => job[w] \in Job
<1>1. job[w] \in Job \cup Unread \cup Form
  BY DEF TypeOK
<1> QED
  BY <1>1 DEF Job, Unread, Form

\* An edit keeps the shape of what it edits.
LEMMA EditOfContent ==
    ASSUME NEW c \in Content, NEW e \in Edit
    PROVE  Edited(c, e) \in Content
<1>1. CASE e.kind = "add"
  <2>1. e.source \in Sources
    BY <1>1 DEF Edit
  <2> QED
    BY <1>1, <2>1 DEF Edited, Content
<1>2. CASE e.kind = "remove"
  BY <1>2 DEF Edited, Content
<1>3. CASE e.kind = "save"
  <2>1. e.list \in SUBSET Sources /\ e.setting \in Settings
    BY <1>3 DEF Edit
  <2> QED
    BY <1>3, <2>1 DEF Edited, Content
<1> QED
  BY <1>1, <1>2, <1>3 DEF Edit

\* An edit of a file's mapping is the content of a file.
LEMMA EditedContent ==
    ASSUME NEW f \in Content \cup {Empty}, NEW e \in Edit
    PROVE  Edited(Parsed(f), e) \in Content
<1>1. Parsed(f) \in Content
  BY DEF Parsed, Content
<1> QED
  BY <1>1, EditOfContent

\* What the requests ask for stays a content, or nothing definite.
LEMMA BeginExpected ==
    ASSUME TypeOK, NEW w \in Workers, NEW e \in Edit, Begin(w, e)
    PROVE  expected' \in Content \cup {Garbled}
BY EditOfContent DEF TypeOK, Begin

\* Moving a worker that holds edited content to another stage.
LEMMA GoToStage ==
    ASSUME TypeOK, NEW w \in Workers, job[w] # NoJob,
           job[w].at \notin {"form", "read"},
           NEW stage \in {"write", "load", "swap", "detectors", "notifiers"},
           GoTo(w, stage)
    PROVE  /\ job' \in [Workers -> Job \cup Unread \cup Form \cup {NoJob}]
           /\ job'[w] \in Job
           /\ job'[w] # NoJob
           /\ job'[w].at = stage
           /\ job'[w].data = job[w].data
           /\ \A v \in Workers : v # w => job'[v] = job[v]
<1>1. job[w] \in Job
  BY JobAtStage
<1>2. job \in [Workers -> Job \cup Unread \cup Form \cup {NoJob}]
  BY DEF TypeOK
<1>3. /\ job' = [job EXCEPT ![w] = [job[w] EXCEPT !.at = stage]]
      /\ [job[w] EXCEPT !.at = stage] \in Job
      /\ [job[w] EXCEPT !.at = stage].at = stage
      /\ [job[w] EXCEPT !.at = stage].data = job[w].data
  BY <1>1 DEF GoTo, Job
<1> QED
  BY <1>2, <1>3, NothingAssumption

\* A worker becoming idle, or beginning something else outside the lock.
LEMMA JobReplaced ==
    ASSUME TypeOK, NEW w \in Workers, NEW j \in Unread \cup Form \cup {NoJob},
           job' = [job EXCEPT ![w] = j]
    PROVE  /\ job' \in [Workers -> Job \cup Unread \cup Form \cup {NoJob}]
           /\ job'[w] = j
           /\ ~Swapping(w)'
           /\ \A v \in Workers : v # w => job'[v] = job[v]
<1>1. job \in [Workers -> Job \cup Unread \cup Form \cup {NoJob}]
  BY DEF TypeOK
<1> QED
  BY <1>1, NothingAssumption DEF Swapping, Unread, Form

\* The lock is free, or held by the worker inside the with statement.
LEMMA OneSwapping ==
    ASSUME TypeOK
    PROVE  /\ \A v \in Workers : Swapping(v) <=> lock = v
           /\ \A v, w \in Workers : Swapping(v) /\ Swapping(w) => v = w
           /\ lock = NoJob <=> \A v \in Workers : ~Swapping(v)
BY NothingAssumption DEF TypeOK

-----------------------------------------------------------------------------
\* What every part of TypeOK but the jobs and the lock says.
PartsOK ==
    /\ file \in Content \cup {Empty, Garbled}
    /\ app \in Content /\ detector \in Content /\ notifier \in Content
    /\ made \in 0..MaxRequests
    /\ alive \in BOOLEAN
    /\ written \subseteq Content
    /\ expected \in Content \cup {Garbled}

JobsOK ==
    /\ lock \in Workers \cup {NoJob}
    /\ job \in [Workers -> Job \cup Unread \cup Form \cup {NoJob}]
    /\ \A w \in Workers : lock = w <=> Swapping(w)

\* The steps of a request keep the types.
LEMMA ServeTypeOK ==
    ASSUME TypeOK, NEW w \in Workers, Serve(w)
    PROVE  TypeOK'
<1> USE DEF At, running, history
<1>0. PartsOK /\ JobsOK /\ (PartsOK' /\ JobsOK' => TypeOK')
  BY DEF TypeOK, PartsOK, JobsOK
<1>1. CASE ReadFails(w)
  <2>1. JobsOK'
    BY <1>1, <1>0, JobReplaced DEF ReadFails, JobsOK, Swapping
  <2> QED
    BY <1>1, <1>0, <2>1 DEF ReadFails, PartsOK
<1>2. CASE ReadNeedless(w)
  <2>1. JobsOK'
    BY <1>2, <1>0, JobReplaced DEF ReadNeedless, Answer, JobsOK, Swapping
  <2> QED
    BY <1>2, <1>0, <2>1 DEF ReadNeedless, PartsOK
<1>3. CASE Read(w)
  <2>1. job[w] \in Unread /\ file \in Content \cup {Empty}
    BY <1>3, <1>0, JobAtStage DEF Read, PartsOK
  <2>2. [ at |-> "truncate", edit |-> job[w].edit,
          data |-> Edited(Parsed(file), job[w].edit) ] \in Job
    BY <2>1, EditedContent DEF Job, Unread
  <2>3. JobsOK'
    BY <1>3, <1>0, <2>2 DEF Read, JobsOK, Swapping
  <2> QED
    BY <1>3, <1>0, <2>3 DEF Read, PartsOK
<1>4. CASE Truncate(w)
  <2>1. JobsOK'
    BY <1>4, <1>0, GoToStage DEF Truncate, JobsOK, Swapping
  <2> QED
    BY <1>4, <1>0, <2>1 DEF Truncate, PartsOK
<1>5. CASE Write(w)
  <2>1. JobsOK'
    BY <1>5, <1>0, GoToStage DEF Write, JobsOK, Swapping
  <2>2. job[w].data \in Content
    BY <1>5, JobAtStage DEF Write, Job
  <2>3. [job[w].data EXCEPT !.others = FALSE] \in Content
    BY <2>2 DEF Content
  <2> QED
    BY <1>5, <1>0, <2>1, <2>2, <2>3 DEF Write, PartsOK
<1>6. CASE Load(w)
  <2>1. job[w] \in Job /\ file \in Content
    BY <1>6, <1>0, JobAtStage DEF Load, Loadable, PartsOK
  <2>2. job' = [job EXCEPT ![w] = [job[w] EXCEPT !.at = "swap", !.data = file]]
    BY <1>6 DEF Load
  <2>3. [job[w] EXCEPT !.at = "swap", !.data = file] \in Job
    BY <2>1 DEF Job
  <2>4. [job[w] EXCEPT !.at = "swap", !.data = file].at = "swap"
    BY <2>1 DEF Job
  <2>5. JobsOK'
    BY <1>6, <1>0, <2>2, <2>3, <2>4 DEF Load, JobsOK, Swapping
  <2> QED
    BY <1>6, <1>0, <2>5 DEF Load, PartsOK
<1>7. CASE LoadFails(w)
  <2>1. JobsOK'
    BY <1>7, <1>0, JobReplaced DEF LoadFails, Answer, JobsOK, Swapping
  <2> QED
    BY <1>7, <1>0, <2>1 DEF LoadFails, PartsOK
<1>8. CASE Swap(w)
  <2>1. JobsOK'
    BY <1>8, <1>0, GoToStage, OneSwapping DEF Swap, JobsOK, Swapping
  <2>2. job[w].data \in Content
    BY <1>8, JobAtStage DEF Swap, Job
  <2> QED
    BY <1>8, <1>0, <2>1, <2>2 DEF Swap, PartsOK
<1>9. CASE SwapDetectors(w)
  <2>1. JobsOK'
    BY <1>9, <1>0, GoToStage, OneSwapping DEF SwapDetectors, JobsOK, Swapping
  <2>2. job[w].data \in Content
    BY <1>9, JobAtStage DEF SwapDetectors, Job
  <2> QED
    BY <1>9, <1>0, <2>1, <2>2 DEF SwapDetectors, PartsOK
<1>10. CASE SwapNotifiers(w)
  <2>1. JobsOK'
    BY <1>10, <1>0, JobReplaced, OneSwapping, NothingAssumption
       DEF SwapNotifiers, Answer, JobsOK, Swapping
  <2>2. job[w].data \in Content
    BY <1>10, JobAtStage DEF SwapNotifiers, Job
  <2> QED
    BY <1>10, <1>0, <2>1, <2>2 DEF SwapNotifiers, PartsOK
<1> QED
  BY <1>1, <1>2, <1>3, <1>4, <1>5, <1>6, <1>7, <1>8, <1>9, <1>10 DEF Serve

(***************************************************************************)
(* Every variable stays in its set, and the lock is held exactly by a      *)
(* worker inside the with statement of reload_config: by one at a time.    *)
(***************************************************************************)
THEOREM TypeCorrect == Spec => []TypeOK
<1>1. Init => TypeOK
  <2> SUFFICES ASSUME Init PROVE TypeOK
    OBVIOUS
  <2>1. PICK s \in GoodSettings :
            file = [list |-> {}, setting |-> s, others |-> TRUE]
    BY DEF Init
  <2>2. file \in Content
    BY <2>1 DEF Content, Settings
  <2> QED
    BY <2>2, ConfigAssumption, NothingAssumption DEF Init, TypeOK, Swapping
<1>2. TypeOK /\ [Next]_vars => TypeOK'
  <2> SUFFICES ASSUME TypeOK, [Next]_vars PROVE TypeOK'
    OBVIOUS
  <2> USE DEF running, history
  <2>0. PartsOK /\ JobsOK /\ (PartsOK' /\ JobsOK' => TypeOK') /\ MaxRequests \in Nat
    BY ConfigAssumption DEF TypeOK, PartsOK, JobsOK
  <2>1. ASSUME NEW w \in Workers, NEW kind \in {"add", "remove"}, NEW s \in Sources,
               Request(w, kind, s)
        PROVE  TypeOK'
    <3>1. [at |-> "read", edit |-> [kind |-> kind, source |-> s]] \in Unread
      BY DEF Unread, Edit
    <3>2. JobsOK'
      BY <2>0, <2>1, <3>1, JobReplaced DEF Request, Begin, JobsOK, Swapping
    <3>3. expected' \in Content \cup {Garbled}
      <4>1. [kind |-> kind, source |-> s] \in Edit
        BY DEF Edit
      <4> QED
        BY <2>1, <4>1, BeginExpected DEF Request
    <3> QED
      BY <2>0, <2>1, <3>2, <3>3 DEF Request, Begin, PartsOK
  <2>2. ASSUME NEW w \in Workers, OpenForm(w) PROVE TypeOK'
    <3>1. [at |-> "form", list |-> app.list] \in Form
      BY DEF TypeOK, Content, Form
    <3>2. JobsOK'
      BY <2>0, <2>2, <3>1, JobReplaced DEF OpenForm, JobsOK, Swapping
    <3> QED
      BY <2>0, <2>2, <3>2 DEF OpenForm, PartsOK
  <2>3. ASSUME NEW w \in Workers, NEW s \in Settings, PostForm(w, s) PROVE TypeOK'
    <3>1. job[w] \in Form
      BY <2>3, JobAtStage DEF PostForm, At
    <3>2. [kind |-> "save", list |-> job[w].list, setting |-> s] \in Edit
      BY <3>1 DEF Form, Edit
    <3>3. [at |-> "read", edit |-> [kind |-> "save", list |-> job[w].list,
                                    setting |-> s]] \in Unread
      BY <3>2 DEF Unread
    <3>4. JobsOK'
      BY <2>0, <2>3, <3>1, <3>3, JobReplaced
      DEF PostForm, At, Begin, JobsOK, Swapping
    <3>5. expected' \in Content \cup {Garbled}
      BY <2>3, <3>2, BeginExpected DEF PostForm
    <3> QED
      BY <2>0, <2>3, <3>4, <3>5 DEF PostForm, Begin, PartsOK
  <2>4. ASSUME NEW w \in Workers, Serve(w) PROVE TypeOK'
    BY <2>4, ServeTypeOK
  <2>5. CASE Crash
    BY <2>5 DEF Crash, TypeOK, Swapping
  <2>6. CASE Restart
    <3>1. file \in Content
      BY <2>6 DEF Restart, Loadable, TypeOK
    <3> QED
      BY <2>6, <3>1, NothingAssumption DEF Restart, TypeOK, Swapping
  <2>7. CASE UNCHANGED vars
    BY <2>7 DEF vars, TypeOK, Swapping
  <2> QED
    BY <2>1, <2>2, <2>3, <2>4, <2>5, <2>6, <2>7 DEF Next, Done
<1> QED
  BY <1>1, <1>2, PTL DEF Spec

-----------------------------------------------------------------------------
\* A step that puts worker w where it holds nothing loaded, and touches
\* neither the file nor the running configuration.
LEMMA WrittenKept ==
    ASSUME WrittenInv, NEW w \in Workers, ~Loaded(w)',
           \A v \in Workers : v # w => job'[v] = job[v],
           UNCHANGED <<app, detector, notifier>>, written \subseteq written',
           Loadable(file)' => file' \in written'
    PROVE  WrittenInv'
<1>1. ASSUME NEW v \in Workers, Loaded(v)'
      PROVE  job'[v].data \in written' /\ Valid(job'[v].data)
  BY <1>1 DEF WrittenInv, Loaded, AtStage
<1> QED
  BY <1>1 DEF WrittenInv, RunningWasWritten

\* The steps of a request keep the way of a configuration into the program.
LEMMA ServeWritten ==
    ASSUME TypeOK, WrittenInv, NEW w \in Workers, Serve(w)
    PROVE  WrittenInv'
<1> USE DEF At, running, history
<1>1. CASE ReadFails(w) \/ ReadNeedless(w) \/ LoadFails(w)
  BY <1>1, WrittenKept, JobReplaced
  DEF ReadFails, ReadNeedless, LoadFails, Answer, WrittenInv, Loaded, AtStage
<1>2. CASE Read(w)
  <2>1. /\ job'[w] # NoJob => job'[w].at = "truncate"
        /\ \A v \in Workers : v # w => job'[v] = job[v]
    BY <1>2 DEF Read, TypeOK
  <2> QED
    BY <1>2, <2>1, WrittenKept DEF Read, WrittenInv, Loaded, AtStage
<1>3. CASE Truncate(w)
  BY <1>3, WrittenKept, GoToStage
  DEF Truncate, WrittenInv, Loadable, Loaded, AtStage
<1>4. CASE Write(w)
  <2>1. [job[w].data EXCEPT !.others = FALSE].others = FALSE
    BY <1>4, JobAtStage DEF Write, Job, Content
  <2>2. Loadable(file)' => file' \in written'
    BY <1>4, <2>1 DEF Write, Loadable, Valid
  <2> QED
    BY <1>4, <2>2, WrittenKept, GoToStage DEF Write, WrittenInv, Loaded, AtStage
<1>5. CASE Load(w)
  <2>1. file \in written /\ Valid(file)
    BY <1>5 DEF Load, Loadable, WrittenInv
  <2>2. job'[w].data = file /\ \A v \in Workers : v # w => job'[v] = job[v]
    <3>1. job[w] \in Job
      BY <1>5, JobAtStage DEF Load
    <3> QED
      BY <1>5, <3>1 DEF Load, TypeOK, Job
  <2>3. ASSUME NEW v \in Workers, Loaded(v)'
        PROVE  job'[v].data \in written /\ Valid(job'[v].data)
    <3>1. CASE v = w
      BY <3>1, <2>1, <2>2
    <3>2. CASE v # w
      BY <3>2, <2>2, <2>3 DEF WrittenInv, Loaded, AtStage
    <3> QED
      BY <3>1, <3>2
  <2>4. UNCHANGED <<file, app, detector, notifier, written>>
    BY <1>5 DEF Load
  <2> QED
    BY <2>3, <2>4 DEF WrittenInv, RunningWasWritten
<1>6. CASE Swap(w) \/ SwapDetectors(w)
  <2>1. job[w].data \in written /\ Valid(job[w].data)
    BY <1>6 DEF Swap, SwapDetectors, WrittenInv, Loaded, AtStage
  <2>2. job'[w].data = job[w].data /\ \A v \in Workers : v # w => job'[v] = job[v]
    BY <1>6, GoToStage DEF Swap, SwapDetectors
  <2> QED
    BY <1>6, <2>1, <2>2
    DEF Swap, SwapDetectors, WrittenInv, RunningWasWritten, Loaded, AtStage
<1>7. CASE SwapNotifiers(w)
  <2>1. job[w].data \in written /\ Valid(job[w].data)
    BY <1>7 DEF SwapNotifiers, WrittenInv, Loaded, AtStage
  <2>2. job'[w] = NoJob /\ \A v \in Workers : v # w => job'[v] = job[v]
    BY <1>7, JobReplaced DEF SwapNotifiers, Answer
  <2> QED
    BY <1>7, <2>1, <2>2
    DEF SwapNotifiers, WrittenInv, RunningWasWritten, Loaded, AtStage
<1> QED
  BY <1>1, <1>2, <1>3, <1>4, <1>5, <1>6, <1>7 DEF Serve

(***************************************************************************)
(* However the workers interleave, crash or spoil the file, the program    *)
(* runs with a configuration that was written as a whole and validates.    *)
(***************************************************************************)
THEOREM RunningIsSound == Spec => []RunningWasWritten
<1>1. Init => WrittenInv
  <2> SUFFICES ASSUME Init PROVE WrittenInv
    OBVIOUS
  <2>1. file \in written /\ Valid(file)
    BY DEF Init, Valid
  <2> QED
    BY <2>1 DEF Init, WrittenInv, RunningWasWritten, Loaded, AtStage
<1>2. TypeOK /\ WrittenInv /\ [Next]_vars => WrittenInv'
  <2> SUFFICES ASSUME TypeOK, WrittenInv, [Next]_vars PROVE WrittenInv'
    OBVIOUS
  <2> USE DEF running, history
  <2>1. ASSUME NEW w \in Workers, NEW kind, NEW s, Request(w, kind, s)
        PROVE  WrittenInv'
    <3>1. job'[w].at = "read" /\ \A v \in Workers : v # w => job'[v] = job[v]
      BY <2>1 DEF Request, Begin, TypeOK
    <3> QED
      BY <2>1, <3>1, WrittenKept DEF Request, Begin, WrittenInv, Loaded, AtStage
  <2>2. ASSUME NEW w \in Workers, OpenForm(w) PROVE WrittenInv'
    <3>1. job'[w].at = "form" /\ \A v \in Workers : v # w => job'[v] = job[v]
      BY <2>2 DEF OpenForm, TypeOK
    <3> QED
      BY <2>2, <3>1, WrittenKept DEF OpenForm, WrittenInv, Loaded, AtStage
  <2>3. ASSUME NEW w \in Workers, NEW s, PostForm(w, s) PROVE WrittenInv'
    <3>1. job'[w].at = "read" /\ \A v \in Workers : v # w => job'[v] = job[v]
      BY <2>3 DEF PostForm, Begin, TypeOK
    <3> QED
      BY <2>3, <3>1, WrittenKept DEF PostForm, Begin, WrittenInv, Loaded, AtStage
  <2>4. ASSUME NEW w \in Workers, Serve(w) PROVE WrittenInv'
    BY <2>4, ServeWritten
  <2>5. CASE UNCHANGED <<file, app, detector, notifier, job, written>>
    BY <2>5 DEF WrittenInv, RunningWasWritten, Loaded, AtStage
  <2>6. CASE Restart
    BY <2>6 DEF Restart, Loadable, WrittenInv, RunningWasWritten, Loaded, AtStage
  <2> QED
    BY <2>1, <2>2, <2>3, <2>4, <2>5, <2>6 DEF Next, Crash, Done, vars
<1>3. WrittenInv => RunningWasWritten
  BY DEF WrittenInv
<1> QED
  BY <1>1, <1>2, <1>3, TypeCorrect, PTL DEF Spec

-----------------------------------------------------------------------------
\* A step outside the lock leaves its worker outside and the running
\* configuration alone.
LEMMA LockKept ==
    ASSUME TypeOK, LockInv, NEW w \in Workers,
           ~AtStage(w, "detectors")', ~AtStage(w, "notifiers")',
           \A v \in Workers : v # w => job'[v] = job[v],
           UNCHANGED <<app, detector, notifier, lock>>
    PROVE  LockInv'
BY DEF LockInv, AtStage, AppliedTogether

\* The steps of a request keep what the lock protects.
LEMMA ServeLocked ==
    ASSUME TypeOK, LockInv, NEW w \in Workers, Serve(w)
    PROVE  LockInv'
<1> USE DEF At, running, history
<1>1. CASE ReadFails(w) \/ ReadNeedless(w) \/ LoadFails(w)
  BY <1>1, LockKept, JobReplaced
  DEF ReadFails, ReadNeedless, LoadFails, Answer, AtStage
<1>2. CASE Read(w)
  <2>1. /\ job'[w] # NoJob => job'[w].at = "truncate"
        /\ \A v \in Workers : v # w => job'[v] = job[v]
    BY <1>2 DEF Read, TypeOK
  <2> QED
    BY <1>2, <2>1, LockKept DEF Read, AtStage
<1>3. CASE Truncate(w) \/ Write(w)
  BY <1>3, LockKept, GoToStage DEF Truncate, Write, AtStage
<1>4. CASE Load(w)
  <2>1. job'[w].at = "swap" /\ \A v \in Workers : v # w => job'[v] = job[v]
    <3>1. job[w] \in Job
      BY <1>4, JobAtStage DEF Load
    <3> QED
      BY <1>4, <3>1 DEF Load, TypeOK, Job
  <2> QED
    BY <1>4, <2>1, LockKept DEF Load, AtStage
<1>5. CASE Swap(w)
  <2>1. \A v \in Workers : ~Swapping(v)
    BY <1>5, OneSwapping DEF Swap
  <2>2. /\ job'[w].at = "detectors" /\ job'[w].data = job[w].data
        /\ \A v \in Workers : v # w => job'[v] = job[v]
    BY <1>5, GoToStage DEF Swap
  <2> QED
    BY <1>5, <2>1, <2>2, NothingAssumption
    DEF Swap, LockInv, AppliedTogether, AtStage, Swapping
<1>6. CASE SwapDetectors(w)
  <2>1. lock = w /\ \A v \in Workers : v # w => ~Swapping(v)
    BY <1>6, OneSwapping DEF SwapDetectors, Swapping
  <2>2. /\ job'[w].at = "notifiers" /\ job'[w].data = job[w].data
        /\ \A v \in Workers : v # w => job'[v] = job[v]
    BY <1>6, GoToStage DEF SwapDetectors
  <2>3. app = job[w].data
    BY <1>6 DEF SwapDetectors, LockInv, AtStage
  <2> QED
    BY <1>6, <2>1, <2>2, <2>3, NothingAssumption
    DEF SwapDetectors, LockInv, AppliedTogether, AtStage, Swapping
<1>7. CASE SwapNotifiers(w)
  <2>1. \A v \in Workers : v # w => ~Swapping(v)
    BY <1>7, OneSwapping DEF SwapNotifiers, Swapping
  <2>2. job'[w] = NoJob /\ \A v \in Workers : v # w => job'[v] = job[v]
    BY <1>7, JobReplaced DEF SwapNotifiers, Answer
  <2>3. app = job[w].data /\ detector = job[w].data
    BY <1>7 DEF SwapNotifiers, LockInv, AtStage
  <2> QED
    BY <1>7, <2>1, <2>2, <2>3
    DEF SwapNotifiers, LockInv, AppliedTogether, AtStage, Swapping
<1> QED
  BY <1>1, <1>2, <1>3, <1>4, <1>5, <1>6, <1>7 DEF Serve

(***************************************************************************)
(* Two reloads never mix: whenever _reload_lock is free, the detectors and *)
(* the notifiers run with the configuration the application reports.       *)
(***************************************************************************)
THEOREM ReloadsDoNotMix == Spec => []AppliedTogether
<1>1. Init => LockInv
  BY DEF Init, LockInv, AppliedTogether, AtStage
<1>2. TypeOK /\ LockInv /\ [Next]_vars => LockInv'
  <2> SUFFICES ASSUME TypeOK, LockInv, [Next]_vars PROVE LockInv'
    OBVIOUS
  <2> USE DEF running, history
  <2>1. ASSUME NEW w \in Workers, NEW kind, NEW s, Request(w, kind, s)
        PROVE  LockInv'
    <3>1. job'[w].at = "read" /\ \A v \in Workers : v # w => job'[v] = job[v]
      BY <2>1 DEF Request, Begin, TypeOK
    <3> QED
      BY <2>1, <3>1, LockKept DEF Request, AtStage
  <2>2. ASSUME NEW w \in Workers, OpenForm(w) PROVE LockInv'
    <3>1. job'[w].at = "form" /\ \A v \in Workers : v # w => job'[v] = job[v]
      BY <2>2 DEF OpenForm, TypeOK
    <3> QED
      BY <2>2, <3>1, LockKept DEF OpenForm, AtStage
  <2>3. ASSUME NEW w \in Workers, NEW s, PostForm(w, s) PROVE LockInv'
    <3>1. job'[w].at = "read" /\ \A v \in Workers : v # w => job'[v] = job[v]
      BY <2>3 DEF PostForm, Begin, TypeOK
    <3> QED
      BY <2>3, <3>1, LockKept DEF PostForm, AtStage
  <2>4. ASSUME NEW w \in Workers, Serve(w) PROVE LockInv'
    BY <2>4, ServeLocked
  <2>5. CASE UNCHANGED <<app, detector, notifier, lock, job>>
    BY <2>5 DEF LockInv, AppliedTogether, AtStage
  <2>6. CASE Restart
    BY <2>6 DEF Restart, LockInv, AppliedTogether, AtStage
  <2> QED
    BY <2>1, <2>2, <2>3, <2>4, <2>5, <2>6 DEF Next, Crash, Done, vars
<1>3. LockInv => AppliedTogether
  BY DEF LockInv
<1> QED
  BY <1>1, <1>2, <1>3, TypeCorrect, PTL DEF Spec

-----------------------------------------------------------------------------
\* An edit that is not needed changes nothing.
LEMMA NeedlessEdit ==
    ASSUME NEW c \in Content, NEW e \in Edit, Needless(c, e)
    PROVE  Edited(c, e) = c
<1>1. CASE e.kind = "add" /\ e.source \in c.list
  <2>1. c.list \cup {e.source} = c.list
    BY <1>1
  <2> QED
    BY <1>1, <2>1 DEF Edited, Content
<1>2. CASE e.kind = "remove" /\ e.source \notin c.list
  <2>1. c.list \ {e.source} = c.list
    BY <1>2
  <2> QED
    BY <1>2, <2>1 DEF Edited, Content
<1> QED
  BY <1>1, <1>2 DEF Needless

\* A step of the only busy worker, which goes on or is done.
LEMMA BusyStep ==
    ASSUME AddInv, expected # Garbled, expected' = expected, alive, alive' = alive,
           NEW w \in Workers, Busy(w),
           \A v \in Workers : v # w => job'[v] = job[v],
           \/ Busy(w)' /\ Progress(w)'
           \/ ~Busy(w)' /\ Settled'
    PROVE  AddInv'
<1>1. \A v \in Workers : v # w => ~Busy(v)'
  BY DEF AddInv, Busy
<1>2. \A v \in Workers : v # w => Progress(v)'
  BY <1>1 DEF Progress, Loaded, AtStage, Busy
<1>3. ~Busy(w)' => Progress(w)'
  BY DEF Progress, Loaded, AtStage, Busy
<1> QED
  BY <1>1, <1>2, <1>3 DEF AddInv, Quiet

\* The steps of a request take what is expected one stage on.
LEMMA ServeAdds ==
    ASSUME TypeOK, AddInv, NEW w \in Workers, Serve(w)
    PROVE  AddInv'
<1> USE DEF At, running, history
<1>1. expected' = expected /\ alive /\ alive' = alive
  BY DEF Serve, ReadFails, ReadNeedless, Read, Truncate, Write, Load, LoadFails,
         Swap, SwapDetectors, SwapNotifiers
<1>2. Busy(w)
  BY DEF Serve, ReadFails, ReadNeedless, Read, Truncate, Write, Load, LoadFails,
         Swap, SwapDetectors, SwapNotifiers, Busy
<1> SUFFICES ASSUME expected # Garbled PROVE AddInv'
  BY <1>1 DEF AddInv
<1>3. Progress(w) /\ expected \in Content
  BY DEF AddInv, TypeOK
<1>4. ~ReadFails(w)
  BY <1>3, NothingAssumption DEF ReadFails, Progress, AtStage
<1>5. CASE ReadNeedless(w)
  <2>1. file \in Content /\ job[w].edit \in Edit /\ Parsed(file) = file
    BY <1>3, <1>5, JobAtStage, NothingAssumption
    DEF ReadNeedless, Progress, AtStage, Unread, Parsed
  <2>2. Settled
    BY <1>3, <1>5, <2>1, NeedlessEdit DEF ReadNeedless, Progress, AtStage, Settled
  <2>3. job'[w] = NoJob /\ \A v \in Workers : v # w => job'[v] = job[v]
    BY <1>5, JobReplaced DEF ReadNeedless, Answer
  <2>4. Settled' /\ ~Busy(w)'
    BY <1>1, <1>5, <2>2, <2>3 DEF ReadNeedless, Settled, InStep, Busy
  <2> QED
    BY <1>1, <1>2, <2>3, <2>4, BusyStep
<1>6. CASE Read(w)
  <2>1. Parsed(file) = file /\ expected = Edited(file, job[w].edit)
    BY <1>3, <1>6, NothingAssumption DEF Read, Progress, AtStage, Parsed
  <2>2. [ at |-> "truncate", edit |-> job[w].edit,
          data |-> Edited(Parsed(file), job[w].edit) ] \in Job
    <3>1. job[w] \in Unread /\ file \in Content
      BY <1>3, <1>6, JobAtStage DEF Read, Progress, AtStage
    <3> QED
      BY <3>1, EditedContent DEF Job, Unread
  <2>3. /\ job'[w].at = "truncate" /\ job'[w].data = expected /\ job'[w] # NoJob
        /\ \A v \in Workers : v # w => job'[v] = job[v]
    BY <1>6, <2>1, <2>2, NothingAssumption DEF Read, TypeOK
  <2>4. Busy(w)' /\ Progress(w)'
    BY <1>1, <2>3 DEF Busy, Progress, Loaded, AtStage
  <2> QED
    BY <1>1, <1>2, <2>3, <2>4, BusyStep
<1>7. CASE Truncate(w)
  <2>1. /\ job'[w].at = "write" /\ job'[w].data = job[w].data /\ job'[w] # NoJob
        /\ \A v \in Workers : v # w => job'[v] = job[v]
    BY <1>7, GoToStage DEF Truncate
  <2>2. Busy(w)' /\ Progress(w)'
    BY <1>1, <1>3, <1>7, <2>1 DEF Truncate, Busy, Progress, Loaded, AtStage
  <2> QED
    BY <1>1, <1>2, <2>1, <2>2, BusyStep
<1>8. CASE Write(w)
  <2>1. /\ job'[w].at = "load" /\ job'[w] # NoJob
        /\ \A v \in Workers : v # w => job'[v] = job[v]
    BY <1>8, GoToStage DEF Write
  <2>2. file' = expected
    BY <1>3, <1>8 DEF Write, Progress, AtStage
  <2>3. Busy(w)' /\ Progress(w)'
    BY <1>1, <2>1, <2>2 DEF Busy, Progress, Loaded, AtStage
  <2> QED
    BY <1>1, <1>2, <2>1, <2>3, BusyStep
<1>9. CASE Load(w)
  <2>1. /\ job'[w].at = "swap" /\ job'[w].data = file /\ job'[w] # NoJob
        /\ \A v \in Workers : v # w => job'[v] = job[v]
    <3>1. job[w] \in Job /\ file \in Content
      BY <1>9, JobAtStage DEF Load, Loadable, TypeOK
    <3>2. [job[w] EXCEPT !.at = "swap", !.data = file] \in Job
      BY <3>1 DEF Job
    <3> QED
      BY <1>9, <3>1, <3>2, NothingAssumption DEF Load, TypeOK, Job
  <2>2. Busy(w)' /\ Progress(w)'
    BY <1>1, <1>3, <1>9, <2>1 DEF Load, Busy, Progress, Loaded, AtStage
  <2> QED
    BY <1>1, <1>2, <2>1, <2>2, BusyStep
<1>10. CASE LoadFails(w)
  <2>1. job'[w] = NoJob /\ \A v \in Workers : v # w => job'[v] = job[v]
    BY <1>10, JobReplaced DEF LoadFails, Answer
  <2>2. ~Busy(w)' /\ Settled'
    BY <1>1, <1>3, <1>10, <2>1 DEF LoadFails, Busy, Settled, Progress, AtStage
  <2> QED
    BY <1>1, <1>2, <2>1, <2>2, BusyStep
<1>11. CASE Swap(w)
  <2>1. /\ job'[w].at = "detectors" /\ job'[w].data = job[w].data /\ job'[w] # NoJob
        /\ \A v \in Workers : v # w => job'[v] = job[v]
    BY <1>11, GoToStage DEF Swap
  <2>2. Busy(w)' /\ Progress(w)'
    BY <1>1, <1>3, <1>11, <2>1 DEF Swap, Busy, Progress, Loaded, AtStage
  <2> QED
    BY <1>1, <1>2, <2>1, <2>2, BusyStep
<1>12. CASE SwapDetectors(w)
  <2>1. /\ job'[w].at = "notifiers" /\ job'[w].data = job[w].data /\ job'[w] # NoJob
        /\ \A v \in Workers : v # w => job'[v] = job[v]
    BY <1>12, GoToStage DEF SwapDetectors
  <2>2. Busy(w)' /\ Progress(w)'
    BY <1>1, <1>3, <1>12, <2>1 DEF SwapDetectors, Busy, Progress, Loaded, AtStage
  <2> QED
    BY <1>1, <1>2, <2>1, <2>2, BusyStep
<1>13. CASE SwapNotifiers(w)
  <2>1. job'[w] = NoJob /\ \A v \in Workers : v # w => job'[v] = job[v]
    BY <1>13, JobReplaced DEF SwapNotifiers, Answer
  <2>2. ~Busy(w)' /\ Settled'
    BY <1>1, <1>3, <1>13, <2>1
    DEF SwapNotifiers, Busy, Settled, InStep, Progress, Loaded, AtStage
  <2> QED
    BY <1>1, <1>2, <2>1, <2>2, BusyStep
<1> QED
  BY <1>4, <1>5, <1>6, <1>7, <1>8, <1>9, <1>10, <1>11, <1>12, <1>13 DEF Serve

\* A request begins: what is expected is its edit of the file.
LEMMA BeginAdds ==
    ASSUME TypeOK, AddInv, NEW w \in Workers, ~Busy(w), NEW e \in Edit, Begin(w, e),
           alive, alive' = alive, UNCHANGED <<file, app, detector, notifier>>
    PROVE  AddInv'
<1> SUFFICES ASSUME expected' # Garbled PROVE AddInv'
  BY DEF AddInv
<1>1. /\ expected # Garbled /\ expected' = Edited(expected, e)
      /\ \A v \in Workers : ~Busy(v)
  BY DEF Begin
<1>2. /\ job'[w].at = "read" /\ job'[w].edit = e /\ job'[w] # NoJob
      /\ \A v \in Workers : v # w => job'[v] = job[v]
  <2>1. [at |-> "read", edit |-> e] \in Unread
    BY DEF Unread
  <2> QED
    BY <2>1, NothingAssumption DEF Begin, TypeOK
<1>3. file = expected /\ file \in Content /\ (Loadable(file) => InStep)
  BY <1>1 DEF AddInv, Settled, Quiet, TypeOK
<1>4. \A v \in Workers : v # w => ~Busy(v)'
  BY <1>1, <1>2 DEF Busy
<1>5. \A v \in Workers : v # w => Progress(v)'
  BY <1>4 DEF Progress, Loaded, AtStage, Busy
<1>6. Busy(w)' /\ Progress(w)'
  BY <1>1, <1>2, <1>3 DEF Progress, Loaded, AtStage, Busy, InStep
<1> QED
  BY <1>4, <1>5, <1>6 DEF AddInv, Quiet

(***************************************************************************)
(* Requests that do not overlap add up in the file and in what runs,       *)
(* whichever workers serve them and however often the process is restarted *)
(* between them.                                                           *)
(***************************************************************************)
THEOREM SequentialRequestsAddUp == Spec => []RequestsAddUp
<1>1. Init => AddInv
  BY DEF Init, AddInv, Settled, InStep, Busy, Quiet, Progress, Loaded, AtStage
<1>2. TypeOK /\ AddInv /\ [Next]_vars => AddInv'
  <2> SUFFICES ASSUME TypeOK, AddInv, [Next]_vars PROVE AddInv'
    OBVIOUS
  <2> USE DEF running, history
  <2>1. ASSUME NEW w \in Workers, NEW kind \in {"add", "remove"}, NEW s \in Sources,
               Request(w, kind, s)
        PROVE  AddInv'
    <3>1. [kind |-> kind, source |-> s] \in Edit
      BY DEF Edit
    <3> QED
      BY <2>1, <3>1, BeginAdds DEF Request, Busy
  <2>2. ASSUME NEW w \in Workers, OpenForm(w) PROVE AddInv'
    <3>1. job'[w].at = "form" /\ \A v \in Workers : v # w => job'[v] = job[v]
      BY <2>2 DEF OpenForm, TypeOK
    <3>2. ~Busy(w) /\ \A v \in Workers : Busy(v)' <=> Busy(v)
      BY <2>2, <3>1 DEF OpenForm, Busy
    <3>3. UNCHANGED <<file, app, detector, notifier, alive, expected>>
      BY <2>2 DEF OpenForm
    <3>4. \A v \in Workers : Progress(v) => Progress(v)'
      BY <3>1, <3>3 DEF Progress, Loaded, AtStage, InStep
    <3> QED
      BY <3>2, <3>3, <3>4 DEF AddInv, Quiet, Settled, InStep
  <2>3. ASSUME NEW w \in Workers, NEW s \in Settings, PostForm(w, s) PROVE AddInv'
    <3>1. job[w] \in Form
      BY <2>3, JobAtStage DEF PostForm, At
    <3>2. [kind |-> "save", list |-> job[w].list, setting |-> s] \in Edit
      BY <3>1 DEF Form, Edit
    <3> QED
      BY <2>3, <3>2, BeginAdds DEF PostForm, At, Busy
  <2>4. ASSUME NEW w \in Workers, Serve(w) PROVE AddInv'
    BY <2>4, ServeAdds
  <2>5. CASE Crash
    <3>1. UNCHANGED <<file, app, detector, notifier, job>>
      BY <2>5 DEF Crash
    <3>2. expected' # Garbled => expected' = expected /\ Quiet
      BY <2>5 DEF Crash
    <3> QED
      BY <3>1, <3>2
      DEF AddInv, Settled, InStep, Busy, Quiet, Progress, Loaded, AtStage
  <2>6. CASE Restart
    <3>1. /\ job' = [v \in Workers |-> NoJob] /\ file' = file /\ expected' = expected
          /\ app' = file /\ detector' = file /\ notifier' = file /\ alive'
      BY <2>6 DEF Restart
    <3>2. expected # Garbled => file = expected
      BY <2>6 DEF Restart, AddInv, Settled
    <3> QED
      BY <3>1, <3>2
      DEF AddInv, Settled, InStep, Busy, Quiet, Progress, Loaded, AtStage
  <2>7. CASE UNCHANGED vars
    BY <2>7 DEF vars, AddInv, Settled, InStep, Busy, Quiet, Progress, Loaded, AtStage
  <2> QED
    BY <2>1, <2>2, <2>3, <2>4, <2>5, <2>6, <2>7 DEF Next, Done
<1>3. AddInv => RequestsAddUp
  BY DEF AddInv, RequestsAddUp, Settled
<1> QED
  BY <1>1, <1>2, <1>3, TypeCorrect, PTL DEF Spec
=============================================================================
