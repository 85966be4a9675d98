---------------------------- MODULE ConfigReload ----------------------------
(***************************************************************************)
(* How the dashboard edits config.yaml and hot-reloads it: the POST routes *)
(* of dashboard/routes/{alerts,whitelist,settings}.py, the file helpers of *)
(* dashboard/config_io.py, and load_config and reload_config behind them.  *)
(*                                                                         *)
(* FastAPI runs each route in a worker thread.  Every worker reads the     *)
(* whole file, edits what it read, truncates the file, writes it, and      *)
(* reloads it; only the last part, the assignments of reload_config, is    *)
(* under a lock.  The file is one write(2) long: safe_dump's output fits   *)
(* the buffer of the file object and reaches the file when it is closed.   *)
(***************************************************************************)
EXTENDS Naturals

CONSTANTS
    Workers,        \* threads that can be serving a request
    Sources,        \* addresses an authorized_* list may hold
    GoodSettings,   \* values of the other editable fields that validate
    BadSettings,    \* values that do not (a malformed MAC, say)
    Kinds,          \* the kinds of request made
    MaxRequests,    \* bound: requests made in all
    CanCrash,       \* the process may be killed
    Empty,          \* the file just truncated
    Garbled,        \* the file is not YAML
    NoJob           \* the worker is idle

Settings == GoodSettings \cup BadSettings

\* No value for the editable fields: the mapping an empty file gives.
Unset == "unset"

ASSUME ConfigAssumption ==
    /\ Kinds \subseteq {"add", "remove", "save"}
    /\ MaxRequests \in Nat
    /\ CanCrash \in BOOLEAN
    /\ GoodSettings \cap BadSettings = {}
    /\ Unset \notin Settings
    /\ GoodSettings # {}

(***************************************************************************)
(* What config.yaml says: the authorized list, the other fields the        *)
(* settings page edits, and whether the fields no route knows about are as *)
(* they should be: some of them are required, and PoisonHoundConfig, a     *)
(* BaseSettings, forbids unknown ones at the top.                          *)
(***************************************************************************)
Content == [ list : SUBSET Sources, setting : Settings \cup {Unset},
             others : BOOLEAN ]

VARIABLES
    file,       \* config.yaml
    app,        \* PoisonHoundApp.config
    detector,   \* the .config of the running detectors
    notifier,   \* the .config of the running SmtpNotifier
    lock,       \* the worker holding _reload_lock, or NoJob
    job,        \* worker |-> what it is doing
    made,       \* how many requests were made
    alive,      \* the process runs
    written,    \* history: every content a worker meant the file to have
    expected    \* history: what the requests ask for one after the other, or
                \* Garbled once two overlapped or one was cut off

vars == <<file, app, detector, notifier, lock, job, made, alive, written,
          expected>>

running == <<app, detector, notifier>>
history == <<written, expected>>

Edit == [kind : {"add", "remove"}, source : Sources]
        \cup [kind : {"save"}, list : SUBSET Sources, setting : Settings]

Form == [at : {"form"}, list : SUBSET Sources]

Unread == [at : {"read"}, edit : Edit]

Job == [ at : {"truncate", "write", "load", "swap", "detectors",
               "notifiers"},
         edit : Edit, data : Content ]

ASSUME NothingAssumption ==
    /\ Empty # Garbled /\ {Empty, Garbled} \cap Content = {}
    /\ NoJob \notin Workers \cup Job \cup Unread \cup Form

\* Inside the with statement of reload_config().
Swapping(w) == job[w] # NoJob /\ job[w].at \in {"detectors", "notifiers"}

TypeOK ==
    /\ file \in Content \cup {Empty, Garbled}
    /\ app \in Content /\ detector \in Content /\ notifier \in Content
    /\ lock \in Workers \cup {NoJob}
    /\ job \in [Workers -> Job \cup Unread \cup Form \cup {NoJob}]
    /\ \A w \in Workers : lock = w <=> Swapping(w)
    /\ made \in 0..MaxRequests
    /\ alive \in BOOLEAN
    /\ written \subseteq Content
    /\ expected \in Content \cup {Garbled}

Busy(w) == job[w] # NoJob /\ job[w].at # "form"

Quiet == \A w \in Workers : ~Busy(w)

Valid(c) == c.others /\ c.setting \in GoodSettings

\* The program starts from a file that validates.
Init ==
    /\ \E s \in GoodSettings :
        file = [list |-> {}, setting |-> s, others |-> TRUE]
    /\ app = file /\ detector = file /\ notifier = file
    /\ lock = NoJob
    /\ job = [w \in Workers |-> NoJob]
    /\ made = 0
    /\ alive = TRUE
    /\ written = {file}
    /\ expected = file

-----------------------------------------------------------------------------
\* yaml.safe_load(f) or {}
Parsed(f) ==
    IF f = Empty THEN [list |-> {}, setting |-> Unset, others |-> FALSE] ELSE f

\* A mistake for the checks to catch: the fields are not validated.
LoadableUnvalidated(f) == f \notin {Empty, Garbled}

\* load_config() gives a PoisonHoundConfig rather than a ConfigError.
Loadable(f) == f \notin {Empty, Garbled} /\ Valid(f)

Edited(c, e) ==
    CASE e.kind = "add"    -> [c EXCEPT !.list = @ \cup {e.source}]
      [] e.kind = "remove" -> [c EXCEPT !.list = @ \ {e.source}]
      [] e.kind = "save"   -> [c EXCEPT !.list = e.list, !.setting = e.setting]

\* The whitelist routes write only when the entry is not yet there, or is.
Needless(c, e) ==
    \/ e.kind = "add" /\ e.source \in c.list
    \/ e.kind = "remove" /\ e.source \notin c.list

-----------------------------------------------------------------------------
(* More mistakes a change to this code could make.                         *)

At(w, stage) == alive /\ job[w] # NoJob /\ job[w].at = stage

ReadRunning(w) ==
    /\ At(w, "read")
    /\ file # Garbled
    /\ ~Needless(Parsed(file), job[w].edit)
    /\ job' = [job EXCEPT ![w] =
                [ at |-> "truncate", edit |-> job[w].edit,
                  data |-> Edited(app, job[w].edit) ]]
    /\ UNCHANGED <<file, running, lock, made, alive, history>>

SwapUnlocked(w) ==
    /\ At(w, "swap")
    /\ app' = job[w].data
    /\ job' = [job EXCEPT ![w].at = "detectors"]
    /\ UNCHANGED <<file, detector, notifier, lock, made, alive, history>>

SwapNotifiersKeepingLock(w) ==
    /\ At(w, "notifiers")
    /\ notifier' = job[w].data
    /\ job' = [job EXCEPT ![w] = NoJob]
    /\ UNCHANGED <<file, app, detector, lock, made, alive, history>>

-----------------------------------------------------------------------------
GoTo(w, stage) == job' = [job EXCEPT ![w].at = stage]

\* The response is sent, whether the reload succeeded or not.
Answer(w) == job' = [job EXCEPT ![w] = NoJob]

\* A request comes in.
Begin(w, e) ==
    /\ job' = [job EXCEPT ![w] = [at |-> "read", edit |-> e]]
    /\ expected' = IF expected # Garbled /\ \A v \in Workers \ {w} : ~Busy(v)
                   THEN Edited(expected, e) ELSE Garbled
    /\ UNCHANGED written

\* POST /alerts/{id}/whitelist and POST /whitelist/remove.
Request(w, kind, source) ==
    /\ alive
    /\ kind \in Kinds
    /\ job[w] = NoJob
    /\ made < MaxRequests
    /\ made' = made + 1
    /\ Begin(w, [kind |-> kind, source |-> source])
    /\ UNCHANGED <<file, running, lock, alive>>

\* GET /settings renders the running configuration into a form.
OpenForm(w) ==
    /\ alive
    /\ "save" \in Kinds
    /\ job[w] = NoJob
    /\ made < MaxRequests
    /\ made' = made + 1
    /\ job' = [job EXCEPT ![w] = [at |-> "form", list |-> app.list]]
    /\ UNCHANGED <<file, running, lock, alive, history>>

\* POST /settings sends every field of the form, the lists as rendered.
PostForm(w, setting) ==
    /\ At(w, "form")
    /\ Begin(w, [kind |-> "save", list |-> job[w].list, setting |-> setting])
    /\ UNCHANGED <<file, running, lock, made, alive>>

\* read_raw_config() raises: the request fails with nothing done.
ReadFails(w) ==
    /\ At(w, "read")
    /\ file = Garbled
    /\ job' = [job EXCEPT ![w] = NoJob]
    /\ UNCHANGED <<file, running, lock, made, alive, history>>

ReadNeedless(w) ==
    /\ At(w, "read")
    /\ file # Garbled
    /\ Needless(Parsed(file), job[w].edit)
    /\ Answer(w)
    /\ UNCHANGED <<file, running, lock, made, alive, history>>

Read(w) ==
    /\ At(w, "read")
    /\ file # Garbled
    /\ ~Needless(Parsed(file), job[w].edit)
    /\ job' = [job EXCEPT ![w] =
                [ at |-> "truncate", edit |-> job[w].edit,
                  data |-> Edited(Parsed(file), job[w].edit) ]]
    /\ UNCHANGED <<file, running, lock, made, alive, history>>

\* open(path, "w")
Truncate(w) ==
    /\ At(w, "truncate")
    /\ file' = Empty
    /\ GoTo(w, "write")
    /\ UNCHANGED <<running, lock, made, alive, history>>

\* The buffer is written from offset 0.  Where another worker's content got
\* there first, what is longer of it sticks out behind: no YAML any more, or
\* a field nobody knows, or lines the file has already.  The last section of
\* config.example.yaml is one no route edits, and is longer than what sticks
\* out.
Write(w) ==
    /\ At(w, "write")
    /\ file' \in IF file = Empty THEN {job[w].data}
                 ELSE {job[w].data, [job[w].data EXCEPT !.others = FALSE], Garbled}
    /\ written' = written \cup {job[w].data}
    /\ GoTo(w, "load")
    /\ UNCHANGED <<running, lock, made, alive, expected>>

\* reload_config() starts with load_config(), which takes no lock.
Load(w) ==
    /\ At(w, "load")
    /\ Loadable(file)
    /\ job' = [job EXCEPT ![w].at = "swap", ![w].data = file]
    /\ UNCHANGED <<file, running, lock, made, alive, history>>

\* load_config() raises; the route logs it and answers as ever.
LoadFails(w) ==
    /\ At(w, "load")
    /\ ~Loadable(file)
    /\ Answer(w)
    /\ UNCHANGED <<file, running, lock, made, alive, history>>

\* with self._reload_lock: self.config = new_config
Swap(w) ==
    /\ At(w, "swap")
    /\ lock = NoJob
    /\ lock' = w
    /\ app' = job[w].data
    /\ GoTo(w, "detectors")
    /\ UNCHANGED <<file, detector, notifier, made, alive, history>>

\* detector.config = ...
SwapDetectors(w) ==
    /\ At(w, "detectors")
    /\ detector' = job[w].data
    /\ GoTo(w, "notifiers")
    /\ UNCHANGED <<file, app, notifier, lock, made, alive, history>>

\* notifier.config = ..., and the lock is released.
SwapNotifiers(w) ==
    /\ At(w, "notifiers")
    /\ notifier' = job[w].data
    /\ lock' = NoJob
    /\ Answer(w)
    /\ UNCHANGED <<file, app, detector, made, alive, history>>

\* The process is killed, with what its workers were doing.
Crash ==
    /\ CanCrash
    /\ alive
    /\ alive' = FALSE
    /\ expected' = IF Quiet THEN expected ELSE Garbled
    /\ UNCHANGED <<file, running, lock, job, made, written>>

\* The next process starts from the file, if it validates.
Restart ==
    /\ ~alive
    /\ Loadable(file)
    /\ alive' = TRUE
    /\ app' = file /\ detector' = file /\ notifier' = file
    /\ lock' = NoJob
    /\ job' = [w \in Workers |-> NoJob]
    /\ UNCHANGED <<file, made, history>>

\* One step of a request already made.
Serve(w) ==
    \/ ReadFails(w) \/ ReadNeedless(w) \/ Read(w)
    \/ Truncate(w) \/ Write(w)
    \/ Load(w) \/ LoadFails(w)
    \/ Swap(w) \/ SwapDetectors(w) \/ SwapNotifiers(w)

Done ==
    /\ \/ ~alive
       \/ made = MaxRequests /\ \A w \in Workers : job[w] = NoJob
    /\ UNCHANGED vars

Next ==
    \/ \E w \in Workers, kind \in {"add", "remove"}, s \in Sources :
        Request(w, kind, s)
    \/ \E w \in Workers : OpenForm(w)
    \/ \E w \in Workers, s \in Settings : PostForm(w, s)
    \/ \E w \in Workers : Serve(w)
    \/ Crash \/ Restart
    \/ Done

(***************************************************************************)
(* A worker goes on with its request while the process lives.  Nobody has  *)
(* to make a request or to post an open form.                              *)
(***************************************************************************)
Fairness == \A w \in Workers : WF_vars(Serve(w))

Spec == Init /\ [][Next]_vars /\ Fairness

-----------------------------------------------------------------------------
InStep == app = file /\ detector = file /\ notifier = file

(***************************************************************************)
(* The running configuration is always one that a request wrote as a whole *)
(* and that validates: workers that read each other's half-done writes can *)
(* spoil the file, but what they leave there never reaches the detectors.  *)
(***************************************************************************)
RunningWasWritten ==
    \A c \in {app, detector, notifier} : c \in written /\ Valid(c)

(***************************************************************************)
(* Requests served one after the other add up: when none is under way, the *)
(* file is the first one with every edit made since, also those whose      *)
(* reload failed, and what runs is the file if it validates.  The requests *)
(* may come from any worker, and the process be restarted between them.    *)
(***************************************************************************)
RequestsAddUp ==
    alive /\ Quiet /\ expected # Garbled =>
        file = expected /\ (Loadable(file) => InStep)

(***************************************************************************)
(* The lock of reload_config makes its assignments one step for the other  *)
(* reloads: whenever it is free, detectors and notifiers have the          *)
(* configuration the application reports.                                  *)
(***************************************************************************)
AppliedTogether == lock = NoJob => detector = app /\ notifier = app

\* Every request is answered, whatever the others do to the file.
EveryRequestIsAnswered ==
    \A w \in Workers :
        (job[w] # NoJob /\ job[w].at = "read") ~> (job[w] = NoJob \/ ~alive)

-----------------------------------------------------------------------------
(***************************************************************************)
(* README: saving "writes config.yaml and hot-reloads the change into the  *)
(* running detectors".  load_config runs before the lock is taken, so a    *)
(* worker that loaded an older file can apply it last.                     *)
(***************************************************************************)
ReloadsCatchUp == Quiet /\ Loadable(file) => InStep
=============================================================================
