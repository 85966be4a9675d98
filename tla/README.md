# PoisonHound in TLA+

PoisonHound is a sensor for LAN poisoning: it sniffs packets, its detectors
raise alerts, and the alerts go to a log, to mail and to a small web dashboard,
which also edits the configuration and reloads it into the running program.
This directory models that program in TLA+, checks the models with TLC and
proves part of what they show with TLAPS.  File names below are relative to
`src/src/poisonhound/` unless they begin with `src/`.

- [The system](#the-system)
- [Modules and the code they model](#modules-and-the-code-they-model)
- [Runs: what is checked](#runs-what-is-checked)
- [Bounds](#bounds) and [Fairness](#fairness)
- [Theorems: what is proved](#theorems-what-is-proved)
- [Disagreements between code and documentation](#disagreements-between-code-and-documentation)
- [What is not modelled](#what-is-not-modelled)
- [Plan](#plan)

## The system

| Component | State it keeps | Operations | Threads | Modelled in |
|---|---|---|---|---|
| Alert model, `core/alert.py` | the alert: key, severity, stamps, count | build, compare severities | all | `Alerts` |
| Rate limiter, `core/rate_limiter.py` | one `_DedupeState` per `dedup_key`, the window | `process`, `set_window` | notify; dashboard | `AlertDeduper` |
| Alert store, `dashboard/store.py` | one SQLite row per `dedup_key` | `insert_or_update`, three queries, `close` | notify; dashboard; main | `AlertStore` |
| Pipeline, `app.py`, `core/notifier.py`, `notifiers/smtp_notifier.py` | the queue, the stop event, the notifiers | `emit`, `_notify_loop`, `_process_alert`, `run`, `stop`, `reload_config` | sniffer, notify, dashboard, main | `AlertPipeline`, abstractly `AlertDelivery` |
| Configuration, `dashboard/config_io.py`, `dashboard/routes/*.py`, `core/config_loader.py`, `core/config.py` | `config.yaml`, the configuration in the application, the detectors and the notifiers, `_reload_lock` | three POST routes and the settings form | dashboard workers | `ConfigReload` |
| ARP detector, `detectors/arp_spoof.py`, `core/dispatcher.py`, `core/mac_directory.py`, with gateway detection, `net/gateway.py` | baseline MAC, resolved gateway, MAC directory | construction, `dispatch`, `handle_packet`, a reload of its configuration | main; sniffer; dashboard | `ArpSpoof`, `Gateway` |
| DHCP and IPv6 detectors, `detectors/rogue_dhcp.py`, `detectors/ipv6_rogue_ra.py`, with the pages on their lists | three authorized lists, `_warned_no_whitelist`, `_running`, `_probe_timer` | `handle_packet`, one-click whitelisting, removal, editing; `start`, `stop`, `_schedule_probe` | sniffer; dashboard; main, timer | `Whitelists`; `ServiceLifecycle` |
| Name-resolution canary, `detectors/name_resolution_canary.py`, `net/canary_names.py`, `core/state_store.py` | seed file, canary names, `_running`, `_probe_timer` | `get_or_create_seed`, `_send_probes`, `handle_packet`; `start`, `stop`, `_schedule_probe` | main; timer; sniffer | `NameCanary`; `ServiceLifecycle` |
| Registry and lifecycle, `core/registry.py`, `core/detector.py`; command line and Windows service, `cli.py`, `win_service.py` | the detectors, the sniffer, the application, signal handlers, the service's status and event | `build_enabled_detectors`, `main`, `SvcDoRun`, `SvcStop` around `run` and `stop` | main, timer, service control | `ServiceLifecycle` |
| Dashboard application, login, health; webhook stub; vendor lookup and evidence | a session cookie; none; none | request handling, formatting | dashboard | no |

How they interact.  The sniffer thread hands each packet to the dispatcher,
which lets the MAC directory learn from its IP header and passes it to every
detector.  A detector that fires calls `emit`, which is `put` on a queue.  The
notify thread takes one alert at a time, offers it to the store, asks the
deduper whether to go on, and sends it to the console and to mail; every one of
these calls may raise, and the loop goes on.  FastAPI runs each dashboard
request in a worker thread: it reads the store, or it rewrites `config.yaml` and
calls `reload_config`, which assigns new configurations into the deduper, the
detectors and the notifiers while the other threads use them.  The main thread
starts all this, waits for a signal, and stops it; as a Windows service it is
stopped from another thread, that of the service control dispatcher, at any time.
Two detectors probe: a timer's thread sends a round and makes the next timer.

What is hard in it, and the property that makes each component correct:

- *Rate limiter.*  One notice per source and window, although stamps are wall
  clock readings that step back, the window changes between two alerts of a
  burst, and zero is a legal window.
- *Store.*  Counts and spans agree with what was stored although an upsert and
  its commit can fail separately and a failed commit leaves a transaction that
  a later one completes or a close throws away.
- *Pipeline.*  Each alert is decided exactly once, in order, and is not lost to
  the log because mail or the database fails; a stop ends the program; a reload
  between two steps harms nothing.
- *Configuration.*  Reading, editing, truncating, writing, loading and
  assigning are six steps of which only the last is locked.  Only whole and
  valid configurations may run, and the parts of the program must agree.
- *ARP detector.*  One trusted MAC throughout; each contradiction gives one
  alarm; an alarm never blames whom the attacker chose.  The configuration is
  read several times per packet and replaced in between.
- *Whitelists.*  Two pieces of code compare a source with a list, each in its own
  way: what a page calls whitelisted must be silent.
- *Canary.*  The names must be the same after every restart, whenever the program
  was killed, and an answer be recognised although NetBIOS cuts and upper-cases
  names and mDNS may leave out the question.
- *Lifecycle.*  A stop comes from another thread in the middle of the start, of a
  round of probes, or of a capture that failed; it must end the program, in order,
  and the probing with it.

`PROJECT.json` lists the hazards line by line, with the properties that watch them.

## Modules and the code they model

`Alerts` defines alerts, severities and dicts.  The other modules extend it where
they handle alerts.  Each `MC` module gives the constants of one module
their small values.  Titles, descriptions, evidence and logging are left out everywhere.

**`AlertDeduper`** is `AlertDeduper`.  `process` runs under the deduper's lock and is
one action with two outcomes, `Pass` (the alert is returned) and `Suppress`
(`None`).  `set_window` takes no lock and is `SetWindow`.  `handled` is a history
of the calls: the alert as `process` left it, whether it was passed, the window in
force.

**`AlertStore`** is `AlertStore`.  `rows` is the table as the connection sees it,
`disk` what was committed.  `insert_or_update` has three outcomes: `Insert`,
`CommitFails` (the row may stay in an open transaction or be rolled back) and
`ExecuteFails`.  `Close` discards what is uncommitted, and `Reopen` is the next process.

**`AlertPipeline`** composes the two (`Deduper == INSTANCE AlertDeduper`,
`Store == INSTANCE AlertStore`) with the threads.  `stage` is the notify thread's
place in `_notify_loop` and `_process_alert`, with a step wherever another thread
can come between: `LoopTop`, `Take`, `Timeout`, `Record`, `Withhold`, `PassOn`,
`SendConsole`, `SmtpSkip`, `SmtpConnect`, `SmtpSend`.  `Raise` is a detector's `emit` on the sniffer
thread.  `ReloadWindow` and `ReloadMinSeverity` are the two assignments of
`reload_config` that reach this pipeline.  `main` is the main thread's place in `run` and `stop`:
the sniffer starts before the notify thread does, and `stop` closes the store
without waiting for the notify thread, a daemon that ends with the process.
`Abort` is a `stop` whose `sniffer.stop()` raises.

**`AlertDelivery`** is what the program promises of alerts, without
threads, locks, windows or databases: they are handled in the order raised, each
is noticed or, if one with its key was noticed before, withheld; none waits for
ever while the program is up; after a stop at most one more is handled.  A pipeline
state maps to it by `backlog <- Held \o Essences(queue)` (the alert in hand, until
the console has it, then the queue), `noticed <- Essences(console)` and
`phase <- Phase`.

**`ConfigReload`** is one dashboard request per worker, from the request over
`read_raw_config`, the edit, `open(path, "w")`, the write and `load_config` to
the three assignments of `reload_config`, which are under `_reload_lock`.  A file is
a `Content` (the authorized list, a settings value, whether the fields no route
knows about are as they should be), `Empty` (just truncated) or `Garbled` (no YAML).
An empty file parses as an empty mapping and loads as an error, as in the code.
Where two writers overlapped, what is longer of the first sticks out behind the
second: the file is then `Garbled`, or has a field nobody knows, which
`PoisonHoundConfig` forbids, or repeats lines it has already.  This takes
`config.yaml` to be laid out like `config.example.yaml`, whose last section no route
edits, and what sticks out to be shorter than that section.  The settings form carries
the lists as they were when it was rendered.  `Crash` kills the process, `Restart`
is the next one, which starts only from a file that validates.
`written` is the history of what workers meant the file to say, `expected` that of what
the requests ask for one after the other: it is given up (`Garbled`) once two
overlap or a kill cuts one off.

**`Gateway`** is `detect_default_gateway`, a function that is recursive over scapy's route table, and
`IsDefaultGateway`, what it should find.

**`ArpSpoof`** is the dispatcher, the MAC directory and the ARP detector.
`Construct` is its `__init__`, which asks `Gateway` if no address is configured; without
one the detector is never `Started`, as the code raises.
`handle_packet` reads `self.config` when it compares the reply's source, again for
the text of the alert, and again for its key: `HearReply`, `Describe` and `Emit` are
the three reads, and `Reload` may come between; `moved` is the history of the alerts during which it
changed the gateway.  `HearIp` is an IP packet, from
which alone the directory learns.  `SaveSettings` posts the form of `settings.html`,
in which an unset gateway is rendered as the text `None` (`Prefill`).

**`Whitelists`** puts what the detectors make of a list (`IsAuthorized`: an exact
address, or a MAC in any case; `IsKnown`: an address in any case) beside what the
pages make of it (`IsWhitelisted`: the exact address), with packets of each kind and
the three ways to edit a list.  Lists are sequences: a typed list may hold an
entry twice, and `list.remove()` takes out the first.

**`NameCanary`** is the canary detector.  `Start` to `WriteFile` are the steps of
`get_or_create_seed` for each of several processes on one state file: a drawn seed
is written in place, and its names are used only afterwards.  `End` stops or kills
a process at any of them, `Damage` is what others do to the file.  `ReadFails` is a read that raises an
`OSError`, also of an intact file: the code goes on as if there were none and saves a new seed over it (`misread`).
A name is its prefix and its tail, the HMAC of a seed and an index, of which the code has 12 hex digits.  `ToNbnsName`
keeps 15 characters, which cuts the digits short behind a prefix of three characters and more: the constant
`FirstDigits` says what is left of each HMAC, which may be the same for two, and is the same for all from a prefix of 14 on.
`NormalizeName` cuts at a dot.  `SendProbes` follows one probe, any of them (`asked`), for as long as the model
runs, so that it may be answered after a restart.  `Responses` are what the three protocols can
say, `Matches` the three `_check_*_response`.

**`ServiceLifecycle`** is `run` and `stop` under either host.  `main` is the place in
`cli.main` or `SvcDoRun` and in `run`; `stopper` the place in `SvcStop` and `stop`, which in
the service is another thread.  `round[d]` is the place of `_schedule_probe`, on the main
thread the first time (`InStart`) and on a timer's later; `handle[d]` is `_probe_timer`, which
`stop` cancels (`CancelTimer`) and sets to `None` (`ForgetTimer`) in two steps.  `TellDashboard` sets `should_exit`, and `JoinDashboard` is the `join` that waits 5 s at most: the
dashboard's thread ends at its own time (`DashboardEnds`), perhaps after the store was closed.  A round that comes to
its `start()` after the first finds a cancelled timer, after the second no timer (`ArmNothing`).
scapy's `AsyncSniffer` is external: `start()` returns at once, the capture opens or
fails on its own thread, may end by itself, and `stop()` raises unless it is running
(`StopRaises`).  pywin32 is external too: it reports the service as running before it calls
`SvcDoRun`, and a stop control reaches only a service that is.  `late` counts the rounds sent after a stop.

Each module also holds a few definitions under the heading *Mistakes a change to
this code could make*.  They are no part of the model: each is a plausible
bug, put in the place of the definition `PROJECT.json` names, and shows that a
property would notice.

## Runs: what is checked

| Run | Shows | Distinct states |
|---|---|---|
| `deduper` | `OneNoticePerWindow`: over every history of four alerts, an alert is passed exactly when the last notice of its key is at least a window ago.  `WithheldTellsItsBurst`: a withheld alert carries the start and the count of its burst. | 222 000 |
| `store` | `CountsAreAccurate` and `RowsSpanTheirAlerts`: whatever fails and however often the file is reopened, a row counts each stored alert once and spans from the first to the last. | 441 000 |
| `pipeline` | `NoneSkipped`, `StoreSeesEveryAlert`, `MailFollowsTheLog`, with two keys, two severities, reloads and a stop in every interleaving. | 2 340 000 |
| `pipeline_faults` | With the store and the mail server failing at will: `ConsoleMissesNothing`; `DeduperSpec`, `StoreSpec` and `DeliverySpec`, three refinements, the last with its liveness; `StopEndsTheProgram`. | 332 000 |
| `pipeline_stop` | Violation of `EveryAlertIsRecorded`. | |
| `reload` | `RunningWasWritten`: no half-written or invalid file ever runs.  `RequestsAddUp`: when none is under way the file is the first one with every edit since, and what runs is the file, if the requests did not overlap.  `AppliedTogether`: reloads do not mix.  `EveryRequestIsAnswered`.  Two workers, three requests of every kind, kills and restarts. | 578 000 |
| `reload_stale` | Violation of `ReloadsCatchUp`. | |
| `arp` | `StartsOnTheDefaultGateway`: the first usable route of the lowest metric, over every table of up to three routes.  `EveryContradictionIsAlarmed`, `SuspectsSpokeForThemselves`; `AlertsNameTheirGateway`: an alert is about the gateway of its reply unless a reload moved that while the packet was in hand.  The configuration is replaced between any two reads of it. | 1 063 000 |
| `canary` | `NamesAreStable`: one seed for ever, unless two first starts overlap, the file is damaged or a read of it fails.  `EveryAnswerIsRecognised`, also by another process or after a restart.  `OnlyOwnNamesAreRecognised`: another seed's name is taken only in NetBIOS and only if the same digits are left of it. | 117 000 |
| `lifecycle` | `StopIsGraceful`, `AtMostOneLateRound`; with liveness `ProbingGoesOn` and `StopEndsTheProgram`: both hosts, two detectors that probe, two stops at any point, and a dashboard that may not end in time. | 342 000 |
| `service_stop` | Violation of `StopControlEndsTheService`. | |
| `whitelists` | `WhitelistedStaysSilent`, `MarkedMeansSilent` and the action property `RemovalConcernsItsSource`. | 74 000 |

Each passing run but `pipeline_faults` also checks its module's `TypeOK`.  Deadlock is
checked in every run: where the program ends or has nothing left to do, the
module says so with a stuttering action (`Exited`, `Done`, `Idle`).

## Bounds

- *Alerts* (`Ids`): four for the deduper and for the store, three for the
  pipeline.  Three are enough for one alert to be queued while one is in each
  stage and one is done; four let a window open, hold a repeat, elapse and open again
  with another key in between.  `AlertDeduperProofs`, `AlertStoreProofs` and `AlertPipelineProofs` remove the bound.
- *Times* are 0..2 or 0..1, in any order, against windows of 0, 1 and 2: before,
  at and after the boundary, and backwards.
- *Keys*: two, one of which has two severities (router advertisements are keyed by
  their source alone and graded by their options).  `pipeline_faults` has one key,
  one window and one `min_severity`, which makes room for the faults and the liveness.
- *Requests* (`MaxRequests`): three on two workers.  Two that overlap show all
  interleavings of two edits and two reloads, the third what comes on top.
  `ConfigReloadProofs` removes the bound on workers and requests.
- *ARP*: two addresses, two MACs, two claims for the watched address
  (`MaxClaims`), any number of other packets and reloads.  Two claims are a baseline
  and its contradiction, or with a pinned MAC two contradictions.  `SYMMETRY`
  permutes addresses and MACs, which no property or constant tells apart; the run has no liveness.
  `ArpSpoofProofs` removes the bounds on addresses, MACs and claims.
- *Routes*: tables of up to three routes (`MCRoutes`), with metrics 0 and 1, two gateways
  and none: a tie, a lower metric after a higher one, and an unusable route before, between and after.
  `ArpSpoofProofs` removes the bound on their length.
- *Canary*: two processes, three seeds (the two of overlapping starts or of a failed read, and another sensor's), one
  name each, and a prefix of each kind: of two characters, of three and more, of 14 and more, dotted.  Of the cut names
  two seeds have the same digits left and the third has others, and behind the long prefix none has any.  `SYMMETRY`
  permutes processes and the two seeds alike; the run has no liveness.  `NameCanaryProofs` removes all these bounds.
- *Lifecycle*: two detectors, of which one probes if told to and so stands for those that
  do not probe; two stop requests (`MaxRequests`), since the second meets what the first, raising or early,
  left, and a third would meet the same.
- *Whitelists*: lists of up to two typed entries (`MaxTyped`) and what clicks add;
  two DHCP servers and a host that is both router and DHCPv6 server.  A third
  entry would stand beside the ones a property is about and change nothing for them.

## Fairness

`AlertPipeline` assumes weak fairness of the notify thread and of the main thread's
own steps.  The notify thread can always go on: `get` times out after a second, the
locks it takes are held for bounded times, and `smtplib` is given a 10 s timeout.
`run` and `stop` go on once begun: `stop` joins the dashboard for 5 s at most.
Nothing is assumed of attackers (`Raise`), of administrators
(`ReloadWindow`) or of the signal (`RequestStop`), and not even that a reload
begun is finished.  `ConfigReload` assumes that a worker goes on with the request it
has, and not that anybody makes a request, posts an open form or kills the process.
`AlertDelivery` assumes weak fairness of `Handle`, which `DeliverySpec` shows the pipeline
to provide.  `ServiceLifecycle` assumes that the main thread, a stop once begun, each detector's
round of probes (its timer's interval ends) and the opening of the capture go on, and nothing of signals, stop controls or
a capture's end.  `stop` joins threads that end: the sniffer's own (`AsyncSniffer.stop`) and, with a timeout, the
dashboard's; nothing is assumed of the dashboard's end itself.  `Signal` is a signal's delivery and its handler in one step:
CPython runs the handler on the main thread, which on Windows an `Event.wait()` without a timeout may hold back;
`StopEndsTheProgram` begins with the handler.  The other modules state safety only.

## Theorems: what is proved

All proofs assume only the named assumptions on constants, which TLC
evaluates in every run: windows and times are integers, severities are those of the
code, `NoAlert` and `NoJob` are not alerts and jobs, good and bad settings differ, `NoName` and
`NoProbe` are no names and probes, what is left of a cut name is a function of it and no whole HMAC, `Unset`, `NoneText` and `NoPacket` are no addresses, MACs or alerts,
a route table is a sequence of routes, no detector is registered twice, lower-casing twice is lower-casing once and
the addresses the program reports are in lower case.

- **`AlertDeduperProofs`**: `TypeCorrect`; `RateLimitHolds`, `Spec =>
  []OneNoticePerWindow`.  The property speaks of the history alone and is not inductive.  The
  strengthening relates the dict to the history: a key is in the dict exactly
  when a call passed it, and its `windowStart` is the stamp of the latest call that
  did.  With it, `WindowExpired` compares exactly what the property
  compares.  `HistoryGrows` shows that a call changes nothing about earlier ones.
  `BurstsAreTold` (`WithheldTellsItsBurst`) adds that the dict's count and `first_seen` are those
  of the burst since that call (`DictCounts`).
- **`AlertStoreProofs`**: `TypeCorrect`, `CountsHold` (`CountsAreAccurate`), `SpansHold`
  (`RowsSpanTheirAlerts`), for any number of alerts and faults.  One invariant, `Tallies`, is said of
  the connection's table and of the committed one alike: each step makes a table one of the two, or that with one
  more alert, and the history gets an entry that says which.  The rest is the cardinality of a set with one
  member more.
- **`AlertPipelineProofs`**: `NothingIsSkipped` (`NoneSkipped`) and
  `StoreIsOfferedAll` (`StoreSeesEveryAlert`), for any number of alerts, any faults
  and channels.  The invariant adds to both that the stages `record` and
  `dedupe` come with an alert in hand (`UnderWay`), that the queue and the two histories are
  sequences of such records (`Histories`) and that nothing was handled before the notify thread started.
  `DeduperIsKept` is the refinement `Spec => DeduperSpec`: every step of the pipeline is a
  step of `AlertDeduper` or leaves its variables alone.  It needs that the
  alert in hand is one that the deduper's specification could make next (`Genuine`):
  as raised, its serial number one more than the calls so far.  So
  `RateLimitHolds` is true of the running program.  `StoreIsKept` is `Spec => StoreSpec`, in the same way
  from what an alert is while it waits for the store, and `CountsHold` and `SpansHold` are true of it too.
  `MailIsOrderly` (`MailFollowsTheLog`) adds that the alert mail is at work on is the last one logged and that
  the log is in the order of the alerts' numbers (`LogInv`).  `DeliveryIsKept` is the safety part of `DeliverySpec`:
  under the mapping every step is one of `AlertDelivery` or a stutter.  That a withheld alert repeats a logged
  one is `KeysNoticed`: each key in the dict was logged or is about to be.
  `ConsoleIsComplete` (`ConsoleMissesNothing`) counts instead of filtering: the log is as long as the number of
  verdicts passed, less one while an alert is at stage `console`, and that alert is the last verdict's (`ConsoleInv`).
  `TypeCorrect` puts the types of the deduper and of the store together with the pipeline's own.
- **`ArpSpoofProofs`**: `TypeCorrect`; `ContradictionsAreAlarmed` (`EveryContradictionIsAlarmed`).  The property
  pairs replies and alarms by counting; it is inductive with `AlarmInv`, that the baseline a reply is compared with
  is the MAC to trust: a contradiction and its alarm then raise both counts by one, and earlier pairs stay.
  `SuspectsSpoke` (`SuspectsSpokeForThemselves`) from `DirectoryInv`, that what the directory holds was said in IP traffic;
  `GatewaysAreNamed` (`AlertsNameTheirGateway`) from `NamesInv`, that until a reload moves it the watch stays on the
  gateway of the reply in hand.  `DetectsTheDefaultGateway` is about the route table alone: by
  induction on its prefixes, written as a least counterexample, the best route so far is the first usable one of
  lowest metric in the prefix.  `StartsRight` (`StartsOnTheDefaultGateway`) follows, for tables of any length.
- **`ConfigReloadProofs`**: `TypeCorrect`, which includes that the lock is held
  exactly by the worker inside the `with` statement; `RunningIsSound`
  (`RunningWasWritten`), from the stronger fact that a file which loads was written
  whole by one request, and so was what any worker has loaded and not yet assigned;
  `ReloadsDoNotMix` (`AppliedTogether`), from what each place inside the lock says of
  the three copies of the configuration.  `SequentialRequestsAddUp` (`RequestsAddUp`): as long as no two
  requests overlapped, the one under way has read the file as the ones before left it.  For any number of workers,
  requests and sources.
- **`NameCanaryProofs`**: `TypeCorrect`; `NamesStay` (`NamesAreStable`) from `SeedInv`: a process that drew a seed is the only
  one that did and the file has none until it writes; every process that is up has the file's.  All of it is said of
  histories without an overlap of first starts, damage or a failed read.
  `AnswersAreRecognised` (`EveryAnswerIsRecognised`) adds that the probe followed asks for a name of that seed
  (`AskedInv`), and that cutting and upper-casing does to the answer what it did to the name.
  `NothingElseIsTaken` (`OnlyOwnNamesAreRecognised`) is the converse, for any `FirstDigits`: what a name of another seed
  has in common with one's own is the digits left of it.
- **`ServiceLifecycleProofs`**: `TypeCorrect`; `LateRoundsAreBounded` (`AtMostOneLateRound`) from
  `ProbeInv`: nothing is sent before a detector's start, `_running` is set once, and a detector that sent late has no round that
  passed its check; `StopsAreGraceful` (`StopIsGraceful`) from `GraceInv`: what each step of `stop` did is
  still done at the later ones, as long as the start was over; of the dashboard, that it was told to exit.  For any detectors and any number of stops.
- **`WhitelistsProofs`**: `TypeCorrect`; `MarksAreTrue` (`MarkedMeansSilent`);
  `SilenceStays` (`WhitelistedStaysSilent`) from `EntriesStay`, that the address a click added is in the
  list; `RemovalsAreLocal` (`RemovalConcernsItsSource`).  Both rest on a lemma about `list.remove`, which takes out the
  first equal entry and leaves all others, for lists of any length.

Every safety property the passing runs check is stated by one of these theorems.  Only model-checked, because
out of the prover's reach, is liveness: `EveryRequestIsAnswered`, both `StopEndsTheProgram`, `ProbingGoesOn` and the
fairness in `DeliverySpec`.  No module uses a `RECURSIVE` operator.

## Disagreements between code and documentation

Three are runs that end in a violation; `PROJECT.json` has the quotations.

1. `pipeline_stop`.  `dashboard/store.py:3` says every alert is recorded.  `stop` sets
   the event, leaves what is queued and closes the store while the notify thread
   may be on its way to it.
2. `reload_stale`.  `src/README.md:172-175` says that saving hot-reloads the change.
   `load_config` runs before the lock is taken, so of two workers the one with the older file
   may assign last, and the detectors keep it until the next reload.
3. `service_stop`.  `win_service.py:5-7` says the wrapper lets the service manager manage
   `run` and `stop`, and `src/README.md:142` lists `stop`.  If the capture has failed or ended,
   `sniffer.stop()` raises, `SvcStop` ends before `SetEvent`, and the service waits for ever in
   `STOP_PENDING`, where it accepts no other stop.  On the command line the same
   error ends the program, with a traceback.

Met while modelling, in the models' behaviours, and not stated by a run:

- The docstring of `config_io.py` says a route leaves the fields it does
  not know alone.  A worker that reads while another has truncated gets an empty
  mapping and writes back its own section as the whole file.
- The docstring of `routes/settings.py` says only fields that can be hot-reloaded are on the
  page.  `known_gateway_mac` is, and is read in `__init__` only.
- `core/config.py:36-38` says an unset gateway is detected rather than watching the wrong
  IP.  The settings form renders it as `None`, requires it, and saves that text.
- `core/state_store.py:26` says an unreadable state file means starting fresh.  One that is
  not UTF-8, holds JSON that is no object, or a seed that is no hex, raises instead and stops the
  start (`LoadRaises`).
- `src/README.md:122` says signals are handled gracefully.  `stop` gives the dashboard 5 s and then closes the store,
  which a request still served goes on to use.
- `cli.py:33` says `--check-config` validates and exits.  It builds the application first, which
  creates the seed file and the database.
- `core/rate_limiter.py:25-27` has the alert passed after a window reflect everything seen
  since the window opened.  `process` sets its count to 1 and its `first_seen` to now.
- `core/rate_limiter.py:25` has the next alert passed once the window elapses.  `process` compares wall clock stamps: a
  clock that steps back an hour after a notice silences its key for an hour and the window.
- `net/canary_names.py:4-5` says the names stay stable across restarts.  A start that fails to read the intact state
  file (`ReadFails`) draws another seed and saves it over the good one; answers to the old names, still on their
  way, are not recognised.
- A router advertisement is graded by its options and keyed by its source: a medium one that
  mail skips makes the deduper withhold the high one that follows within the window.
- Two one-click whitelistings at once (`src/README.md:165-167`): both workers read, both write,
  one entry is lost.
- A form value that does not validate is written, fails the reload, and the page says
  "Settings saved and applied" (`settings.html:7`).  Every later reload fails with that file.
- `detectors/arp_spoof.py:36-37`: the baseline is kept when a reload moves `gateway_ip`, so the first
  reply of the new gateway is an alarm though its MAC never changed.
- `src/README.md:167-168` says whitelisted sources are marked.  A source known by its MAC or in another
  spelling is silent and not marked; only the converse, `MarkedMeansSilent`, holds.
- `whitelist.html:6-7`: removing the last authorized DHCP server turns the validation off for all
  servers.  `RemovalConcernsItsSource` excepts that one removal by name.

## What is not modelled

- Packets' bytes, scapy, the exact text of alerts and of mail, the login, HTML: formatting
  or a framework's business.  The webhook notifier is a stub nothing creates.
- The store's queries only read, under the lock the upsert takes.
- Environment overrides of the configuration and the shapes a hand-edited file can have
  (`whitelist:` with a null, a section that is a list): `ConfigReload` has one invalid
  kind of value and one kind of file that is not YAML.
- The four detectors' configurations are assigned one after another in `reload_config`;
  `ConfigReload` has one step for them, since each detector reads only its own.
- `SmtpNotifier` reads its configuration several times for one message;
  `AlertPipeline` has its gate, its connection and its sending as separate steps, and no
  configuration in the last two.
- A canary prefix that begins with a dot, which `strip(".")` takes away before the name is cut; one whose first dot
  comes after the 15th character, which NetBIOS has cut off by then; and names of other prefixes that agree with
  one's own in their first 15 characters.
- `_learn_baseline` reads `gateway_ip` for the title, the description and `source_ip`, one after the other; in `ArpSpoof` they
  are one read (`Describe`), beside the one for the key.
- The probes of one round are one step: what is sent between two of them changes nothing for the
  round.  A second `run` of the same application never happens and is left out.
- Argument parsing, logging, and the install and remove commands of the service, which are pywin32's.
- The login compares the form with the running configuration's name and password in one request, and the
  framework signs the cookie: nothing there goes over several steps.

## Plan

Done, in this order, the core first: `Alerts`, `AlertDeduper`, `AlertStore`, `AlertDelivery`,
`AlertPipeline`, `ConfigReload`, `ArpSpoof`, `Whitelists`; then `ServiceLifecycle`, `NameCanary`,
`Gateway`, and the sequential meaning of the requests (`RequestsAddUp`) in `ConfigReload`; then the proofs
about all of these.  Next:

1. `SmtpNotifier`'s several reads of `self.config` for one message, with reloads between, in
   `AlertPipeline`.
2. The shapes a hand-edited `config.yaml` may have, in `Whitelists`.
