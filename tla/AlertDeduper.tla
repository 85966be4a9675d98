---------------------------- MODULE AlertDeduper ----------------------------
(***************************************************************************)
(* AlertDeduper of core/rate_limiter.py: suppress the repeats of a         *)
(* dedup_key inside a time window.                                         *)
(*                                                                         *)
(* process() runs whole under the deduper's lock, so it is one action.     *)
(* set_window() takes no lock: it is one assignment, and process() reads   *)
(* the window once, so it is an action of its own that falls before or     *)
(* after any process().  "now" is the stamp the alert got when it was      *)
(* created, a wall clock reading: stamps may go backwards.                 *)
(***************************************************************************)
EXTENDS Alerts, FiniteSets

CONSTANT Windows    \* values rate_limit.dedupe_window_seconds may take

\* The field is a plain int: zero and negative windows are accepted.
ASSUME WindowAssumption == Windows \subseteq Int

VARIABLES
    window,     \* _window_seconds
    dedup,      \* _state: dedup_key |-> _DedupeState
    handled     \* history: every process() call with its outcome

vars == <<window, dedup, handled>>

DedupeState ==
    [windowStart : Times, firstSeen : Times, lastSeen : Times,
     occurrences : Nat \ {0}]

\* One call of process(): the alert as process() left it, whether it was
\* returned to the caller, and the window then in force.
Outcome == [alert : Alert, passed : BOOLEAN, window : Windows]

TypeOK ==
    /\ window \in Windows
    /\ DOMAIN dedup \subseteq Keys
    /\ dedup \in [DOMAIN dedup -> DedupeState]
    /\ handled \in Seq(Outcome)

Init ==
    /\ window \in Windows
    /\ dedup = NoEntries
    /\ handled = <<>>

-----------------------------------------------------------------------------
\* Mistakes a change to this code could make, for the checks to catch.
WindowExpiredLate(a) == a.lastSeen - dedup[a.key].windowStart > window

OpenedCountingOn(a) ==
    [ windowStart |-> a.lastSeen, firstSeen |-> a.firstSeen,
      lastSeen |-> a.lastSeen,
      occurrences |-> IF a.key \in DOMAIN dedup
                      THEN dedup[a.key].occurrences + 1 ELSE 1 ]

OpenedAtZero(a) ==
    [ windowStart |-> a.lastSeen, firstSeen |-> a.firstSeen,
      lastSeen |-> a.lastSeen, occurrences |-> 0 ]

-----------------------------------------------------------------------------
WindowExpired(a) == a.lastSeen - dedup[a.key].windowStart >= window

\* The branch "state is None or window_expired".
Opens(a) == a.key \in DOMAIN dedup => WindowExpired(a)

Opened(a) ==
    [ windowStart |-> a.lastSeen, firstSeen |-> a.firstSeen,
      lastSeen |-> a.lastSeen, occurrences |-> 1 ]

Repeated(a) ==
    [ dedup[a.key] EXCEPT !.occurrences = @ + 1, !.lastSeen = a.lastSeen ]

\* The alert object after process() wrote the state's fields back to it.
Updated(a) ==
    IF Opens(a)
    THEN [a EXCEPT !.occurrences = 1]
    ELSE [a EXCEPT !.occurrences = Repeated(a).occurrences,
                   !.firstSeen = Repeated(a).firstSeen]

Remember(a) ==
    handled' = Append(handled, [ alert |-> Updated(a), passed |-> Opens(a),
                                 window |-> window ])

\* process() returns the alert: the caller notifies.
Pass(a) ==
    /\ Opens(a)
    /\ dedup' = Put(dedup, a.key, Opened(a))
    /\ Remember(a)
    /\ UNCHANGED window

\* process() returns None.
Suppress(a) ==
    /\ ~Opens(a)
    /\ dedup' = Put(dedup, a.key, Repeated(a))
    /\ Remember(a)
    /\ UNCHANGED window

Process(a) == Pass(a) \/ Suppress(a)

SetWindow(w) ==
    /\ window' = w
    /\ UNCHANGED <<dedup, handled>>

Next ==
    \/ \E k \in Keys, t \in Times : \E s \in KeySeverities[k] :
        /\ Len(handled) + 1 \in Ids
        /\ Process(NewAlert(Len(handled) + 1, k, s, t))
    \/ \E w \in Windows : SetWindow(w)

Spec == Init /\ [][Next]_vars

-----------------------------------------------------------------------------
Stamp(i) == handled[i].alert.lastSeen
KeyOf(i) == handled[i].alert.key

\* The i-th call is the one that opened the window the j-th call fell in:
\* the latest call before j that passed an alert of the same key.
OpenedFor(i, j) ==
    /\ i < j
    /\ handled[i].passed
    /\ KeyOf(i) = KeyOf(j)
    /\ \A m \in (i + 1)..(j - 1) : handled[m].passed => KeyOf(m) # KeyOf(j)

(***************************************************************************)
(* The rate limit, stated over the whole history and without the dict: an  *)
(* alert is notified exactly when the last notification of its key is at   *)
(* least the window now in force before it, or there was none.  So no      *)
(* source is notified twice within a window however the window was         *)
(* changed and whatever happened to other keys.  "Before" is by the        *)
(* stamps: after the clock stepped back a key is withheld for the step and *)
(* the window together.                                                    *)
(***************************************************************************)
OneNoticePerWindow ==
    \A j \in 1..Len(handled) :
        handled[j].passed <=>
            \A i \in 1..(j - 1) :
                OpenedFor(i, j) => Stamp(j) - Stamp(i) >= handled[j].window

\* The calls since window i opened that concern the key of call j.
Since(i, j) == { m \in i..j : KeyOf(m) = KeyOf(j) }

(***************************************************************************)
(* What a withheld alert says of the burst it belongs to: the burst began  *)
(* at the alert that was notified, and its count is the number of alerts   *)
(* of the key since then, itself included.                                 *)
(***************************************************************************)
WithheldTellsItsBurst ==
    \A i, j \in 1..Len(handled) :
        OpenedFor(i, j) /\ ~handled[j].passed =>
            /\ handled[j].alert.occurrences = Cardinality(Since(i, j))
            /\ handled[j].alert.firstSeen = handled[i].alert.firstSeen
=============================================================================
