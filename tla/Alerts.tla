------------------------------- MODULE Alerts -------------------------------
(***************************************************************************)
(* The alert model of core/alert.py: what a detector produces when it      *)
(* fires.  Only the fields that decide what happens to an alert are kept;  *)
(* title, description, addresses, remediation and evidence are payload.    *)
(***************************************************************************)
EXTENDS Integers, Sequences

CONSTANTS
    Keys,           \* dedup_key values the detectors can form
    KeySeverities,  \* key |-> the severities alerts of that key can carry
    Ids,            \* serial numbers of alerts: the bound on how many exist
    Times           \* readings of the wall clock, in seconds

Severity == {"info", "low", "medium", "high", "critical"}

SeverityOrder ==
    [info |-> 0, low |-> 1, medium |-> 2, high |-> 3, critical |-> 4]

SeverityAtLeast(severity, minimum) ==
    SeverityOrder[severity] >= SeverityOrder[minimum]

(***************************************************************************)
(* The same source repeating the same attack gives the same key, but not   *)
(* always the same severity: detectors/ipv6_rogue_ra.py keys a router      *)
(* advertisement by its source alone and grades it by its options.         *)
(***************************************************************************)
ASSUME AlertAssumption ==
    /\ KeySeverities \in [Keys -> SUBSET Severity]
    /\ Ids \subseteq Nat
    /\ Times \subseteq Int

Alert ==
    [ id          : Ids,
      key         : Keys,
      severity    : Severity,
      firstSeen   : Times,
      lastSeen    : Times,
      occurrences : Nat \ {0} ]

\* Alert(...) in a detector: both timestamps default to the clock now and
\* occurrence_count to 1.
NewAlert(n, k, s, t) ==
    [ id |-> n, key |-> k, severity |-> s,
      firstSeen |-> t, lastSeen |-> t, occurrences |-> 1 ]

\* d[k] = v on a dict.
Put(d, k, v) == [x \in DOMAIN d \cup {k} |-> IF x = k THEN v ELSE d[x]]

\* An empty dict.
NoEntries == [x \in {} |-> 0]
=============================================================================
