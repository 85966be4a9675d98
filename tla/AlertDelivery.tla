--------------------------- MODULE AlertDelivery ----------------------------
(***************************************************************************)
(* What the program promises of every alert a detector raises, with none   *)
(* of the threads, locks, windows or databases: alerts are handled one at  *)
(* a time in the order they were raised; each is either noticed (logged,   *)
(* and offered to the other notifiers) or withheld, and it is withheld     *)
(* only if one with its key was noticed before; while the program is up    *)
(* none waits forever; once it is told to stop at most one more is         *)
(* handled.                                                                *)
(***************************************************************************)
EXTENDS Integers, Sequences

CONSTANTS Keys, Ids

VARIABLES
    backlog,    \* alerts raised and not yet handled, oldest first
    noticed,    \* alerts noticed, oldest first
    phase       \* "up", then "halting" while a last one may be handled, "halted"

vars == <<backlog, noticed, phase>>

Notice == [id : Ids, key : Keys]

Init ==
    /\ backlog = <<>>
    /\ noticed = <<>>
    /\ phase = "up"

Raise(n, k) ==
    /\ \A i \in 1..Len(backlog) : backlog[i].id < n
    /\ \A i \in 1..Len(noticed) : noticed[i].id < n
    /\ backlog' = Append(backlog, [id |-> n, key |-> k])
    /\ UNCHANGED <<noticed, phase>>

\* The alert handled after Halt is the last one.
Last == phase' = IF phase = "halting" THEN "halted" ELSE phase

NoticeHead ==
    /\ phase # "halted"
    /\ backlog # <<>>
    /\ noticed' = Append(noticed, Head(backlog))
    /\ backlog' = Tail(backlog)
    /\ Last

WithholdHead ==
    /\ phase # "halted"
    /\ backlog # <<>>
    /\ \E i \in 1..Len(noticed) : noticed[i].key = Head(backlog).key
    /\ backlog' = Tail(backlog)
    /\ Last
    /\ UNCHANGED noticed

Handle == NoticeHead \/ WithholdHead

Halt ==
    /\ phase = "up"
    /\ phase' \in {"halting", "halted"}
    /\ UNCHANGED <<backlog, noticed>>

GiveUp ==
    /\ phase = "halting"
    /\ phase' = "halted"
    /\ UNCHANGED <<backlog, noticed>>

Next ==
    \/ \E n \in Ids, k \in Keys : Raise(n, k)
    \/ Handle
    \/ Halt
    \/ GiveUp

\* Every alert is handled, or the program stops.
Spec == Init /\ [][Next]_vars /\ WF_vars(Handle)
=============================================================================
