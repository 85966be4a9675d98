----------------------------- MODULE Whitelists -----------------------------
(***************************************************************************)
(* The whitelists of RogueDhcpDetector (detectors/rogue_dhcp.py) and       *)
(* Ipv6RogueRaDetector (detectors/ipv6_rogue_ra.py) and the dashboard      *)
(* pages that show and edit them (routes/alerts.py, routes/whitelist.py,   *)
(* routes/settings.py).                                                    *)
(*                                                                         *)
(* The detectors and the pages decide each for themselves whether an entry *)
(* of a list means a source.  Here every edit reaches the detectors before *)
(* the next packet; ConfigReload has what happens when edits overlap.      *)
(***************************************************************************)
EXTENDS Naturals, Sequences, SequencesExt

CONSTANTS
    Texts,          \* addresses as somebody may spell them
    Lower,          \* text |-> its lower case
    Sources,        \* who sends offers, advertisements and replies
    Typed,          \* kind |-> what an operator may type into its list
    MaxTyped        \* bound: entries an operator types into one list

\* Each kind of packet has a list of its own: authorized_servers,
\* authorized_routers and authorized_dhcpv6_servers.
Kinds == {"dhcp", "ra", "dhcpv6"}

\* Packets carry their addresses in lower case.
ASSUME TextsAssumption ==
    /\ Lower \in [Texts -> Texts]
    /\ \A x \in Texts : Lower[Lower[x]] = Lower[x]
    /\ Sources \subseteq [kind : Kinds, ip : Texts, mac : Texts]
    /\ \A s \in Sources : Lower[s.ip] = s.ip /\ Lower[s.mac] = s.mac
    /\ Typed \in [Kinds -> SUBSET Texts]
    /\ MaxTyped \in Nat

VARIABLES
    lists,      \* the three lists in force
    warned,     \* _warned_no_whitelist
    rows,       \* the sources with an alert in the dashboard's store
    blessed     \* history: the sources whitelisted from their alert whose
                \* entry nobody has taken out since

vars == <<lists, warned, rows, blessed>>

TypeOK ==
    /\ lists \in [Kinds -> Seq(Texts)]
    /\ warned \in BOOLEAN
    /\ rows \subseteq Sources
    /\ blessed \subseteq rows

TypedLists(k) == SeqOf(Typed[k], MaxTyped)

Init ==
    /\ lists \in [Kinds -> UNION {TypedLists(k) : k \in Kinds}]
    /\ \A k \in Kinds : lists[k] \in TypedLists(k)
    /\ warned = FALSE
    /\ rows = {}
    /\ blessed = {}

-----------------------------------------------------------------------------
(* Mistakes a change to this code could make, for the checks to catch.     *)

WhitelistTargetRouters(s) == IF s.kind = "dhcp" THEN "dhcp" ELSE "ra"

IsAuthorizedByMac(s) ==
    \E e \in ToSet(lists["dhcp"]) : Lower[e] = s.mac

RemovedEverywhere(k, v) == [j \in Kinds |-> RemoveFirst(lists[j], v)]

ReportByKind(s) ==
    /\ rows' = {r \in rows : r.kind # s.kind} \cup {s}
    /\ UNCHANGED <<lists, warned, blessed>>

-----------------------------------------------------------------------------
(* The detectors.                                                          *)

\* RogueDhcpDetector: an entry is an IP address or a MAC.
IsAuthorized(s) ==
    \E e \in ToSet(lists["dhcp"]) : e = s.ip \/ Lower[e] = s.mac

\* Ipv6RogueRaDetector: the list of the packet's kind, in any case.
IsKnown(s) == \E e \in ToSet(lists[s.kind]) : Lower[e] = Lower[s.ip]

\* A packet of s raises an alert.
Reported(s) ==
    IF s.kind = "dhcp" THEN lists["dhcp"] # <<>> /\ ~IsAuthorized(s)
                       ELSE ~IsKnown(s)

\* The alert ends up as a row of the dashboard's store.
Report(s) ==
    /\ rows' = rows \cup {s}
    /\ UNCHANGED <<lists, warned, blessed>>

\* Without a list the detector says so once and validates nothing.
Warn ==
    /\ warned' = TRUE
    /\ UNCHANGED <<lists, rows, blessed>>

\* A DHCPOFFER or DHCPACK.
DhcpOffer(s) ==
    /\ s.kind = "dhcp"
    /\ IF lists["dhcp"] = <<>> THEN Warn ELSE ~IsAuthorized(s) /\ Report(s)

RouterAdvertisement(s) == s.kind = "ra" /\ ~IsKnown(s) /\ Report(s)

Dhcpv6Reply(s) == s.kind = "dhcpv6" /\ ~IsKnown(s) /\ Report(s)

-----------------------------------------------------------------------------
(* The dashboard.                                                          *)

\* _whitelist_target(): which list an alert's source goes to.
WhitelistTarget(s) == s.kind

\* _is_whitelisted(): how the pages mark the alert of s.
IsWhitelisted(s) == s.ip \in ToSet(lists[WhitelistTarget(s)])

\* POST /alerts/{id}/whitelist
WhitelistAlert(s) ==
    /\ s \in rows
    /\ lists' = IF IsWhitelisted(s) THEN lists
                ELSE [lists EXCEPT ![WhitelistTarget(s)] = Append(@, s.ip)]
    /\ blessed' = blessed \cup {s}
    /\ UNCHANGED <<warned, rows>>

\* list.remove() takes the first of equal entries.
Removed(k, v) == [lists EXCEPT ![k] = RemoveFirst(@, v)]

\* POST /whitelist/remove, from a list's entry or a marked alert.
RemoveFromWhitelist(k, v) ==
    /\ v \in ToSet(lists[k])
    /\ lists' = Removed(k, v)
    /\ blessed' = {s \in blessed : s.kind = k => s.ip # v}
    /\ UNCHANGED <<warned, rows>>

\* POST /settings with one list edited, or the file edited and reloaded.
EditList(k, typed) ==
    /\ lists' = [lists EXCEPT ![k] = typed]
    /\ blessed' = {s \in blessed : s.kind = k => s.ip \in ToSet(typed)}
    /\ UNCHANGED <<warned, rows>>

Next ==
    \/ \E s \in Sources :
        \/ DhcpOffer(s) \/ RouterAdvertisement(s) \/ Dhcpv6Reply(s)
        \/ WhitelistAlert(s)
    \/ \E k \in Kinds :
        \/ \E v \in Texts : RemoveFromWhitelist(k, v)
        \/ \E typed \in TypedLists(k) : EditList(k, typed)

Spec == Init /\ [][Next]_vars

-----------------------------------------------------------------------------
(***************************************************************************)
(* Once its alert was whitelisted with one click a source is silent until  *)
(* its entry is taken out, whatever else is added, removed or edited: the  *)
(* page adds to the list the detector reads, an entry it understands.      *)
(***************************************************************************)
WhitelistedStaysSilent == \A s \in blessed : ~Reported(s)

(***************************************************************************)
(* The alert page's "new activity from it won't alert": what the pages     *)
(* mark as whitelisted the detector lets pass.  Two pieces of code compare *)
(* the same source with the same list in different ways.                   *)
(***************************************************************************)
MarkedMeansSilent == \A s \in rows : IsWhitelisted(s) => ~Reported(s)

\* Entry v of list k may be what kept s silent.
Concerns(k, v, s) == s.kind = k /\ (v = s.ip \/ Lower[v] \in {s.ip, s.mac})

(***************************************************************************)
(* Removing an entry changes the treatment of nobody but the sources it    *)
(* names: a router taken off its list stays a DHCPv6 server on its own,    *)
(* and the other entries keep their effect.  The last entry of the DHCP    *)
(* list is the exception.                                                  *)
(***************************************************************************)
RemovalConcernsItsSource ==
    [][ \A k \in Kinds, v \in Texts :
          RemoveFromWhitelist(k, v) /\ ~(k = "dhcp" /\ Len(lists[k]) = 1) =>
            \A s \in Sources : Reported(s)' # Reported(s) => Concerns(k, v, s) ]_vars
=============================================================================
