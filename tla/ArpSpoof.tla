------------------------------ MODULE ArpSpoof ------------------------------
(***************************************************************************)
(* ArpSpoofDetector of detectors/arp_spoof.py with what it is fed: the     *)
(* route table (net/gateway.py), PacketDispatcher (core/dispatcher.py),    *)
(* MacDirectory (core/mac_directory.py) and the settings page.             *)
(*                                                                         *)
(* The sniffer thread handles one packet at a time, so the baseline and    *)
(* the directory have one writer.  reload_config() replaces the detector's *)
(* config from another thread at any moment, and handle_packet() reads     *)
(* gateway_ip again for the text and for the key of an alert it has        *)
(* already decided on: a packet is in hand over several steps.             *)
(*                                                                         *)
(* A MAC is its value: every comparison in the code is on lower case.      *)
(***************************************************************************)
EXTENDS Gateway, FiniteSets

CONSTANTS
    Macs,           \* hardware addresses
    RouteTables,    \* the route tables a program may be started with
    NoneText,       \* the text "None" as the value of a field
    NoPacket,       \* the sniffer thread is between packets
    MaxClaims       \* bound: ARP replies for the watched address

Claim == [src : Addresses, mac : Macs]

NotYet == "not yet"

\* An alert while it is put together and once it is emitted.  The gateway in
\* its text and the one in its key are reads of their own, and a reload may
\* come before either.
Report ==
    [ kind : {"learned", "changed"}, claim : Claim, trusted : Macs,
      suspect : Addresses \cup {Unset},
      named : Addresses \cup {NoneText, NotYet},
      keyed : Addresses \cup {NoneText, NotYet} ]

ASSUME ValuesAssumption ==
    /\ MaxClaims \in Nat
    /\ RouteTables \subseteq Seq(Route)
    /\ {Unset, NotYet} \cap (Addresses \cup Macs \cup {NoneText}) = {}
    /\ NoneText \notin Addresses
    /\ NoPacket \notin Report

Config == [gateway : Addresses \cup {Unset, NoneText}, mac : Macs \cup {Unset}]

VARIABLES
    routes,     \* conf.route.routes, until it was read
    config,     \* self.config
    resolved,   \* _resolved_gateway_ip, Unset before __init__
    baseline,   \* _baseline_mac
    directory,  \* MacDirectory._by_mac
    packet,     \* the reply in hand, once it calls for an alert
    pinned,     \* history: known_gateway_mac when the program started
    spoken,     \* history: who used which address in IP traffic
    claims,     \* history: replies for the address watched when they came
    alerts,     \* history: the alerts emitted
    moved       \* history: the numbers of those whose gateway a reload changed
                \* while their packet was in hand

vars == <<routes, config, resolved, baseline, directory, packet, pinned,
          spoken, claims, alerts, moved>>

start == <<routes, resolved, pinned>>

TypeOK ==
    /\ routes \in Seq(Route)
    /\ config \in Config
    /\ resolved \in Addresses \cup {Unset}
    /\ baseline \in Macs \cup {Unset}
    /\ directory \in [Macs -> Addresses \cup {Unset}]
    /\ packet \in Report \cup {NoPacket}
    /\ pinned \in Macs \cup {Unset}
    /\ spoken \subseteq Macs \X Addresses
    /\ claims \in Seq(Claim)
    /\ alerts \in Seq(Report)
    /\ moved \subseteq 1..Len(alerts) + 1

\* The property gateway_ip: blank falls back on what was detected.
GatewayIp == IF config.gateway # Unset THEN config.gateway ELSE resolved

\* Before the detector is built.  Only an unset gateway_ip is detected.
Init ==
    /\ config \in Config /\ config.gateway # NoneText
    /\ routes \in IF config.gateway = Unset THEN RouteTables ELSE {<<>>}
    /\ resolved = Unset
    /\ baseline = config.mac
    /\ directory = [m \in Macs |-> Unset]
    /\ packet = NoPacket
    /\ pinned = config.mac
    /\ spoken = {}
    /\ claims = <<>>
    /\ alerts = <<>>
    /\ moved = {}

Started == resolved # Unset

-----------------------------------------------------------------------------
(* Mistakes a change to this code could make, for the checks to catch.     *)

InspectFollowing(src, mac, what) ==
    /\ packet' = [ kind |-> what, claim |-> [src |-> src, mac |-> mac],
                   trusted |-> IF what = "learned" THEN mac ELSE baseline,
                   suspect |-> IF what = "learned" THEN Unset
                                                   ELSE directory[mac],
                   named |-> NotYet, keyed |-> NotYet ]
    /\ baseline' = mac

ObserveReplies(mac, src) == directory' = [directory EXCEPT ![mac] = src]

NameUnread == packet' = [packet EXCEPT !.named = config.gateway]

-----------------------------------------------------------------------------
\* __init__, with _auto_detect_gateway_ip(): the program refuses to start
\* without a gateway, and stays refused.
Construct ==
    /\ ~Started
    /\ resolved' = IF config.gateway # Unset THEN config.gateway
                   ELSE DetectDefaultGateway(routes)
    /\ routes' = <<>>
    /\ UNCHANGED <<config, baseline, directory, packet, pinned, spoken, claims,
                   alerts, moved>>

-----------------------------------------------------------------------------
(* dispatch() on the sniffer thread.                                       *)

\* A packet with an IP or IPv6 header: MacDirectory.observe().
HearIp(mac, ip) ==
    /\ Started /\ packet = NoPacket
    /\ directory' = [directory EXCEPT ![mac] = ip]
    /\ spoken' = spoken \cup {<<mac, ip>>}
    /\ UNCHANGED <<start, config, baseline, packet, claims, alerts, moved>>

\* An ARP packet has no IP header: the directory takes nothing from it.
ObserveArp(mac, src) == UNCHANGED directory

\* The reply calls for an alert, which is put together from here on.
Inspect(src, mac, what) ==
    /\ packet' = [ kind |-> what, claim |-> [src |-> src, mac |-> mac],
                   trusted |-> IF what = "learned" THEN mac ELSE baseline,
                   suspect |-> IF what = "learned" THEN Unset
                                                   ELSE directory[mac],
                   named |-> NotYet, keyed |-> NotYet ]
    /\ baseline' = IF what = "learned" THEN mac ELSE baseline

\* An ARP reply claims that the watched address is at mac.
HearReply(src, mac) ==
    /\ Started /\ packet = NoPacket
    /\ Len(claims) < MaxClaims
    /\ ObserveArp(mac, src)
    /\ src = GatewayIp
    /\ claims' = Append(claims, [src |-> src, mac |-> mac])
    /\ CASE baseline = Unset -> Inspect(src, mac, "learned")
         [] baseline = mac   -> UNCHANGED <<packet, baseline>>
         [] OTHER            -> Inspect(src, mac, "changed")
    /\ UNCHANGED <<start, config, spoken, alerts, moved>>

\* An ARP reply about any other host.
HearOtherReply(src, mac) ==
    /\ Started /\ packet = NoPacket
    /\ src # GatewayIp
    /\ ObserveArp(mac, src)
    /\ UNCHANGED <<start, config, baseline, packet, spoken, claims, alerts,
                   moved>>

NameGateway == packet' = [packet EXCEPT !.named = GatewayIp]

\* The title and the description are formatted.
Describe ==
    /\ packet # NoPacket
    /\ packet.named = NotYet
    /\ NameGateway
    /\ UNCHANGED <<start, config, baseline, directory, spoken, claims, alerts,
                   moved>>

\* The dedup_key is formatted and the alert emitted.
Emit ==
    /\ packet # NoPacket
    /\ packet.named # NotYet
    /\ alerts' = Append(alerts, [packet EXCEPT !.keyed = GatewayIp])
    /\ packet' = NoPacket
    /\ UNCHANGED <<start, config, baseline, directory, spoken, claims, moved>>

-----------------------------------------------------------------------------
\* reload_config() of a file edited by hand: detector.config = ...
Reload(c) ==
    /\ Started
    /\ config' = c
    /\ UNCHANGED <<start, baseline, directory, packet, spoken, claims, alerts>>
    /\ moved' = IF packet # NoPacket /\ GatewayIp' # packet.claim.src
                THEN moved \cup {Len(alerts) + 1} ELSE moved

\* What the settings form shows for gateway_ip: Jinja renders None as text.
Prefill == IF config.gateway = Unset THEN NoneText ELSE config.gateway

\* POST /settings: the fields as the form showed them or as changed, written
\* to the file and reloaded.
SaveSettings(gateway, mac) == Reload([gateway |-> gateway, mac |-> mac])

Next ==
    \/ Construct
    \/ \E mac \in Macs, ip \in Addresses :
        HearIp(mac, ip) \/ HearReply(ip, mac) \/ HearOtherReply(ip, mac)
    \/ Describe
    \/ Emit
    \/ \E c \in Config : c.gateway # NoneText /\ Reload(c)
    \/ \E gateway \in Addresses \cup {Prefill}, mac \in Macs \cup {Unset} :
        SaveSettings(gateway, mac)

Spec == Init /\ [][Next]_vars

-----------------------------------------------------------------------------
\* The MAC the program has to trust: pinned at the start, or else the first
\* to claim the watched address.
TrustedMac ==
    IF pinned # Unset THEN pinned
    ELSE IF claims = <<>> THEN Unset ELSE claims[1].mac

\* The first n replies for the watched address, those that contradict it.
Contradictions(n) == {i \in 1..n : claims[i].mac # TrustedMac}

\* The alerts raised, the one being put together included.
Raised == IF packet = NoPacket THEN alerts ELSE Append(alerts, packet)

Alarms(n) == {j \in 1..n : Raised[j].kind = "changed"}

(***************************************************************************)
(* The detector keeps one idea of the gateway's MAC from its first claim   *)
(* to its last, through every reload: each reply for the watched address   *)
(* that contradicts it gives one alarm, the k-th contradiction the k-th    *)
(* alarm, against that MAC, and no other reply gives one.                  *)
(***************************************************************************)
EveryContradictionIsAlarmed ==
    /\ Cardinality(Alarms(Len(Raised))) = Cardinality(Contradictions(Len(claims)))
    /\ \A i \in Contradictions(Len(claims)), j \in Alarms(Len(Raised)) :
        Cardinality(Contradictions(i)) = Cardinality(Alarms(j)) =>
            Raised[j].claim = claims[i] /\ Raised[j].trusted = TrustedMac

(***************************************************************************)
(* The docstring of MacDirectory: the likely attacker an alarm names is an *)
(* address the MAC itself used in IP traffic, never one claimed by ARP.    *)
(***************************************************************************)
SuspectsSpokeForThemselves ==
    \A i \in 1..Len(alerts) :
        alerts[i].suspect # Unset => <<alerts[i].claim.mac, alerts[i].suspect>> \in spoken

(***************************************************************************)
(* An alert names, and is keyed by, the very gateway its reply was about,  *)
(* unless a reload changed the gateway while its packet was in hand.  Then *)
(* the text and the key may each have another gateway, or the text "None"  *)
(* once the settings form saved an unset one, but never a blank: that      *)
(* falls back on the gateway detected at the start.                        *)
(***************************************************************************)
AlertsNameTheirGateway ==
    \A i \in 1..Len(alerts) :
        LET said == {alerts[i].named, alerts[i].keyed} IN
        /\ Unset \notin said
        /\ i \notin moved => said = {alerts[i].claim.src}

(***************************************************************************)
(* With no gateway_ip configured the detector watches the gateway of the   *)
(* first default route of lowest metric on its own interface, and the      *)
(* program refuses to start only if there is none.                         *)
(***************************************************************************)
StartsOnTheDefaultGateway ==
    [][routes' # routes => IsDefaultGateway(resolved', routes)]_vars
=============================================================================
