----------------------------- MODULE NameCanary -----------------------------
(***************************************************************************)
(* NameResolutionCanaryDetector of detectors/name_resolution_canary.py:    *)
(* the names it asks for (net/canary_names.py), the file that keeps their  *)
(* seed from one start to the next (core/state_store.py), and what it      *)
(* makes of the responses it hears.                                        *)
(*                                                                         *)
(* Several processes may use the same file, the service and a console say, *)
(* and each may end at any step of its start.  Its timer is in             *)
(* ServiceLifecycle.                                                       *)
(*                                                                         *)
(* A name is its prefix, "-" and 12 digits of the HMAC of one seed and     *)
(* index, which no other seed or index gives.  Two things can happen to a  *)
(* name on its way.  NetBIOS takes 15 characters: all of the name if its   *)
(* prefix has at most two, and otherwise digits that those of other seeds  *)
(* may begin with too, one from a prefix of 13 and none from a longer one. *)
(* And the detector takes what comes before the first dot, which is in the *)
(* prefix if the prefix has one.                                           *)
(***************************************************************************)
EXTENDS Naturals, FiniteSets

CONSTANTS
    Processes,      \* processes that share the state file
    Seeds,          \* what generate_seed() may return, here or elsewhere
    Prefixes,       \* values of canary_prefix
    CutPrefixes,    \* those of 3 characters and more
    DottedPrefixes, \* those with a dot among the first 15 characters
    Digits,         \* what may be left of the 12 digits behind a cut prefix
    FirstDigits,    \* cut prefix |-> seed and index |-> what is left
    Count,          \* canary_count
    NoSeed,         \* no seed drawn or loaded yet
    NoName,         \* the response lacks that section
    NoProbe         \* no probe is followed

Hmacs == Seeds \X (0..Count - 1)

ASSUME CanaryAssumption ==
    /\ CutPrefixes \subseteq Prefixes /\ DottedPrefixes \subseteq Prefixes
    /\ Count \in Nat \ {0}
    /\ FirstDigits \in [CutPrefixes -> [Hmacs -> Digits]]
    /\ Digits \cap (Hmacs \cup {<<"dot">>}) = {}
    /\ NoSeed \notin Seeds
    /\ {"absent", "truncated", "garbled", "unusable"} \cap Seeds = {}

Protocols == {"llmnr", "mdns", "nbns"}

\* What follows the prefix: the HMAC, its first digits, or what the first dot
\* cuts short.
Tails == Hmacs \cup Digits \cup {<<"dot">>}
Names == [prefix : Prefixes, tail : Tails]

Probes == [protocol : Protocols, name : Names]

ASSUME NothingAssumption == NoName \notin Names /\ NoProbe \notin Probes

VARIABLES
    prefix,     \* config.canary_prefix
    file,       \* the state file: a seed, or why there is none
    at,         \* process |-> where it is in its start
    seed,       \* process |-> the seed it drew or loaded
    alarm,      \* the last response handled raised an alert
    drawn,      \* history: the seeds drawn here
    used,       \* history: the seeds of the processes that came up
    raced,      \* history: two processes drew a seed at once
    damaged,    \* history: the file was damaged from outside
    misread,    \* history: a seed was drawn since the file could not be read
    asked       \* history: one probe that was sent, any of them

vars == <<prefix, file, at, seed, alarm, drawn, used, raced, damaged, misread,
          asked>>

TypeOK ==
    /\ prefix \in Prefixes
    /\ file \in Seeds \cup {"absent", "truncated", "garbled", "unusable"}
    /\ at \in [Processes -> {"down", "load", "open", "write", "up"}]
    /\ seed \in [Processes -> Seeds \cup {NoSeed}]
    /\ \A p \in Processes : at[p] \in {"open", "write", "up"} <=> seed[p] # NoSeed
    /\ {alarm, raced, damaged, misread} \subseteq BOOLEAN
    /\ used \subseteq drawn /\ drawn \subseteq Seeds
    /\ asked \in Probes \cup {NoProbe}

Init ==
    /\ prefix \in Prefixes
    /\ file = "absent"
    /\ at = [p \in Processes |-> "down"]
    /\ seed = [p \in Processes |-> NoSeed]
    /\ alarm = FALSE
    /\ drawn = {} /\ used = {}
    /\ raced = FALSE /\ damaged = FALSE /\ misread = FALSE
    /\ asked = NoProbe

network == <<alarm, asked>>

Move(p, place, s) ==
    /\ at' = [at EXCEPT ![p] = place]
    /\ seed' = [seed EXCEPT ![p] = s]

-----------------------------------------------------------------------------
(* Mistakes a change to this code could make, for the checks to catch.     *)

LoadUncheckedSeed(p) ==
    /\ at[p] = "load" /\ file # "absent"
    /\ Move(p, "up", file)
    /\ used' = used \cup {file}
    /\ UNCHANGED <<prefix, file, drawn, raced, damaged, misread, network>>

LoadAndSaveAgain(p) ==
    /\ at[p] = "load" /\ file \in Seeds
    /\ Move(p, "open", file)
    /\ UNCHANGED <<prefix, file, drawn, used, raced, damaged, misread, network>>

AskedNameOnly(r) == r.question

IsOwnPrefix(p, protocol, name, exact) == name.prefix = prefix

-----------------------------------------------------------------------------
(* get_or_create_seed() and the state file.                                *)

Start(p) ==
    /\ at[p] = "down"
    /\ Move(p, "load", NoSeed)
    /\ UNCHANGED <<prefix, file, drawn, used, raced, damaged, misread, network>>

\* data[key] is there and is the hex of a seed.
LoadSeed(p) ==
    /\ at[p] = "load" /\ file \in Seeds
    /\ Move(p, "up", file)
    /\ used' = used \cup {file}
    /\ UNCHANGED <<prefix, file, drawn, raced, damaged, misread, network>>

\* JSON of another shape, or not UTF-8: load() or get_or_create_seed()
\* raises what nobody catches, and the program does not start.
LoadRaises(p) ==
    /\ at[p] = "load" /\ file = "unusable"
    /\ Move(p, "down", NoSeed)
    /\ UNCHANGED <<prefix, file, drawn, used, raced, damaged, misread, network>>

\* generate_seed(): nobody draws the same again.
Draw(p) ==
    /\ \E s \in Seeds \ drawn :
        /\ Move(p, "open", s)
        /\ drawn' = drawn \cup {s}
    /\ raced' = (raced \/ \E q \in Processes : at[q] \in {"open", "write"})

\* No file, or no JSON: load() returns {}.
DrawSeed(p) ==
    /\ at[p] = "load" /\ file \in {"absent", "truncated", "garbled"}
    /\ Draw(p)
    /\ UNCHANGED <<prefix, file, used, damaged, misread, network>>

\* read_text() raises an OSError, on a file that may be as good as ever:
\* load() returns {} all the same, and save() will replace the seed.
ReadFails(p) ==
    /\ at[p] = "load" /\ file \in Seeds \cup {"unusable"}
    /\ Draw(p)
    /\ misread' = TRUE
    /\ UNCHANGED <<prefix, file, used, damaged, network>>

\* save(): write_text() opens the file for writing.
OpenFile(p) ==
    /\ at[p] = "open"
    /\ file' = "truncated"
    /\ Move(p, "write", seed[p])
    /\ UNCHANGED <<prefix, drawn, used, raced, damaged, misread, network>>

\* The JSON is one short write.
WriteFile(p) ==
    /\ at[p] = "write"
    /\ file' = seed[p]
    /\ Move(p, "up", seed[p])
    /\ used' = used \cup {seed[p]}
    /\ UNCHANGED <<prefix, drawn, raced, damaged, misread, network>>

\* The process is stopped or killed, or is_file() or save() raises an OSError.
End(p) ==
    /\ at[p] # "down"
    /\ Move(p, "down", NoSeed)
    /\ UNCHANGED <<prefix, file, drawn, used, raced, damaged, misread, network>>

\* Someone deletes the file or edits it, or the disk damages it.
Damage ==
    /\ file' \in {"absent", "garbled", "unusable"}
    /\ damaged' = TRUE
    /\ UNCHANGED <<prefix, at, seed, drawn, used, raced, misread, network>>

-----------------------------------------------------------------------------
(* Names.                                                                  *)

CanaryNames(p) == [prefix : {prefix}, tail : {seed[p]} \X (0..Count - 1)]

\* The first 15 characters.  Its upper case matters to no comparison: what
\* is compared with it is put in upper case too.
ToNbnsName(name) ==
    IF name.prefix \in CutPrefixes /\ name.tail \in Hmacs
    THEN [name EXCEPT !.tail = FirstDigits[name.prefix][name.tail]] ELSE name

NbnsCanaryNames(p) == {ToNbnsName(n) : n \in CanaryNames(p)}

\* value.strip(".").split(".")[0]
NormalizeName(name) ==
    IF name.prefix \in DottedPrefixes THEN [name EXCEPT !.tail = <<"dot">>] ELSE name

\* How a probe for the name says it; mDNS's ".local" goes with the dot.
OnWire(protocol, name) == IF protocol = "nbns" THEN ToNbnsName(name) ELSE name

\* _send_probes(): of those that can be sent, one is followed.
SendProbes(p) ==
    /\ at[p] = "up"
    /\ \E protocol \in Protocols, name \in CanaryNames(p) :
        asked' = [protocol |-> protocol, name |-> OnWire(protocol, name)]
    /\ UNCHANGED <<prefix, file, at, seed, alarm, drawn, used, raced, damaged,
                   misread>>

(***************************************************************************)
(* A response names what it answers in its question section, its first     *)
(* answer, or both; LLMNR always in the question and NetBIOS in the        *)
(* answer.  exact says that its upper and lower case are the probe's.      *)
(***************************************************************************)
Responses ==
    { r \in [ protocol : Protocols, question : Names \cup {NoName},
              answer : Names \cup {NoName}, exact : BOOLEAN ] :
        CASE r.protocol = "llmnr" -> r.answer = NoName
          [] r.protocol = "nbns"  -> r.question = NoName
          [] r.protocol = "mdns"  -> r.question = NoName \/ r.answer = NoName
                                        \/ r.question = r.answer }

\* _check_mdns_response(): the question, or else the first answer.
MdnsName(r) == IF r.question # NoName THEN r.question ELSE r.answer

NameIn(r) ==
    CASE r.protocol = "llmnr" -> r.question
      [] r.protocol = "mdns"  -> MdnsName(r)
      [] r.protocol = "nbns"  -> r.answer

\* NetBIOS names are compared in upper case, the others as they come.
IsOwn(p, protocol, name, exact) ==
    IF protocol = "nbns" THEN name \in NbnsCanaryNames(p)
                         ELSE exact /\ name \in CanaryNames(p)

Matches(p, r) ==
    /\ NameIn(r) # NoName
    /\ IsOwn(p, r.protocol, NormalizeName(NameIn(r)), r.exact)

\* handle_packet() on the sniffer thread.
HandlePacket(p, r) ==
    /\ at[p] = "up"
    /\ alarm' = Matches(p, r)
    /\ UNCHANGED <<prefix, file, at, seed, drawn, used, raced, damaged, misread,
                   asked>>

Next ==
    \/ \E p \in Processes :
        \/ Start(p) \/ LoadSeed(p) \/ LoadRaises(p) \/ DrawSeed(p) \/ ReadFails(p)
        \/ OpenFile(p) \/ WriteFile(p) \/ End(p)
        \/ SendProbes(p)
        \/ \E r \in Responses : HandlePacket(p, r)
    \/ Damage

Spec == Init /\ [][Next]_vars

-----------------------------------------------------------------------------
Undisturbed == ~raced /\ ~damaged /\ ~misread

(***************************************************************************)
(* The canary names are those of one seed for ever: through starts, stops  *)
(* and kills at any step, also between truncating the file and writing it, *)
(* unless two first starts overlap, the file is damaged from outside, or a *)
(* start cannot read it.                                                   *)
(***************************************************************************)
NamesAreStable == Undisturbed => Cardinality(used) <= 1

(***************************************************************************)
(* An answer to any probe, sent now, by another process on the same file   *)
(* or before a restart, is recognised by every process that hears it, in   *)
(* each protocol and whether it repeats the question or not, unless the    *)
(* names have changed in one of those three ways or the prefix has a dot.  *)
(***************************************************************************)
EveryAnswerIsRecognised ==
    Undisturbed /\ asked # NoProbe /\ prefix \notin DottedPrefixes =>
        \A p \in Processes, r \in Responses :
            /\ at[p] = "up"
            /\ r.protocol = asked.protocol
            /\ r.exact \/ r.protocol = "nbns"
            /\ asked.name \in {r.question, r.answer}
            => Matches(p, r)

(***************************************************************************)
(* Whose probes are answered in what raises an alert: if a name of another *)
(* seed is taken for one's own, it is in NetBIOS, and one of one's own     *)
(* names has the same digits left.  LLMNR and mDNS names, and NetBIOS      *)
(* names with a prefix of at most two characters, are never mistaken.      *)
(***************************************************************************)
OnlyOwnNamesAreRecognised ==
    \A p \in Processes, r \in Responses :
        at[p] = "up" /\ Matches(p, r) =>
            \A k \in Protocols, h \in Hmacs :
                NameIn(r) = OnWire(k, [prefix |-> prefix, tail |-> h]) =>
                    \/ h[1] = seed[p]
                    \/ /\ r.protocol = "nbns" /\ prefix \in CutPrefixes
                       /\ \E i \in 0..Count - 1 :
                            FirstDigits[prefix][h] = FirstDigits[prefix][<<seed[p], i>>]
=============================================================================
