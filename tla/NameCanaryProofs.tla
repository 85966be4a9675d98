--------------------------- MODULE NameCanaryProofs ---------------------------
(***************************************************************************)
(* NameCanary for any number of processes, seeds, prefixes and names.      *)
(*                                                                         *)
(* The inductive invariant says what the file has to do with the seeds in  *)
(* use.  As long as nothing disturbs them, every process that is up has    *)
(* the seed of the file; a process that drew one is the only one on its    *)
(* way to the file, which has none until it gets there; and the probe that *)
(* is followed asks for a name of the seed in the file.                    *)
(***************************************************************************)
EXTENDS NameCanary, FiniteSetTheorems, TLAPS

\* A process that drew a seed and has not yet written it.
Drawing(p) == at[p] \in {"open", "write"}

\* Seeds in use, in the file or in hand were drawn here.
DrawnInv ==
    /\ file \in Seeds => file \in drawn
    /\ \A p \in Processes : seed[p] # NoSeed => seed[p] \in drawn

SeedInv ==
    Undisturbed =>
        /\ used = IF file \in Seeds THEN {file} ELSE {}
        /\ \A p \in Processes : Drawing(p) => file \notin Seeds
        /\ \A p, q \in Processes : Drawing(p) /\ Drawing(q) => p = q
        /\ \A p \in Processes : at[p] = "up" => file \in Seeds /\ seed[p] = file

\* What a probe for a canary of seed s may say.
ProbesOf(s) ==
    { [protocol |-> k, name |-> OnWire(k, n)] :
        k \in Protocols, n \in [prefix : {prefix}, tail : {s} \X (0..Count - 1)] }

AskedInv ==
    Undisturbed /\ asked # NoProbe => file \in Seeds /\ asked \in ProbesOf(file)

-----------------------------------------------------------------------------
\* Every process moves on its own.
LEMMA MoveOne ==
    ASSUME TypeOK, NEW p \in Processes, NEW place, NEW s, Move(p, place, s)
    PROVE  /\ at'[p] = place /\ seed'[p] = s
           /\ \A q \in Processes : q # p => at'[q] = at[q] /\ seed'[q] = seed[q]
BY DEF TypeOK, Move

\* A process moves to a place and a seed that go together.
LEMMA MoveTyped ==
    ASSUME TypeOK, NEW p \in Processes,
           NEW place \in {"down", "load", "open", "write", "up"},
           NEW s \in Seeds \cup {NoSeed}, Move(p, place, s),
           place \in {"open", "write", "up"} <=> s # NoSeed
    PROVE  /\ at' \in [Processes -> {"down", "load", "open", "write", "up"}]
           /\ seed' \in [Processes -> Seeds \cup {NoSeed}]
           /\ \A q \in Processes :
                at'[q] \in {"open", "write", "up"} <=> seed'[q] # NoSeed
BY DEF TypeOK, Move

\* A process that has a seed has one of Seeds.
LEMMA SeedInHand ==
    ASSUME TypeOK, NEW p \in Processes, at[p] \in {"open", "write", "up"}
    PROVE  seed[p] \in Seeds
BY DEF TypeOK

\* The names a canary can have, whole or cut for NetBIOS.
LEMMA NamesTyped ==
    ASSUME TypeOK, NEW s \in Seeds, NEW k \in Protocols,
           NEW n \in [prefix : {prefix}, tail : {s} \X (0..Count - 1)]
    PROVE  [protocol |-> k, name |-> OnWire(k, n)] \in Probes
<1>1. n \in Names
  BY DEF TypeOK, Names, Tails, Hmacs
<1>2. ToNbnsName(n) \in Names
  <2>1. CASE n.prefix \in CutPrefixes /\ n.tail \in Hmacs
    <3>1. FirstDigits[n.prefix][n.tail] \in Digits
      BY <2>1, CanaryAssumption
    <3> QED
      BY <1>1, <2>1, <3>1 DEF ToNbnsName, Names, Tails
  <2>2. CASE ~(n.prefix \in CutPrefixes /\ n.tail \in Hmacs)
    BY <1>1, <2>2 DEF ToNbnsName
  <2> QED
    BY <2>1, <2>2
<1> QED
  BY <1>1, <1>2 DEF OnWire, Probes

-----------------------------------------------------------------------------
(***************************************************************************)
(* Every variable stays in its set: a process past get_or_create_seed has  *)
(* a seed, and one that was drawn here.                                    *)
(***************************************************************************)
THEOREM TypeCorrect == Spec => []TypeOK
<1>1. Init => TypeOK /\ DrawnInv
  BY CanaryAssumption DEF Init, TypeOK, DrawnInv
<1>2. TypeOK /\ DrawnInv /\ [Next]_vars => TypeOK' /\ DrawnInv'
  <2> SUFFICES ASSUME TypeOK, DrawnInv, [Next]_vars PROVE TypeOK' /\ DrawnInv'
    OBVIOUS
  <2> USE DEF network
  <2>1. ASSUME NEW p \in Processes, Start(p) \/ LoadRaises(p) \/ End(p)
        PROVE  TypeOK' /\ DrawnInv'
    <3>1. PICK place \in {"down", "load"} : Move(p, place, NoSeed)
      BY <2>1 DEF Start, LoadRaises, End
    <3>2. UNCHANGED <<prefix, file, alarm, drawn, used, raced, damaged, misread, asked>>
      BY <2>1 DEF Start, LoadRaises, End
    <3> QED
      BY <3>1, <3>2, MoveTyped, MoveOne DEF TypeOK, DrawnInv
  <2>2. ASSUME NEW p \in Processes, LoadSeed(p) PROVE TypeOK' /\ DrawnInv'
    <3>1. Move(p, "up", file) /\ file \in Seeds /\ file # NoSeed
      BY <2>2, CanaryAssumption DEF LoadSeed
    <3>2. used' = used \cup {file} /\ file \in drawn
      BY <2>2 DEF LoadSeed, DrawnInv
    <3> QED
      BY <2>2, <3>1, <3>2, MoveTyped, MoveOne DEF LoadSeed, TypeOK, DrawnInv
  <2>3. ASSUME NEW p \in Processes, DrawSeed(p) \/ ReadFails(p)
        PROVE  TypeOK' /\ DrawnInv'
    <3>1. PICK s \in Seeds \ drawn : Move(p, "open", s) /\ drawn' = drawn \cup {s}
      BY <2>3 DEF DrawSeed, ReadFails, Draw
    <3>2. s # NoSeed
      BY CanaryAssumption
    <3>3. raced' \in BOOLEAN /\ misread' \in BOOLEAN
      BY <2>3 DEF DrawSeed, ReadFails, Draw, TypeOK
    <3>4. UNCHANGED <<prefix, file, used, alarm, damaged, asked>>
      BY <2>3 DEF DrawSeed, ReadFails
    <3> QED
      BY <3>1, <3>2, <3>3, <3>4, MoveTyped, MoveOne DEF TypeOK, DrawnInv
  <2>4. ASSUME NEW p \in Processes, OpenFile(p) PROVE TypeOK' /\ DrawnInv'
    <3>1. seed[p] \in Seeds /\ seed[p] # NoSeed
      BY <2>4, SeedInHand, CanaryAssumption DEF OpenFile
    <3>2. Move(p, "write", seed[p]) /\ file' = "truncated" /\ file' \notin Seeds
      BY <2>4, CanaryAssumption DEF OpenFile
    <3> QED
      BY <2>4, <3>1, <3>2, MoveTyped, MoveOne DEF OpenFile, TypeOK, DrawnInv
  <2>5. ASSUME NEW p \in Processes, WriteFile(p) PROVE TypeOK' /\ DrawnInv'
    <3>1. seed[p] \in Seeds /\ seed[p] # NoSeed
      BY <2>5, SeedInHand, CanaryAssumption DEF WriteFile
    <3>2. Move(p, "up", seed[p]) /\ file' = seed[p] /\ seed[p] \in drawn
      BY <2>5, <3>1 DEF WriteFile, DrawnInv
    <3> QED
      BY <2>5, <3>1, <3>2, MoveTyped, MoveOne DEF WriteFile, TypeOK, DrawnInv
  <2>6. ASSUME NEW p \in Processes, SendProbes(p) PROVE TypeOK' /\ DrawnInv'
    <3>1. seed[p] \in Seeds
      BY <2>6, SeedInHand DEF SendProbes
    <3>2. asked' \in Probes
      BY <2>6, <3>1, NamesTyped DEF SendProbes, CanaryNames
    <3> QED
      BY <2>6, <3>2 DEF SendProbes, TypeOK, DrawnInv
  <2>7. ASSUME NEW p \in Processes, NEW r \in Responses, HandlePacket(p, r)
        PROVE  TypeOK' /\ DrawnInv'
    <3>1. alarm' \in BOOLEAN
      BY <2>7, Zenon DEF HandlePacket, Matches
    <3> QED
      BY <2>7, <3>1 DEF HandlePacket, TypeOK, DrawnInv
  <2>8. CASE Damage
    <3>1. file' \notin Seeds
      BY <2>8, CanaryAssumption DEF Damage
    <3> QED
      BY <2>8, <3>1 DEF Damage, TypeOK, DrawnInv
  <2>9. CASE UNCHANGED vars
    BY <2>9 DEF vars, TypeOK, DrawnInv
  <2> QED
    BY <2>1, <2>2, <2>3, <2>4, <2>5, <2>6, <2>7, <2>8, <2>9 DEF Next
<1> QED
  BY <1>1, <1>2, PTL DEF Spec

-----------------------------------------------------------------------------
\* No step changes the seed of the file once a process has come up with it.
LEMMA SeedsAreKept ==
    ASSUME TypeOK, TypeOK', SeedInv, [Next]_vars
    PROVE  SeedInv'
<1> SUFFICES ASSUME Undisturbed'
             PROVE  SeedInv'
  BY DEF SeedInv
<1> USE DEF network, Drawing
<1>1. ASSUME NEW p \in Processes, Start(p) \/ LoadRaises(p) \/ End(p)
      PROVE  SeedInv'
  <2>1. PICK place \in {"down", "load"} : Move(p, place, NoSeed)
    BY <1>1 DEF Start, LoadRaises, End
  <2>2. UNCHANGED <<file, used, raced, damaged, misread>>
    BY <1>1 DEF Start, LoadRaises, End
  <2> QED
    BY <2>1, <2>2, MoveOne DEF SeedInv, Undisturbed
<1>2. ASSUME NEW p \in Processes, LoadSeed(p) PROVE SeedInv'
  BY <1>2, MoveOne DEF LoadSeed, SeedInv, Undisturbed
<1>3. ASSUME NEW p \in Processes, DrawSeed(p) PROVE SeedInv'
  <2>1. file \notin Seeds /\ file' = file /\ used' = used
    BY <1>3, CanaryAssumption DEF DrawSeed
  <2>2. Undisturbed /\ \A q \in Processes : ~Drawing(q)
    BY <1>3 DEF DrawSeed, Draw, Undisturbed
  <2>3. \E s : Move(p, "open", s)
    BY <1>3 DEF DrawSeed, Draw
  <2> QED
    BY <2>1, <2>2, <2>3, MoveOne DEF SeedInv
<1>4. ASSUME NEW p \in Processes, OpenFile(p) PROVE SeedInv'
  <2>1. file' \notin Seeds /\ Undisturbed /\ used' = used
    BY <1>4, CanaryAssumption DEF OpenFile, Undisturbed
  <2> QED
    BY <1>4, <2>1, MoveOne DEF OpenFile, SeedInv
<1>5. ASSUME NEW p \in Processes, WriteFile(p) PROVE SeedInv'
  <2>1. Undisturbed /\ file \notin Seeds /\ used = {}
    BY <1>5 DEF WriteFile, Undisturbed, SeedInv
  <2>2. file' = seed[p] /\ file' \in Seeds /\ used' = {file'}
    BY <1>5, <2>1, SeedInHand DEF WriteFile
  <2>3. \A q \in Processes : q # p => at[q] \notin {"open", "write", "up"}
    BY <1>5, <2>1 DEF WriteFile, SeedInv
  <2> QED
    BY <1>5, <2>2, <2>3, MoveOne DEF WriteFile, SeedInv
<1>6. CASE UNCHANGED <<file, at, seed, used, raced, damaged, misread>>
  BY <1>6 DEF SeedInv, Undisturbed
<1>7. ~Damage /\ \A p \in Processes : ~ReadFails(p)
  BY DEF Damage, ReadFails, Undisturbed
<1> QED
  BY <1>1, <1>2, <1>3, <1>4, <1>5, <1>6, <1>7
  DEF Next, SendProbes, HandlePacket, vars

LEMMA SeedsAreInvariant == Spec => []SeedInv
<1>1. Init => SeedInv
  BY CanaryAssumption DEF Init, SeedInv, Drawing
<1>2. TypeOK /\ TypeOK' /\ SeedInv /\ [Next]_vars => SeedInv'
  BY SeedsAreKept
<1> QED
  BY <1>1, <1>2, TypeCorrect, PTL DEF Spec

(***************************************************************************)
(* The canary names are those of one seed for ever, through stops and      *)
(* kills at any step of any number of processes.                           *)
(***************************************************************************)
THEOREM NamesStay == Spec => []NamesAreStable
<1>1. SeedInv => NamesAreStable
  <2> SUFFICES ASSUME SeedInv, Undisturbed PROVE Cardinality(used) <= 1
    BY DEF NamesAreStable
  <2>1. CASE used = {}
    BY <2>1, FS_EmptySet
  <2>2. CASE used = {file}
    BY <2>2, FS_Singleton
  <2> QED
    BY <2>1, <2>2 DEF SeedInv
<1> QED
  BY <1>1, SeedsAreInvariant, PTL

-----------------------------------------------------------------------------
\* The name that a probe for a canary of seed s asks for.
LEMMA ProbeName ==
    ASSUME TypeOK, NEW s \in Seeds, NEW probe \in ProbesOf(s)
    PROVE  \E n \in [prefix : {prefix}, tail : {s} \X (0..Count - 1)] :
            /\ probe.name = OnWire(probe.protocol, n)
            /\ probe.protocol \in Protocols
            /\ probe.name \in Names
            /\ probe.name.prefix = prefix
<1>1. PICK k \in Protocols, n \in [prefix : {prefix}, tail : {s} \X (0..Count - 1)] :
          probe = [protocol |-> k, name |-> OnWire(k, n)]
  BY DEF ProbesOf
<1>2. probe.name = OnWire(k, n) /\ probe.protocol = k
  BY <1>1
<1>3. probe.name \in Names
  BY <1>1, NamesTyped DEF Probes
<1>4. OnWire(k, n).prefix = prefix
  BY DEF OnWire, ToNbnsName
<1> QED
  BY <1>2, <1>3, <1>4

\* The probe that is followed goes on asking for a name of the file's seed.
LEMMA AskedIsInvariant == Spec => []AskedInv
<1>1. Init => AskedInv
  BY DEF Init, AskedInv
<1>2. TypeOK /\ SeedInv /\ AskedInv /\ [Next]_vars => AskedInv'
  <2> SUFFICES ASSUME TypeOK, SeedInv, AskedInv, [Next]_vars, Undisturbed',
                      asked' # NoProbe
               PROVE  (file \in Seeds /\ asked \in ProbesOf(file))'
    BY DEF AskedInv
  <2> USE DEF network
  <2>1. prefix' = prefix
    BY DEF Next, Start, LoadSeed, LoadRaises, DrawSeed, ReadFails, OpenFile,
           WriteFile, End, SendProbes, HandlePacket, Damage, vars
  <2>2. file' = file => ProbesOf(file)' = ProbesOf(file)
    BY <2>1 DEF ProbesOf
  <2>3. ASSUME NEW p \in Processes, SendProbes(p)
        PROVE  (file \in Seeds /\ asked \in ProbesOf(file))'
    <3>1. file' = file /\ file \in Seeds /\ seed[p] = file
      BY <2>3 DEF SendProbes, SeedInv, Undisturbed
    <3>2. PICK k \in Protocols, n \in CanaryNames(p) :
              asked' = [protocol |-> k, name |-> OnWire(k, n)]
      BY <2>3 DEF SendProbes
    <3>3. n \in [prefix : {prefix}, tail : {file} \X (0..Count - 1)]
      BY <3>1, <3>2 DEF CanaryNames
    <3>4. asked' \in ProbesOf(file)
      BY <3>2, <3>3 DEF ProbesOf
    <3> QED
      BY <2>2, <3>1, <3>4
  <2>4. ASSUME NEW p \in Processes, OpenFile(p) \/ WriteFile(p) PROVE FALSE
    <3>1. Undisturbed /\ asked # NoProbe /\ Drawing(p)
      BY <2>4 DEF OpenFile, WriteFile, Undisturbed, Drawing
    <3> QED
      BY <3>1 DEF AskedInv, SeedInv
  <2>5. ~Damage /\ \A p \in Processes : ~ReadFails(p)
    BY DEF Damage, ReadFails, Undisturbed
  <2>6. CASE UNCHANGED <<file, asked>> /\ Undisturbed
    BY <2>2, <2>6 DEF AskedInv
  <2>7. ASSUME NEW p \in Processes,
               \/ Start(p) \/ LoadSeed(p) \/ LoadRaises(p) \/ DrawSeed(p) \/ End(p)
               \/ \E r \in Responses : HandlePacket(p, r)
        PROVE  UNCHANGED <<file, asked>> /\ Undisturbed
    <3>1. CASE DrawSeed(p)
      BY <3>1 DEF DrawSeed, Draw, Undisturbed
    <3>2. CASE Start(p) \/ LoadSeed(p) \/ LoadRaises(p) \/ End(p)
      BY <3>2 DEF Start, LoadSeed, LoadRaises, End, Undisturbed
    <3>3. CASE \E r \in Responses : HandlePacket(p, r)
      BY <3>3 DEF HandlePacket, Undisturbed
    <3> QED
      BY <2>7, <3>1, <3>2, <3>3
  <2>8. UNCHANGED vars => UNCHANGED <<file, asked>> /\ Undisturbed
    BY DEF vars, Undisturbed
  <2> QED
    BY <2>3, <2>4, <2>5, <2>6, <2>7, <2>8 DEF Next
<1> QED
  BY <1>1, <1>2, TypeCorrect, SeedsAreInvariant, PTL DEF Spec

(***************************************************************************)
(* Whoever answers a probe, and however long after it was sent, is         *)
(* recognised by every process that hears the answer.                      *)
(***************************************************************************)
THEOREM AnswersAreRecognised == Spec => []EveryAnswerIsRecognised
<1>1. TypeOK /\ SeedInv /\ AskedInv => EveryAnswerIsRecognised
  <2> SUFFICES ASSUME TypeOK, SeedInv, AskedInv, Undisturbed, asked # NoProbe,
                      prefix \notin DottedPrefixes,
                      NEW p \in Processes, NEW r \in Responses, at[p] = "up",
                      r.protocol = asked.protocol, r.exact \/ r.protocol = "nbns",
                      asked.name \in {r.question, r.answer}
               PROVE  Matches(p, r)
    BY DEF EveryAnswerIsRecognised
  <2>1. file \in Seeds /\ seed[p] = file /\ asked \in ProbesOf(file)
    BY DEF SeedInv, AskedInv
  <2>2. PICK n \in [prefix : {prefix}, tail : {file} \X (0..Count - 1)] :
            /\ asked.name = OnWire(asked.protocol, n)
            /\ asked.protocol \in Protocols
            /\ asked.name \in Names
            /\ asked.name.prefix = prefix
    BY <2>1, ProbeName
  <2>3. NameIn(r) = asked.name /\ NameIn(r) # NoName
    BY <2>2, NothingAssumption DEF Responses, NameIn, MdnsName, Protocols
  <2>4. NormalizeName(asked.name) = asked.name
    BY <2>2 DEF NormalizeName
  <2>5. n \in CanaryNames(p) /\ ToNbnsName(n) \in NbnsCanaryNames(p)
    BY <2>1 DEF CanaryNames, NbnsCanaryNames
  <2>6. IsOwn(p, r.protocol, asked.name, r.exact)
    BY <2>2, <2>5 DEF IsOwn, OnWire
  <2> QED
    BY <2>3, <2>4, <2>6 DEF Matches
<1> QED
  BY <1>1, TypeCorrect, SeedsAreInvariant, AskedIsInvariant, PTL

-----------------------------------------------------------------------------
\* The name of a canary as a probe for it says it: with its digits, or what
\* NetBIOS leaves of them.
LEMMA TailOnWire ==
    ASSUME NEW k \in Protocols, NEW q \in Prefixes, NEW h \in Hmacs
    PROVE  LET name == OnWire(k, [prefix |-> q, tail |-> h]) IN
           /\ name \in Names /\ name.prefix = q
           /\ \/ name.tail = h
              \/ q \in CutPrefixes /\ name.tail = FirstDigits[q][h]
           /\ q \notin CutPrefixes => name.tail = h
<1> DEFINE whole == [prefix |-> q, tail |-> h]
<1>1. whole \in Names /\ whole.prefix = q /\ whole.tail = h
  BY DEF Names, Tails
<1>2. CASE k = "nbns" /\ q \in CutPrefixes
  <2>1. FirstDigits[q][h] \in Digits
    BY <1>2, CanaryAssumption
  <2>2. OnWire(k, whole) = [whole EXCEPT !.tail = FirstDigits[q][h]]
    BY <1>1, <1>2 DEF OnWire, ToNbnsName
  <2> QED
    BY <1>1, <1>2, <2>1, <2>2 DEF Names, Tails
<1>3. CASE ~(k = "nbns" /\ q \in CutPrefixes)
  <2>1. OnWire(k, whole) = whole
    BY <1>1, <1>3 DEF OnWire, ToNbnsName
  <2> QED
    BY <1>1, <2>1
<1> QED
  BY <1>2, <1>3

\* What a response names is compared with one of the process's own names.
LEMMA OwnTail ==
    ASSUME TypeOK, NEW p \in Processes, NEW r \in Responses, at[p] = "up",
           Matches(p, r)
    PROVE  /\ NameIn(r) \in Names
           /\ \E i \in 0..Count - 1 :
                \/ NameIn(r).tail = <<seed[p], i>>
                \/ /\ r.protocol = "nbns" /\ prefix \in CutPrefixes
                   /\ NameIn(r).tail = FirstDigits[prefix][<<seed[p], i>>]
<1> DEFINE n == NameIn(r)
<1>1. n \in Names
  BY DEF Matches, NameIn, MdnsName, Responses, Protocols
<1>2. seed[p] \in Seeds
  BY SeedInHand
<1>3. PICK m \in CanaryNames(p) :
        \/ NormalizeName(n) = m
        \/ r.protocol = "nbns" /\ NormalizeName(n) = ToNbnsName(m)
  BY DEF Matches, IsOwn, NbnsCanaryNames
<1>4. PICK i \in 0..Count - 1 : m.tail = <<seed[p], i>>
  BY DEF CanaryNames
<1>5. m.prefix = prefix /\ m.tail \in Hmacs /\ <<seed[p], i>> \in Hmacs
  BY <1>2, <1>4 DEF CanaryNames, Hmacs
<1>6. m = [prefix |-> prefix, tail |-> m.tail]
  BY DEF CanaryNames
<1>7. \/ ToNbnsName(m).tail = <<seed[p], i>>
      \/ prefix \in CutPrefixes /\ ToNbnsName(m).tail = FirstDigits[prefix][<<seed[p], i>>]
  BY <1>4, <1>5, <1>6 DEF ToNbnsName
<1>8. m.tail # <<"dot">> /\ ToNbnsName(m).tail # <<"dot">>
  <2>1. m.tail # <<"dot">> /\ <<seed[p], i>> # <<"dot">>
    BY <1>4
  <2>2. prefix \in CutPrefixes => FirstDigits[prefix][<<seed[p], i>>] \in Digits
    BY <1>5, CanaryAssumption
  <2>3. <<"dot">> \notin Digits
    BY CanaryAssumption
  <2> QED
    BY <1>7, <2>1, <2>2, <2>3
<1>9. NormalizeName(n) = n
  <2> SUFFICES ASSUME n.prefix \in DottedPrefixes PROVE FALSE
    BY DEF NormalizeName
  <2>1. NormalizeName(n).tail = <<"dot">>
    BY <1>1 DEF NormalizeName, Names
  <2> QED
    BY <1>3, <1>8, <2>1
<1> QED
  BY <1>1, <1>3, <1>4, <1>7, <1>9

(***************************************************************************)
(* Another seed's name is taken for one's own only in NetBIOS, and only if *)
(* one of one's own has the same digits left, whatever the HMACs are and   *)
(* however many of their digits a prefix leaves.                           *)
(***************************************************************************)
THEOREM NothingElseIsTaken == Spec => []OnlyOwnNamesAreRecognised
<1>1. TypeOK => OnlyOwnNamesAreRecognised
  <2> SUFFICES ASSUME TypeOK, NEW p \in Processes, NEW r \in Responses,
                      at[p] = "up", Matches(p, r),
                      NEW k \in Protocols, NEW h \in Hmacs,
                      NameIn(r) = OnWire(k, [prefix |-> prefix, tail |-> h])
               PROVE  \/ h[1] = seed[p]
                      \/ /\ r.protocol = "nbns" /\ prefix \in CutPrefixes
                         /\ \E i \in 0..Count - 1 : FirstDigits[prefix][h] =
                                FirstDigits[prefix][<<seed[p], i>>]
    BY DEF OnlyOwnNamesAreRecognised
  <2> DEFINE tail == NameIn(r).tail
  <2>1. prefix \in Prefixes /\ seed[p] \in Seeds
    BY SeedInHand DEF TypeOK
  <2>2. PICK i \in 0..Count - 1 :
            \/ tail = <<seed[p], i>>
            \/ /\ r.protocol = "nbns" /\ prefix \in CutPrefixes
               /\ tail = FirstDigits[prefix][<<seed[p], i>>]
    BY OwnTail
  <2>3. \/ tail = h
        \/ prefix \in CutPrefixes /\ tail = FirstDigits[prefix][h]
    BY <2>1, TailOnWire
  <2>4. <<seed[p], i>> \in Hmacs
    BY <2>1 DEF Hmacs
  <2>5. prefix \in CutPrefixes =>
            /\ FirstDigits[prefix][h] \in Digits
            /\ FirstDigits[prefix][<<seed[p], i>>] \in Digits
    BY <2>4, CanaryAssumption
  <2>6. Digits \cap Hmacs = {}
    BY CanaryAssumption
  <2>7. CASE tail \in Hmacs
    <3>1. tail = h /\ tail = <<seed[p], i>>
      BY <2>2, <2>3, <2>5, <2>6, <2>7
    <3> QED
      BY <3>1
  <2>8. CASE tail \notin Hmacs
    BY <2>2, <2>3, <2>4, <2>8
  <2> QED
    BY <2>7, <2>8
<1> QED
  BY <1>1, TypeCorrect, PTL
=============================================================================
