--------------------------- MODULE ArpSpoofProofs ---------------------------
(***************************************************************************)
(* ArpSpoof for any addresses, MACs and route tables and for any number of *)
(* replies and reloads.                                                    *)
(*                                                                         *)
(* The alarms are inductive together with the fact that the baseline is    *)
(* the MAC to trust (IInv): it is what a reply is compared with, and no    *)
(* step moves it once there is one.  The count of contradictions and the   *)
(* count of alarms grow together, so a new alarm and a new contradiction   *)
(* are each other's and disturb no earlier pair.                           *)
(***************************************************************************)
EXTENDS ArpSpoof, FiniteSetTheorems, SequenceTheorems, TLAPS

\* EveryContradictionIsAlarmed of any replies, trusted MAC and alerts.
Contradicting(c, t, n) == {i \in 1..n : c[i].mac # t}

Alarming(q, n) == {j \in 1..n : q[j].kind = "changed"}

Answered(c, t, q) ==
    /\ Cardinality(Alarming(q, Len(q))) = Cardinality(Contradicting(c, t, Len(c)))
    /\ \A i \in Contradicting(c, t, Len(c)), j \in Alarming(q, Len(q)) :
        Cardinality(Contradicting(c, t, i)) = Cardinality(Alarming(q, j)) =>
            q[j].claim = c[i] /\ q[j].trusted = t

\* Nothing is heard, and no configuration reloaded, before the detector is
\* built; the route table is read at most once.
Beginning ==
    /\ ~Started => config.gateway # NoneText /\ packet = NoPacket
    /\ routes # <<>> => ~Started /\ config.gateway = Unset

\* What the directory knows was said in IP traffic, and so is what is taken
\* from it.
SpokeIfSuspect(a) == a.suspect # Unset => <<a.claim.mac, a.suspect>> \in spoken

DirectoryInv ==
    /\ \A m \in Macs : directory[m] # Unset => <<m, directory[m]>> \in spoken
    /\ packet # NoPacket => SpokeIfSuspect(packet)
    /\ \A i \in 1..Len(alerts) : SpokeIfSuspect(alerts[i])

Gateways == Addresses \cup {NoneText}

\* Until a reload moves it the watch is on the gateway of the reply in hand,
\* so that is what its text and its key are given.
NamesInv ==
    /\ packet # NoPacket /\ Len(alerts) + 1 \notin moved =>
            /\ GatewayIp = packet.claim.src
            /\ packet.named \in {NotYet, packet.claim.src}
    /\ \A i \in 1..Len(alerts) :
            /\ alerts[i].named \in Gateways /\ alerts[i].keyed \in Gateways
            /\ i \notin moved => /\ alerts[i].named = alerts[i].claim.src
                               /\ alerts[i].keyed = alerts[i].claim.src

AlarmInv ==
    /\ baseline = TrustedMac
    /\ Answered(claims, TrustedMac, Raised)

-----------------------------------------------------------------------------
(* Counting: of the numbers 1..n, those in a set.                          *)

UpTo(S, n) == {i \in 1..n : i \in S}

LEMMA UpToFinite ==
    ASSUME NEW S, NEW n \in Nat
    PROVE  IsFiniteSet(UpTo(S, n)) /\ Cardinality(UpTo(S, n)) \in Nat
<1>1. IsFiniteSet(1..n)
  BY FS_Interval
<1>2. UpTo(S, n) \subseteq 1..n
  BY DEF UpTo
<1>3. IsFiniteSet(UpTo(S, n))
  BY <1>1, <1>2, FS_Subset
<1> QED
  BY <1>3, FS_CardinalityType

LEMMA UpToNext ==
    ASSUME NEW S, NEW n \in Nat
    PROVE  Cardinality(UpTo(S, n + 1)) =
            IF n + 1 \in S THEN Cardinality(UpTo(S, n)) + 1
                           ELSE Cardinality(UpTo(S, n))
<1>1. n + 1 \notin UpTo(S, n)
  BY DEF UpTo
<1>2. UpTo(S, n + 1) = IF n + 1 \in S THEN UpTo(S, n) \cup {n + 1} ELSE UpTo(S, n)
  BY DEF UpTo
<1> QED
  BY <1>1, <1>2, UpToFinite, FS_AddElement

LEMMA UpToGrows ==
    ASSUME NEW S, NEW n \in Nat, NEW i \in 0..n
    PROVE  Cardinality(UpTo(S, i)) <= Cardinality(UpTo(S, n))
<1>1. UpTo(S, i) \subseteq UpTo(S, n)
  BY DEF UpTo
<1> QED
  BY <1>1, UpToFinite, FS_Subset

\* Both counts of Answered are of this kind.
Contrary(c, t) == {i \in Nat : c[i].mac # t}

Changed(q) == {j \in Nat : q[j].kind = "changed"}

LEMMA Countings ==
    ASSUME NEW n \in Nat
    PROVE  /\ \A c, t : Contradicting(c, t, n) = UpTo(Contrary(c, t), n)
           /\ \A q : Alarming(q, n) = UpTo(Changed(q), n)
BY DEF Contradicting, Alarming, UpTo, Contrary, Changed

-----------------------------------------------------------------------------
(* How Answered goes on.                                                   *)

\* Alerts that differ in nothing it speaks of are as good.
LEMMA AnsweredAlike ==
    ASSUME NEW c, NEW t, NEW q, NEW r, Len(q) \in Nat, Len(r) = Len(q),
           \A j \in 1..Len(q) :
                /\ r[j].kind = q[j].kind
                /\ r[j].claim = q[j].claim
                /\ r[j].trusted = q[j].trusted,
           Answered(c, t, q)
    PROVE  Answered(c, t, r)
<1>1. \A n \in 0..Len(q) : Alarming(r, n) = Alarming(q, n)
  BY DEF Alarming
<1>2. Alarming(q, Len(q)) \subseteq 1..Len(q)
  BY DEF Alarming
<1> QED
  BY <1>1, <1>2 DEF Answered

\* A reply with the trusted MAC calls for no alarm.
LEMMA AnsweredAgreeing ==
    ASSUME NEW c \in Seq(Claim), NEW t, NEW q, NEW x \in Claim, x.mac = t,
           Answered(c, t, q)
    PROVE  Answered(Append(c, x), t, q)
<1> DEFINE d == Append(c, x)
<1>1. /\ Len(c) \in Nat /\ Len(d) = Len(c) + 1
      /\ \A i \in 1..Len(c) : d[i] = c[i]
      /\ d[Len(c) + 1] = x
  BY AppendProperties
<1> HIDE DEF d
<1>2. \A n \in 0..Len(c) : Contradicting(d, t, n) = Contradicting(c, t, n)
  BY <1>1 DEF Contradicting
<1>3. Contradicting(d, t, Len(d)) = Contradicting(c, t, Len(c))
  BY <1>1 DEF Contradicting
<1>4. Contradicting(c, t, Len(c)) \subseteq 1..Len(c)
  BY DEF Contradicting
<1> QED
  BY <1>1, <1>2, <1>3, <1>4 DEF Answered, d

\* A contradiction and its alarm are the last of both.
LEMMA AnsweredContradicting ==
    ASSUME NEW c \in Seq(Claim), NEW t, NEW q \in Seq(Report),
           NEW x \in Claim, x.mac # t,
           NEW a \in Report, a.kind = "changed", a.claim = x, a.trusted = t,
           Answered(c, t, q)
    PROVE  Answered(Append(c, x), t, Append(q, a))
<1> DEFINE d == Append(c, x)
           r == Append(q, a)
           m == Len(c)
           n == Len(q)
<1>1. /\ m \in Nat /\ Len(d) = m + 1 /\ d[m + 1] = x
      /\ \A i \in 1..m : d[i] = c[i]
  BY AppendProperties
<1>2. /\ n \in Nat /\ Len(r) = n + 1 /\ r[n + 1] = a
      /\ \A j \in 1..n : r[j] = q[j]
  BY AppendProperties
<1> DEFINE k == Cardinality(Contradicting(c, t, m))
<1>3. k \in Nat /\ Cardinality(Alarming(q, n)) = k
  BY <1>1, Countings, UpToFinite DEF Answered
<1> HIDE DEF d, r, m, n, k
<1>4. /\ \A i \in 0..m : Contradicting(d, t, i) = Contradicting(c, t, i)
      /\ \A j \in 0..n : Alarming(r, j) = Alarming(q, j)
  BY <1>1, <1>2 DEF Contradicting, Alarming
<1>5. Cardinality(Contradicting(d, t, m + 1)) = k + 1
  <2> DEFINE S == Contrary(d, t)
  <2>1. Cardinality(UpTo(S, m)) = k /\ m + 1 \in S
    <3>1. UpTo(S, m) = Contradicting(c, t, m)
      BY <1>1, <1>4, Countings
    <3>2. m + 1 \in S
      BY <1>1 DEF Contrary
    <3> QED
      BY <3>1, <3>2 DEF k
  <2>2. Cardinality(UpTo(S, m + 1)) = k + 1
    BY <1>1, <2>1, UpToNext
  <2>3. Contradicting(d, t, m + 1) = UpTo(S, m + 1)
    BY <1>1, Countings
  <2> QED
    BY <2>2, <2>3
<1>6. Cardinality(Alarming(r, n + 1)) = k + 1
  <2> DEFINE S == Changed(r)
  <2>1. Cardinality(UpTo(S, n)) = k /\ n + 1 \in S
    <3>1. UpTo(S, n) = Alarming(q, n)
      BY <1>2, <1>4, Countings
    <3>2. n + 1 \in S
      BY <1>2 DEF Changed
    <3> QED
      BY <1>3, <3>1, <3>2
  <2>2. Cardinality(UpTo(S, n + 1)) = k + 1
    BY <1>2, <2>1, UpToNext
  <2>3. Alarming(r, n + 1) = UpTo(S, n + 1)
    BY <1>2, Countings
  <2> QED
    BY <2>2, <2>3
<1>7. \A i \in 0..m : /\ Cardinality(Contradicting(d, t, i)) \in Nat
                      /\ Cardinality(Contradicting(d, t, i)) <= k
  <2> TAKE i \in 0..m
  <2>1. Cardinality(Contradicting(c, t, i)) \in Nat
    BY <1>1, Countings, UpToFinite
  <2>2. Cardinality(Contradicting(c, t, i)) <= k
    <3> DEFINE S == Contrary(c, t)
    <3>1. Contradicting(c, t, i) = UpTo(S, i) /\ Contradicting(c, t, m) = UpTo(S, m)
      BY <1>1, Countings
    <3> QED
      BY <1>1, <3>1, UpToGrows DEF k, m
  <2> QED
    BY <1>4, <2>1, <2>2
<1>8. \A j \in 0..n : /\ Cardinality(Alarming(r, j)) \in Nat
                      /\ Cardinality(Alarming(r, j)) <= k
  <2> TAKE j \in 0..n
  <2>1. Cardinality(Alarming(q, j)) \in Nat
    BY <1>2, Countings, UpToFinite
  <2>2. Cardinality(Alarming(q, j)) <= k
    <3> DEFINE S == Changed(q)
    <3>1. Alarming(q, j) = UpTo(S, j) /\ Alarming(q, n) = UpTo(S, n)
      BY <1>2, Countings
    <3> QED
      BY <1>2, <1>3, <3>1, UpToGrows
  <2> QED
    BY <1>4, <2>1, <2>2
<1>9. ASSUME NEW i \in Contradicting(d, t, m + 1), NEW j \in Alarming(r, n + 1),
             Cardinality(Contradicting(d, t, i)) = Cardinality(Alarming(r, j))
      PROVE  r[j].claim = d[i] /\ r[j].trusted = t
  <2>1. i \in 1..(m + 1) /\ j \in 1..(n + 1)
    BY DEF Contradicting, Alarming
  <2>2. CASE i = m + 1 /\ j = n + 1
    BY <1>1, <1>2, <2>2
  <2>3. CASE i \in 1..m /\ j \in 1..n
    <3>1. i \in Contradicting(c, t, m) /\ j \in Alarming(q, n)
      BY <1>1, <1>2, <2>3 DEF Contradicting, Alarming
    <3>2. Cardinality(Contradicting(c, t, i)) = Cardinality(Alarming(q, j))
      BY <1>4, <1>9, <2>3
    <3>3. q[j].claim = c[i] /\ q[j].trusted = t
      BY <3>1, <3>2 DEF Answered, m, n
    <3> QED
      BY <1>1, <1>2, <2>3, <3>3
  <2>4. CASE i \in 1..m /\ j = n + 1
    BY <1>3, <1>6, <1>7, <1>9, <2>4
  <2>5. CASE i = m + 1 /\ j \in 1..n
    BY <1>3, <1>5, <1>8, <1>9, <2>5
  <2> QED
    BY <1>1, <1>2, <2>1, <2>2, <2>3, <2>4, <2>5
<1>10. Len(d) = m + 1 /\ Len(r) = n + 1
  BY <1>1, <1>2
<1>11. Answered(d, t, r)
  BY <1>5, <1>6, <1>9, <1>10 DEF Answered
<1> QED
  BY <1>11 DEF d, r

\* The first reply of all, if no MAC was pinned, is what the baseline is
\* learned from, and no alarm.
LEMMA AnsweredLearning ==
    ASSUME NEW c, c = <<>>, NEW t, NEW u, NEW q \in Seq(Report),
           NEW x \in Claim, x.mac = u,
           NEW a \in Report, a.kind = "learned", Answered(c, t, q)
    PROVE  Answered(Append(c, x), u, Append(q, a))
<1> DEFINE d == Append(c, x)
           r == Append(q, a)
           n == Len(q)
<1>1. c \in Seq(Claim) /\ Len(c) = 0
  OBVIOUS
<1>2. Len(d) = 1 /\ d[1] = x
  BY <1>1, AppendProperties
<1>3. /\ n \in Nat /\ Len(r) = n + 1 /\ r[n + 1] = a
      /\ \A j \in 1..n : r[j] = q[j]
  BY AppendProperties
<1> HIDE DEF d, r
<1>4. Contradicting(c, t, Len(c)) = {} /\ Contradicting(d, u, Len(d)) = {}
  BY <1>1, <1>2 DEF Contradicting
<1>5. Alarming(q, n) = {}
  <2>1. Cardinality(Alarming(q, n)) = 0
    BY <1>4, FS_EmptySet DEF Answered
  <2>2. IsFiniteSet(Alarming(q, n))
    BY <1>3, Countings, UpToFinite
  <2> QED
    BY <2>1, <2>2, FS_EmptySet
<1>6. Alarming(r, Len(r)) = {}
  <2>1. "learned" # "changed"
    OBVIOUS
  <2> QED
    BY <1>3, <1>5, <2>1 DEF Alarming
<1>7. Answered(d, u, r)
  BY <1>4, <1>6 DEF Answered
<1> QED
  BY <1>7 DEF d, r

LEMMA AnsweredIs ==
    EveryContradictionIsAlarmed <=> Answered(claims, TrustedMac, Raised)
BY DEF EveryContradictionIsAlarmed, Answered, Alarms, Alarming, Contradictions,
       Contradicting

-----------------------------------------------------------------------------
IInv == TypeOK /\ Beginning /\ DirectoryInv /\ NamesInv /\ AlarmInv

LEMMA StartInv ==
    ASSUME Init
    PROVE  IInv
<1>1. /\ claims = <<>> /\ alerts = <<>> /\ Len(claims) = 0 /\ Len(alerts) = 0
      /\ packet = NoPacket /\ ~Started
  BY DEF Init, Started
<1>2. TypeOK
  <2>1. routes \in Seq(Route)
    <3>1. <<>> \in Seq(Route)
      OBVIOUS
    <3> QED
      BY <3>1, ValuesAssumption DEF Init
  <2>2. /\ config \in Config /\ config.mac \in Macs \cup {Unset}
        /\ baseline = config.mac /\ pinned = config.mac
    BY DEF Init, Config
  <2>3. /\ resolved = Unset /\ packet = NoPacket /\ spoken = {}
        /\ directory \in [Macs -> Addresses \cup {Unset}]
    BY DEF Init
  <2>4. claims \in Seq(Claim) /\ alerts \in Seq(Report)
    BY <1>1
  <2>5. moved \subseteq 1..Len(alerts) + 1
    BY DEF Init
  <2> QED
    BY <2>1, <2>2, <2>3, <2>4, <2>5 DEF TypeOK
<1>3. Beginning /\ DirectoryInv /\ NamesInv
  BY <1>1 DEF Init, Beginning, DirectoryInv, NamesInv
<1>4. AlarmInv
  <2>1. baseline = TrustedMac
    BY <1>1 DEF Init, TrustedMac
  <2>2. Raised = <<>> /\ Len(Raised) = 0
    BY <1>1 DEF Raised
  <2>3. /\ Alarming(Raised, Len(Raised)) = {}
        /\ Contradicting(claims, TrustedMac, Len(claims)) = {}
    BY <1>1, <2>2 DEF Alarming, Contradicting
  <2> QED
    BY <2>1, <2>3 DEF AlarmInv, Answered
<1> QED
  BY <1>2, <1>3, <1>4 DEF IInv

\* A step that neither hears a reply nor moves an alert.
LEMMA AlarmStays ==
    ASSUME AlarmInv, UNCHANGED <<pinned, baseline, packet, claims, alerts>>
    PROVE  AlarmInv'
<1>1. TrustedMac' = TrustedMac /\ Raised' = Raised
  BY DEF TrustedMac, Raised
<1> QED
  BY <1>1 DEF AlarmInv

-----------------------------------------------------------------------------
(* The route table.                                                        *)

\* What holds at the start and goes on from each number to the next holds up
\* to n.
LEMMA Upwards ==
    ASSUME NEW n \in Nat, NEW S, 0 \in S,
           \A i \in 0..n : i # n /\ i \in S => i + 1 \in S
    PROVE  0..n \subseteq S
<1> DEFINE T == {i \in 0..n : i \notin S}
<1> SUFFICES ASSUME T # {} PROVE FALSE
  OBVIOUS
<1>1. \E x \in T : \A y \in T : ~(<<y, x>> \in OpToRel(<, Nat))
  <2>1. T \in SUBSET Nat
    OBVIOUS
  <2> QED
    BY <2>1, NatLessThanWellFounded, WFMin
<1>2. PICK x \in T : \A y \in T : ~(<<y, x>> \in OpToRel(<, Nat))
  BY <1>1
<1>3. x # 0 /\ x \in 0..n /\ x \notin S
  OBVIOUS
<1>4. x - 1 \in 0..n /\ x - 1 # n /\ x - 1 < x
  BY <1>3
<1>5. x - 1 \notin S
  BY <1>3, <1>4
<1>6. x - 1 \in T
  BY <1>4, <1>5
<1>7. <<x - 1, x>> \in OpToRel(<, Nat)
  BY <1>3, <1>4 DEF OpToRel
<1> QED
  BY <1>2, <1>6, <1>7

\* The recursive function of DetectDefaultGateway on the first n routes.
Scan(table, n, best) ==
    best = [i \in 0..n |->
                IF i = 0 THEN NoRoute ELSE Better(best[i - 1], table[i])]

LEMMA ScanExists ==
    ASSUME NEW q \in Seq(Route)
    PROVE  \E best : Scan(q, Len(q), best)
<1> DEFINE S == {n \in Nat : \E best : Scan(q, n, best)}
<1>1. 0 \in S
  <2> DEFINE b == [i \in 0..0 |-> NoRoute]
             e == [i \in 0..0 |-> IF i = 0 THEN NoRoute ELSE Better(b[i - 1], q[i])]
  <2>1. \A i \in 0..0 : i = 0 /\ b[i] = e[i]
    OBVIOUS
  <2>2. b = e
    BY <2>1
  <2> QED
    BY <2>2 DEF Scan
<1>2. ASSUME NEW n \in Nat, NEW best, Scan(q, n, best)
      PROVE  \E b : Scan(q, n + 1, b)
  <2> DEFINE b == [i \in 0..(n + 1) |->
                    IF i = n + 1 THEN Better(best[n], q[n + 1]) ELSE best[i]]
             e == [i \in 0..(n + 1) |->
                    IF i = 0 THEN NoRoute ELSE Better(b[i - 1], q[i])]
  <2>1. ASSUME NEW i \in 0..(n + 1) PROVE b[i] = e[i]
    <3>1. CASE i = n + 1
      BY <3>1
    <3>2. CASE i # n + 1
      <4>1. i \in 0..n /\ (i # 0 => i - 1 \in 0..(n + 1) /\ i - 1 # n + 1)
        BY <3>2
      <4>2. best[i] = IF i = 0 THEN NoRoute ELSE Better(best[i - 1], q[i])
        BY <1>2, <4>1 DEF Scan
      <4> QED
        BY <3>2, <4>1, <4>2
    <3> QED
      BY <3>1, <3>2
  <2>2. b = e
    BY <2>1
  <2> QED
    BY <2>2 DEF Scan
<1>3. \A n \in Nat : n \in S => n + 1 \in S
  BY <1>2
<1>4. Len(q) \in Nat
  OBVIOUS
<1> HIDE DEF S
<1>5. 0..Len(q) \subseteq S
  BY <1>1, <1>3, <1>4, Upwards
<1> QED
  BY <1>4, <1>5 DEF S

\* The best of the first n routes: the first of the lowest metric among the
\* usable ones, or none.
BestOf(q, n, best) ==
    \/ best = NoRoute /\ \A i \in 1..n : ~Usable(q[i])
    \/ \E i \in 1..n :
        /\ Usable(q[i]) /\ best = q[i]
        /\ \A j \in 1..n : Usable(q[j]) =>
                \/ q[i].metric < q[j].metric
                \/ q[i].metric = q[j].metric /\ i <= j

LEMMA BetterIsBest ==
    ASSUME NEW q \in Seq(Route), NEW n \in Nat, n + 1 \in 1..Len(q), NEW best,
           BestOf(q, n, best)
    PROVE  BestOf(q, n + 1, Better(best, q[n + 1]))
<1> DEFINE r == q[n + 1]
<1>1. \A i \in 1..(n + 1) : q[i].metric \in Nat
  <2>1. \A i \in 1..(n + 1) : q[i] \in Route
    OBVIOUS
  <2> QED
    BY <2>1 DEF Route
<1>2. \A i \in 1..(n + 1) : i \in 1..n \/ i = n + 1
  OBVIOUS
<1>3. \A i \in 1..n : i \in 1..(n + 1)
  OBVIOUS
<1>4. CASE ~Usable(r)
  <2>1. Better(best, r) = best
    BY <1>4 DEF Better
  <2> QED
    BY <1>2, <1>3, <1>4, <2>1 DEF BestOf
<1>5. CASE Usable(r) /\ best = NoRoute
  <2>1. Better(best, r) = r
    BY <1>5 DEF Better, FirstOrLower
  <2>2. \A i \in 1..n : ~Usable(q[i])
    BY <1>5 DEF BestOf, Usable, NoRoute
  <2>3. n + 1 \in 1..(n + 1)
    OBVIOUS
  <2> QED
    BY <1>1, <1>2, <1>5, <2>1, <2>2, <2>3 DEF BestOf
<1>6. CASE Usable(r) /\ best # NoRoute
  <2>1. PICK i \in 1..n :
            /\ Usable(q[i]) /\ best = q[i]
            /\ \A j \in 1..n : Usable(q[j]) =>
                    \/ q[i].metric < q[j].metric
                    \/ q[i].metric = q[j].metric /\ i <= j
    BY <1>6 DEF BestOf
  <2>2. CASE r.metric < best.metric
    <3>1. Better(best, r) = r
      BY <1>6, <2>2 DEF Better, FirstOrLower
    <3>2. \A j \in 1..n : Usable(q[j]) => r.metric < q[j].metric
      BY <1>1, <2>1, <2>2
    <3>3. n + 1 \in 1..(n + 1)
      OBVIOUS
    <3> QED
      BY <1>2, <1>6, <3>1, <3>2, <3>3 DEF BestOf
  <2>3. CASE ~(r.metric < best.metric)
    <3>1. Better(best, r) = q[i]
      BY <1>6, <2>1, <2>3 DEF Better, FirstOrLower
    <3>2. \/ q[i].metric < r.metric
          \/ q[i].metric = r.metric /\ i <= n + 1
      BY <1>1, <1>3, <2>1, <2>3
    <3> QED
      BY <1>2, <1>3, <2>1, <3>1, <3>2 DEF BestOf
  <2> QED
    BY <2>2, <2>3
<1> QED
  BY <1>4, <1>5, <1>6

(***************************************************************************)
(* detect_default_gateway() on any route table: the gateway of the first   *)
(* usable route of the lowest metric, and none only if there is no usable  *)
(* route.                                                                  *)
(***************************************************************************)
THEOREM DetectsTheDefaultGateway ==
    ASSUME NEW q \in Seq(Route)
    PROVE  /\ IsDefaultGateway(DetectDefaultGateway(q), q)
           /\ DetectDefaultGateway(q) \in Addresses \cup {Unset}
<1> DEFINE b == CHOOSE best : Scan(q, Len(q), best)
<1>1. DetectDefaultGateway(q) = b[Len(q)].gateway
  BY DEF DetectDefaultGateway, Scan
<1>2. Scan(q, Len(q), b)
  BY ScanExists
<1>3. Len(q) \in Nat
  OBVIOUS
<1> HIDE DEF b
<1> DEFINE S == {n \in 0..Len(q) : BestOf(q, n, b[n])}
<1>4. 0 \in S
  BY <1>2, <1>3 DEF Scan, BestOf
<1>5. ASSUME NEW n \in 0..Len(q), n # Len(q), n \in S
      PROVE  n + 1 \in S
  <2>1. n + 1 \in 0..Len(q) /\ n + 1 \in 1..Len(q) /\ n + 1 # 0 /\ n \in Nat
    BY <1>3, <1>5
  <2>2. b[n + 1] = Better(b[(n + 1) - 1], q[n + 1])
    BY <1>2, <2>1 DEF Scan
  <2>3. (n + 1) - 1 = n
    BY <2>1
  <2>4. BestOf(q, n + 1, b[n + 1])
    BY <1>5, <2>1, <2>2, <2>3, BetterIsBest
  <2> QED
    BY <2>1, <2>4
<1> HIDE DEF S
<1>6. 0..Len(q) \subseteq S
  BY <1>3, <1>4, <1>5, Upwards
<1>7. BestOf(q, Len(q), b[Len(q)])
  BY <1>3, <1>6 DEF S
<1>8. DOMAIN q = 1..Len(q) /\ \A i \in 1..Len(q) : q[i] \in Route
  OBVIOUS
<1>9. CASE \A i \in 1..Len(q) : ~Usable(q[i])
  <2>1. b[Len(q)].gateway = Unset
    BY <1>7, <1>9 DEF BestOf, NoRoute
  <2> QED
    BY <1>1, <1>8, <1>9, <2>1 DEF IsDefaultGateway
<1>10. CASE ~\A i \in 1..Len(q) : ~Usable(q[i])
  <2>1. PICK i \in 1..Len(q) :
            /\ Usable(q[i]) /\ b[Len(q)] = q[i]
            /\ \A j \in 1..Len(q) : Usable(q[j]) =>
                    \/ q[i].metric < q[j].metric
                    \/ q[i].metric = q[j].metric /\ i <= j
    BY <1>7, <1>10 DEF BestOf
  <2>2. DetectDefaultGateway(q) = q[i].gateway /\ q[i].gateway # Unset
    BY <1>1, <2>1 DEF Usable
  <2>3. q[i].gateway \in Addresses \cup {Unset}
    BY <1>8 DEF Route
  <2> QED
    BY <1>8, <2>1, <2>2, <2>3 DEF IsDefaultGateway
<1> QED
  BY <1>9, <1>10

-----------------------------------------------------------------------------
(* The steps.                                                              *)

\* Once the detector is built there is a gateway to watch.
LEMMA Watched ==
    ASSUME TypeOK, Started
    PROVE  GatewayIp \in Gateways
BY DEF TypeOK, Started, GatewayIp, Gateways, Config

LEMMA ConstructInv ==
    ASSUME IInv, Construct
    PROVE  IInv'
<1>1. /\ ~Started /\ packet = NoPacket /\ routes' = <<>>
      /\ UNCHANGED <<config, baseline, directory, packet, pinned, spoken, claims,
                     alerts, moved>>
      /\ config \in Config /\ config.gateway # NoneText
  BY DEF Construct, IInv, Beginning, TypeOK
<1>2. resolved' \in Addresses \cup {Unset}
  <2>1. DetectDefaultGateway(routes) \in Addresses \cup {Unset}
    BY DetectsTheDefaultGateway DEF IInv, TypeOK
  <2> QED
    BY <1>1, <2>1 DEF Construct, Config
<1>3. TypeOK'
  <2>1. routes' \in Seq(Route)
    BY <1>1
  <2> QED
    BY <1>1, <1>2, <2>1 DEF IInv, TypeOK
<1>4. Beginning'
  BY <1>1 DEF Beginning, Started
<1>5. DirectoryInv' /\ NamesInv'
  BY <1>1 DEF IInv, DirectoryInv, SpokeIfSuspect, NamesInv
<1> QED
  BY <1>1, <1>3, <1>4, <1>5, AlarmStays DEF IInv

\* A step that moves neither the watch nor an alert.
LEMMA NamesStay ==
    ASSUME NamesInv, UNCHANGED <<config, resolved, packet, alerts, moved>>
    PROVE  NamesInv'
BY DEF NamesInv, GatewayIp

\* The program runs on: what says so of the start stays as it is.
LEMMA BeginningStays ==
    ASSUME Beginning, Started, UNCHANGED <<routes, resolved>>
    PROVE  Beginning'
BY DEF Beginning, Started

LEMMA HearIpInv ==
    ASSUME IInv, NEW mac \in Macs, NEW ip \in Addresses, HearIp(mac, ip)
    PROVE  IInv'
<1>1. /\ Started /\ packet = NoPacket
      /\ directory' = [directory EXCEPT ![mac] = ip]
      /\ spoken' = spoken \cup {<<mac, ip>>}
      /\ UNCHANGED <<routes, resolved, pinned, config, baseline, packet, claims,
                     alerts, moved>>
  BY DEF HearIp, start
<1>2. directory \in [Macs -> Addresses \cup {Unset}]
  BY DEF IInv, TypeOK
<1>3. TypeOK'
  BY <1>1, <1>2 DEF IInv, TypeOK
<1>4. DirectoryInv'
  <2>1. \A m \in Macs : directory'[m] # Unset => <<m, directory'[m]>> \in spoken'
    BY <1>1, <1>2 DEF IInv, DirectoryInv
  <2>2. \A i \in 1..Len(alerts) : SpokeIfSuspect(alerts[i])'
    BY <1>1 DEF IInv, DirectoryInv, SpokeIfSuspect
  <2> QED
    BY <1>1, <2>1, <2>2 DEF DirectoryInv
<1> QED
  BY <1>1, <1>3, <1>4, AlarmStays, BeginningStays, NamesStay DEF IInv

LEMMA HearOtherReplyInv ==
    ASSUME IInv, NEW mac \in Macs, NEW src \in Addresses, HearOtherReply(src, mac)
    PROVE  IInv'
<1>1. /\ Started
      /\ UNCHANGED <<routes, resolved, pinned, config, baseline, directory, packet,
                     spoken, claims, alerts, moved>>
  BY DEF HearOtherReply, ObserveArp, start
<1>2. TypeOK' /\ DirectoryInv'
  BY <1>1 DEF IInv, TypeOK, DirectoryInv, SpokeIfSuspect
<1> QED
  BY <1>1, <1>2, AlarmStays, BeginningStays, NamesStay DEF IInv

\* A reload finds the detector running and touches nothing but its config.
LEMMA ReloadInv ==
    ASSUME IInv, NEW c \in Config, Reload(c)
    PROVE  IInv'
<1>1. /\ Started /\ config' = c
      /\ UNCHANGED <<routes, resolved, pinned, baseline, directory, packet, spoken,
                     claims, alerts>>
      /\ moved' = IF packet # NoPacket /\ GatewayIp' # packet.claim.src
                  THEN moved \cup {Len(alerts) + 1} ELSE moved
  BY DEF Reload, start
<1>2. moved' \subseteq 1..Len(alerts) + 1 /\ moved \subseteq moved'
  <2>1. Len(alerts) \in Nat /\ moved \subseteq 1..Len(alerts) + 1
    BY DEF IInv, TypeOK
  <2>2. Len(alerts) + 1 \in 1..Len(alerts) + 1
    BY <2>1
  <2>3. moved' = moved \/ moved' = moved \cup {Len(alerts) + 1}
    BY <1>1
  <2> QED
    BY <2>1, <2>2, <2>3
<1>3. TypeOK' /\ DirectoryInv'
  BY <1>1, <1>2 DEF IInv, TypeOK, DirectoryInv, SpokeIfSuspect
<1>4. NamesInv'
  <2>1. packet # NoPacket /\ Len(alerts) + 1 \notin moved' =>
            GatewayIp' = packet.claim.src
    BY <1>1
  <2> QED
    BY <1>1, <1>2, <2>1 DEF IInv, NamesInv
<1> QED
  BY <1>1, <1>3, <1>4, AlarmStays, BeginningStays DEF IInv

\* A reply for the watched address, whether it calls for an alert or not.
LEMMA HearReplyInv ==
    ASSUME IInv, NEW mac \in Macs, NEW src \in Addresses, HearReply(src, mac)
    PROVE  IInv'
<1> DEFINE x == [src |-> src, mac |-> mac]
<1>1. /\ Started /\ packet = NoPacket
      /\ claims' = Append(claims, x)
      /\ UNCHANGED <<routes, resolved, pinned, config, directory, spoken, alerts, moved>>
  BY DEF HearReply, ObserveArp, start
<1>2. x \in Claim /\ x.mac = mac
  BY DEF Claim
<1> HIDE DEF x
<1>3. /\ claims \in Seq(Claim) /\ claims' \in Seq(Claim)
      /\ Len(claims) \in Nat /\ Len(claims') = Len(claims) + 1
      /\ \A i \in 1..Len(claims) : claims'[i] = claims[i]
      /\ claims'[Len(claims) + 1] = x
  BY <1>1, <1>2, AppendProperties DEF IInv, TypeOK
<1>4. /\ Raised = alerts /\ alerts \in Seq(Report)
      /\ baseline = TrustedMac /\ Answered(claims, baseline, alerts)
      /\ baseline \in Macs \cup {Unset} /\ Unset \notin Macs
  BY <1>1, ValuesAssumption DEF Raised, IInv, AlarmInv, TypeOK
\* The MAC to trust is the first claimed, unless one was pinned.
<1>5. baseline # Unset => TrustedMac' = baseline
  <2>1. CASE pinned # Unset
    BY <1>1, <1>4, <2>1 DEF TrustedMac
  <2>2. CASE pinned = Unset /\ baseline # Unset
    <3>1. claims # <<>> /\ baseline = claims[1].mac
      BY <1>4, <2>2 DEF TrustedMac
    <3>2. claims' # <<>> /\ claims'[1] = claims[1]
      BY <1>3, <3>1
    <3> QED
      BY <1>1, <2>2, <3>1, <3>2 DEF TrustedMac
  <2> QED
    BY <2>1, <2>2
<1>6. baseline = Unset => claims = <<>> /\ TrustedMac' = mac
  <2> SUFFICES ASSUME baseline = Unset PROVE claims = <<>> /\ TrustedMac' = mac
    OBVIOUS
  <2>1. pinned = Unset
    BY <1>4 DEF TrustedMac
  <2>2. claims = <<>>
    <3>1. claims # <<>> => claims[1].mac \in Macs
      <4>1. claims # <<>> => claims[1] \in Claim
        BY <1>3
      <4> QED
        BY <4>1 DEF Claim
    <3> QED
      BY <1>4, <2>1, <3>1 DEF TrustedMac
  <2>3. claims' # <<>> /\ claims'[1] = x
    BY <1>3, <2>2
  <2> QED
    BY <1>1, <1>2, <2>1, <2>2, <2>3 DEF TrustedMac
<1>7. CASE baseline = mac
  <2>1. UNCHANGED <<packet, baseline>>
    BY <1>4, <1>7 DEF HearReply
  <2>2. TypeOK' /\ DirectoryInv'
    BY <1>1, <1>3, <2>1 DEF IInv, TypeOK, DirectoryInv, SpokeIfSuspect
  <2>3. AlarmInv'
    <3>1. baseline' = TrustedMac' /\ Raised' = alerts
      BY <1>1, <1>4, <1>5, <1>7, <2>1 DEF Raised
    <3>2. Answered(claims', baseline, alerts)
      BY <1>1, <1>2, <1>3, <1>4, <1>7, AnsweredAgreeing
    <3> QED
      BY <2>1, <3>1, <3>2 DEF AlarmInv
  <2> QED
    BY <1>1, <2>1, <2>2, <2>3, BeginningStays, NamesStay DEF IInv
<1>8. CASE baseline # mac
  <2> DEFINE what == IF baseline = Unset THEN "learned" ELSE "changed"
             a == [ kind |-> what, claim |-> x,
                    trusted |-> IF what = "learned" THEN mac ELSE baseline,
                    suspect |-> IF what = "learned" THEN Unset ELSE directory[mac],
                    named |-> NotYet, keyed |-> NotYet ]
  <2>1. /\ packet' = a
        /\ baseline' = IF baseline = Unset THEN mac ELSE baseline
    BY <1>8 DEF HearReply, Inspect, x
  <2>2. a \in Report
    <3>1. directory[mac] \in Addresses \cup {Unset}
      BY DEF IInv, TypeOK
    <3> QED
      BY <1>2, <1>4, <3>1 DEF Report
  <2>3. a # NoPacket
    BY <2>2, ValuesAssumption
  <2>4. TypeOK'
    BY <1>1, <1>3, <1>4, <2>1, <2>2 DEF IInv, TypeOK
  <2>5. DirectoryInv'
    <3>1. \A i \in 1..Len(alerts) : SpokeIfSuspect(alerts[i])'
      BY <1>1 DEF IInv, DirectoryInv, SpokeIfSuspect
    <3>2. SpokeIfSuspect(a)'
      BY <1>1, <1>2 DEF IInv, DirectoryInv, SpokeIfSuspect
    <3> QED
      BY <1>1, <2>1, <3>1, <3>2 DEF IInv, DirectoryInv, SpokeIfSuspect
  <2>6. NamesInv'
    <3>1. GatewayIp' = src /\ GatewayIp = src
      BY <1>1 DEF HearReply, GatewayIp
    <3>2. packet'.claim.src = src /\ packet'.named = NotYet
      BY <2>1 DEF x
    <3> QED
      BY <1>1, <3>1, <3>2 DEF IInv, NamesInv
  <2>7. AlarmInv'
    <3>1. Raised' = Append(alerts, a) /\ baseline' = TrustedMac'
      BY <1>1, <1>5, <1>6, <2>1, <2>3 DEF Raised
    <3>2. CASE baseline = Unset
      <4>1. a.kind = "learned"
        BY <3>2
      <4> HIDE DEF a
      <4>2. Answered(Append(claims, x), mac, Append(alerts, a))
        BY <1>2, <1>4, <1>6, <2>2, <3>2, <4>1, AnsweredLearning
      <4> QED
        BY <1>1, <1>6, <3>1, <3>2, <4>2 DEF AlarmInv
    <3>3. CASE baseline # Unset
      <4>1. a.kind = "changed" /\ a.claim = x /\ a.trusted = baseline
        BY <3>3
      <4> HIDE DEF a
      <4>2. Answered(Append(claims, x), baseline, Append(alerts, a))
        BY <1>2, <1>3, <1>4, <1>8, <2>2, <4>1, AnsweredContradicting
      <4> QED
        BY <1>1, <1>5, <3>1, <3>3, <4>2 DEF AlarmInv
    <3> QED
      BY <3>2, <3>3
  <2> QED
    BY <1>1, <2>4, <2>5, <2>6, <2>7, BeginningStays DEF IInv
<1> QED
  BY <1>7, <1>8

\* The packet in hand is raised last, and what changes of it until it is
\* emitted is not what an alarm is judged by.
LEMMA DescribeInv ==
    ASSUME IInv, Describe
    PROVE  IInv'
<1>1. /\ packet # NoPacket /\ packet' = [packet EXCEPT !.named = GatewayIp]
      /\ UNCHANGED <<routes, resolved, pinned, config, baseline, directory, spoken,
                     claims, alerts, moved>>
      /\ Started
  BY DEF Describe, NameGateway, start, IInv, Beginning
<1>2. packet \in Report /\ GatewayIp \in Gateways
  BY <1>1, Watched DEF IInv, TypeOK
<1>3. /\ packet' \in Report /\ packet' # NoPacket
      /\ packet'.kind = packet.kind /\ packet'.claim = packet.claim
      /\ packet'.trusted = packet.trusted /\ packet'.suspect = packet.suspect
  <2>1. packet' \in Report
    BY <1>1, <1>2 DEF Report, Gateways
  <2> QED
    BY <1>1, <1>2, <2>1, ValuesAssumption DEF Report
<1>4. TypeOK' /\ NamesInv'
  <2>1. packet'.named = GatewayIp /\ GatewayIp' = GatewayIp
    BY <1>1, <1>2 DEF GatewayIp, Report
  <2>2. TypeOK'
    BY <1>1, <1>3 DEF IInv, TypeOK
  <2>3. NamesInv'
    BY <1>1, <1>3, <2>1 DEF IInv, NamesInv
  <2> QED
    BY <2>2, <2>3
<1>5. DirectoryInv'
  BY <1>1, <1>3 DEF IInv, DirectoryInv, SpokeIfSuspect
<1>6. AlarmInv'
  <2>1. alerts \in Seq(Report) /\ Len(alerts) \in Nat
    BY DEF IInv, TypeOK
  <2>2. Raised = Append(alerts, packet) /\ Raised' = Append(alerts, packet')
    BY <1>1, <1>3 DEF Raised
  <2>3. /\ Len(Raised) = Len(alerts) + 1 /\ Len(Raised') = Len(alerts) + 1
        /\ \A j \in 1..Len(alerts) : Raised[j] = alerts[j] /\ Raised'[j] = alerts[j]
        /\ Raised[Len(alerts) + 1] = packet /\ Raised'[Len(alerts) + 1] = packet'
    BY <1>2, <1>3, <2>1, <2>2, AppendProperties
  <2>4. \A j \in 1..Len(Raised) : j \in 1..Len(alerts) \/ j = Len(alerts) + 1
    BY <2>1, <2>3
  <2>5. TrustedMac' = TrustedMac
    BY <1>1 DEF TrustedMac
  <2>6. Answered(claims, TrustedMac, Raised')
    BY <1>3, <2>1, <2>3, <2>4, AnsweredAlike DEF IInv, AlarmInv
  <2> QED
    BY <1>1, <2>5, <2>6 DEF IInv, AlarmInv
<1> QED
  BY <1>1, <1>4, <1>5, <1>6, BeginningStays DEF IInv

LEMMA EmitInv ==
    ASSUME IInv, Emit
    PROVE  IInv'
<1> DEFINE a == [packet EXCEPT !.keyed = GatewayIp]
<1>1. /\ packet # NoPacket /\ packet.named # NotYet /\ packet' = NoPacket
      /\ alerts' = Append(alerts, a)
      /\ UNCHANGED <<routes, resolved, pinned, config, baseline, directory, spoken,
                     claims, moved>>
      /\ Started
  BY DEF Emit, start, IInv, Beginning
<1>2. packet \in Report /\ GatewayIp \in Gateways
  BY <1>1, Watched DEF IInv, TypeOK
<1>3. /\ a \in Report /\ a.kind = packet.kind /\ a.claim = packet.claim
      /\ a.trusted = packet.trusted /\ a.suspect = packet.suspect
      /\ a.named = packet.named /\ a.keyed = GatewayIp
  BY <1>2 DEF Report, Gateways
<1> HIDE DEF a
<1>4. a.named \in Gateways
  BY <1>1, <1>2, <1>3 DEF Report, Gateways
<1>5. alerts \in Seq(Report) /\ Len(alerts) \in Nat
  BY DEF IInv, TypeOK
<1>6. /\ alerts' \in Seq(Report) /\ Len(alerts') = Len(alerts) + 1
      /\ \A j \in 1..Len(alerts) : alerts'[j] = alerts[j]
      /\ alerts'[Len(alerts) + 1] = a
  BY <1>1, <1>3, <1>5, AppendProperties
<1>7. \A j \in 1..Len(alerts') : j \in 1..Len(alerts) \/ j = Len(alerts) + 1
  BY <1>5, <1>6
<1>8. TypeOK'
  BY <1>1, <1>5, <1>6 DEF IInv, TypeOK
<1>9. NamesInv'
  <2>1. Len(alerts) + 1 \notin moved =>
            a.named = a.claim.src /\ a.keyed = a.claim.src
    BY <1>1, <1>3 DEF IInv, NamesInv
  <2> QED
    BY <1>1, <1>2, <1>3, <1>4, <1>6, <1>7, <2>1 DEF IInv, NamesInv
<1>10. DirectoryInv'
  <2>1. \A i \in 1..Len(alerts') : SpokeIfSuspect(alerts'[i])
    BY <1>1, <1>3, <1>6, <1>7 DEF IInv, DirectoryInv, SpokeIfSuspect
  <2> QED
    BY <1>1, <2>1 DEF IInv, DirectoryInv, SpokeIfSuspect
<1>11. AlarmInv'
  <2>1. Raised = Append(alerts, packet) /\ Raised' = alerts'
    BY <1>1 DEF Raised
  <2>2. /\ Len(Raised) = Len(alerts) + 1
        /\ \A j \in 1..Len(alerts) : Raised[j] = alerts[j]
        /\ Raised[Len(alerts) + 1] = packet
    BY <1>2, <1>5, <2>1, AppendProperties
  <2>3. TrustedMac' = TrustedMac
    BY <1>1 DEF TrustedMac
  <2>4. Answered(claims, TrustedMac, alerts')
    <3>1. \A j \in 1..Len(Raised) :
            /\ alerts'[j].kind = Raised[j].kind
            /\ alerts'[j].claim = Raised[j].claim
            /\ alerts'[j].trusted = Raised[j].trusted
      BY <1>3, <1>6, <1>7, <2>2
    <3> QED
      BY <1>5, <1>6, <2>2, <3>1, AnsweredAlike DEF IInv, AlarmInv
  <2> QED
    BY <1>1, <2>1, <2>3, <2>4 DEF IInv, AlarmInv
<1> QED
  BY <1>1, <1>8, <1>9, <1>10, <1>11, BeginningStays DEF IInv

LEMMA StepInv ==
    ASSUME IInv, [Next]_vars
    PROVE  IInv'
<1>1. CASE Construct
  BY <1>1, ConstructInv
<1>2. CASE \E mac \in Macs, ip \in Addresses :
            HearIp(mac, ip) \/ HearReply(ip, mac) \/ HearOtherReply(ip, mac)
  BY <1>2, HearIpInv, HearReplyInv, HearOtherReplyInv
<1>3. CASE Describe \/ Emit
  BY <1>3, DescribeInv, EmitInv
<1>4. CASE \E c \in Config : c.gateway # NoneText /\ Reload(c)
  BY <1>4, ReloadInv
\* The form gives back what it showed, or another address.
<1>5. CASE \E gateway \in Addresses \cup {Prefill}, mac \in Macs \cup {Unset} :
            SaveSettings(gateway, mac)
  <2>1. PICK gateway \in Addresses \cup {Prefill}, mac \in Macs \cup {Unset} :
            Reload([gateway |-> gateway, mac |-> mac])
    BY <1>5 DEF SaveSettings
  <2>2. Prefill \in Addresses \cup {Unset, NoneText}
    BY DEF IInv, TypeOK, Config, Prefill
  <2>3. [gateway |-> gateway, mac |-> mac] \in Config
    BY <2>2 DEF Config
  <2> QED
    BY <2>1, <2>3, ReloadInv
<1>6. CASE UNCHANGED vars
  <2>1. /\ UNCHANGED <<routes, config, resolved, baseline, directory, packet, pinned,
                       spoken, claims, alerts, moved>>
        /\ Started' = Started
    BY <1>6 DEF vars, Started
  <2>2. TypeOK' /\ Beginning' /\ DirectoryInv'
    BY <2>1 DEF IInv, TypeOK, Beginning, DirectoryInv, SpokeIfSuspect
  <2> QED
    BY <2>1, <2>2, AlarmStays, NamesStay DEF IInv
<1> QED
  BY <1>1, <1>2, <1>3, <1>4, <1>5, <1>6 DEF Next

LEMMA Invariance == Spec => []IInv
BY StartInv, StepInv, PTL DEF Spec

-----------------------------------------------------------------------------
(***************************************************************************)
(* The detector's fields, the directory and the packet in hand are well    *)
(* typed: an alert never trusts a MAC that is none.                        *)
(***************************************************************************)
THEOREM TypeCorrect == Spec => []TypeOK
<1>1. IInv => TypeOK
  BY DEF IInv
<1> QED
  BY <1>1, Invariance, PTL

(***************************************************************************)
(* One alarm for each reply that contradicts the MAC to trust, in order    *)
(* and against that MAC, and none for any other: for any number of         *)
(* replies, MACs and reloads, and with a packet in hand or not.            *)
(***************************************************************************)
THEOREM ContradictionsAreAlarmed == Spec => []EveryContradictionIsAlarmed
<1>1. IInv => EveryContradictionIsAlarmed
  BY AnsweredIs DEF IInv, AlarmInv
<1> QED
  BY <1>1, Invariance, PTL

(***************************************************************************)
(* Whoever an alarm names as the likely attacker used that address in IP   *)
(* traffic with the MAC of the reply: nothing claimed by ARP gets into the *)
(* directory.                                                              *)
(***************************************************************************)
THEOREM SuspectsSpoke == Spec => []SuspectsSpokeForThemselves
<1>1. IInv => SuspectsSpokeForThemselves
  BY DEF IInv, DirectoryInv, SpokeIfSuspect, SuspectsSpokeForThemselves
<1> QED
  BY <1>1, Invariance, PTL

(***************************************************************************)
(* An alert names and is keyed by the gateway its reply was about, for any *)
(* number of reloads before and after it; a reload of another gateway      *)
(* while its packet is in hand can put that, or the text "None", in either *)
(* place, but never a blank.                                               *)
(***************************************************************************)
THEOREM GatewaysAreNamed == Spec => []AlertsNameTheirGateway
<1>1. IInv => AlertsNameTheirGateway
  BY ValuesAssumption DEF IInv, NamesInv, Gateways, AlertsNameTheirGateway
<1> QED
  BY <1>1, Invariance, PTL

(***************************************************************************)
(* The detector is built on the gateway of the first default route of the  *)
(* lowest metric on its interface, whatever the route table, and not at    *)
(* all only if there is no such route.                                     *)
(***************************************************************************)
THEOREM StartsRight == Spec => StartsOnTheDefaultGateway
<1>1. IInv /\ [Next]_vars =>
        [routes' # routes => IsDefaultGateway(resolved', routes)]_vars
  <2> SUFFICES ASSUME IInv, Next, routes' # routes
               PROVE  IsDefaultGateway(resolved', routes)
    BY DEF vars
  <2>1. Construct
    BY DEF Next, HearIp, HearReply, HearOtherReply, Describe, Emit, Reload,
           SaveSettings, start
  <2>2. routes # <<>>
    BY <2>1 DEF Construct
  <2>3. resolved' = DetectDefaultGateway(routes)
    BY <2>1, <2>2 DEF Construct, IInv, Beginning
  <2> QED
    BY <2>3, DetectsTheDefaultGateway DEF IInv, TypeOK
<1> QED
  BY <1>1, Invariance, PTL DEF Spec, StartsOnTheDefaultGateway
=============================================================================
