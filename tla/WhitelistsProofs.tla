-------------------------- MODULE WhitelistsProofs --------------------------
(***************************************************************************)
(* Whitelists for any sources, any spellings of their addresses and lists  *)
(* of any length.                                                          *)
(*                                                                         *)
(* The page adds a source's exact address, which the detector always       *)
(* understands (Understood); what is left to show is that this entry is    *)
(* there until it is taken out (EntriesStay), which depends on what        *)
(* list.remove() leaves of a list with entries of both spellings and twice *)
(* the same.                                                               *)
(***************************************************************************)
EXTENDS Whitelists, WellFoundedInduction, TLAPS

EntriesStay == \A s \in blessed : s.ip \in ToSet(lists[s.kind])

-----------------------------------------------------------------------------
\* A set of numbers that is not empty has a least one.
LEMMA Least ==
    ASSUME NEW S \in SUBSET Nat, S # {}
    PROVE  Min(S) \in S
<1>1. \E x \in S : \A y \in S : ~(<<y, x>> \in OpToRel(<, Nat))
  BY NatLessThanWellFounded, WFMin
<1>2. \A x, y \in Nat : y < x => <<y, x>> \in OpToRel(<, Nat)
  BY DEF OpToRel
<1>3. \E x \in S : \A y \in S : x <= y
  <2>1. PICK x \in S : \A y \in S : ~(<<y, x>> \in OpToRel(<, Nat))
    BY <1>1
  <2>2. \A y \in S : ~(y < x)
    BY <1>2, <2>1
  <2> QED
    BY <2>2
<1> QED
  BY <1>3 DEF Min

\* list.remove() takes out one entry equal to v, if there is one, and keeps
\* every other.
LEMMA RemoveOne ==
    ASSUME NEW S, NEW q \in Seq(S), NEW v
    PROVE  /\ RemoveFirst(q, v) \in Seq(S)
           /\ ToSet(RemoveFirst(q, v)) \subseteq ToSet(q)
           /\ \A x \in ToSet(q) : x # v => x \in ToSet(RemoveFirst(q, v))
           /\ Len(q) # 1 /\ q # <<>> => RemoveFirst(q, v) # <<>>
<1>1. CASE \E i \in 1..Len(q) : q[i] = v
  <2> DEFINE I == {i \in 1..Len(q) : q[i] = v}
             n == Min(I)
             r == RemoveAt(q, n)
  <2>1. n \in 1..Len(q) /\ q[n] = v
    <3>1. I \in SUBSET Nat /\ I # {}
      BY <1>1
    <3> QED
      BY <3>1, Least
  <2>2. RemoveFirst(q, v) = r
    <3>1. I # {}
      BY <1>1
    <3> QED
      BY <1>1, <3>1 DEF RemoveFirst, SelectInSeq
  <2> HIDE DEF I, n
  <2>3. /\ r \in Seq(S) /\ Len(r) = Len(q) - 1 /\ Len(q) \in Nat
        /\ \A i \in 1..Len(r) : r[i] = IF i < n THEN q[i] ELSE q[i + 1]
    <3> DEFINE a == SubSeq(q, 1, n - 1)
               b == SubSeq(q, n + 1, Len(q))
    <3>1. Len(q) \in Nat /\ n \in 1..Len(q)
      BY <2>1
    <3>2. /\ a \in Seq(S) /\ Len(a) = n - 1
          /\ \A i \in 1..(n - 1) : a[i] = q[i]
      BY <3>1
    <3>3. /\ b \in Seq(S) /\ Len(b) = Len(q) - n
          /\ \A i \in 1..(Len(q) - n) : b[i] = q[n + i]
      BY <3>1
    <3>4. r = a \o b
      BY DEF RemoveAt
    <3> HIDE DEF a, b, r
    <3>5. /\ r \in Seq(S) /\ Len(r) = Len(q) - 1
          /\ \A i \in 1..(n - 1) : r[i] = a[i]
          /\ \A i \in n..(Len(q) - 1) : r[i] = b[i - (n - 1)]
      BY <3>1, <3>2, <3>3, <3>4
    <3> QED
      BY <3>1, <3>2, <3>3, <3>5
  <2> HIDE DEF r
  <2>4. ToSet(r) \subseteq ToSet(q)
    BY <2>1, <2>3 DEF ToSet
  <2>5. ASSUME NEW x \in ToSet(q), x # v PROVE x \in ToSet(r)
    <3>1. PICK j \in 1..Len(q) : q[j] = x
      BY DEF ToSet
    <3>2. CASE j < n
      BY <2>1, <2>3, <3>1, <3>2 DEF ToSet
    <3>3. CASE j > n
      <4>1. j - 1 \in 1..Len(r) /\ r[j - 1] = q[j]
        BY <2>1, <2>3, <3>1, <3>3
      <4> QED
        BY <2>3, <3>1, <4>1 DEF ToSet
    <3> QED
      BY <2>1, <2>5, <3>1, <3>2, <3>3
  <2> QED
    BY <2>2, <2>3, <2>4, <2>5
<1>2. CASE ~\E i \in 1..Len(q) : q[i] = v
  BY <1>2 DEF RemoveFirst
<1> QED
  BY <1>1, <1>2

\* What an operator types is a list.
LEMMA TypedIsList ==
    ASSUME NEW k \in Kinds, NEW q \in TypedLists(k)
    PROVE  q \in Seq(Texts)
<1>1. PICK m \in 0..MaxTyped : q \in [1..m -> Typed[k]]
  BY DEF TypedLists, SeqOf
<1>2. m \in Nat /\ Typed[k] \subseteq Texts
  BY TextsAssumption
<1>3. q \in Seq(Typed[k])
  BY <1>1, <1>2
<1> QED
  BY <1>2, <1>3

\* The entries of a list that gets one more.
LEMMA AddOne ==
    ASSUME NEW S, NEW q \in Seq(S), NEW v \in S
    PROVE  Append(q, v) \in Seq(S) /\ ToSet(Append(q, v)) = ToSet(q) \cup {v}
<1>1. /\ Append(q, v) \in Seq(S) /\ Len(Append(q, v)) = Len(q) + 1
      /\ Len(q) \in Nat /\ Append(q, v)[Len(q) + 1] = v
      /\ \A i \in 1..Len(q) : Append(q, v)[i] = q[i]
  OBVIOUS
<1>2. DOMAIN Append(q, v) = 1..(Len(q) + 1) /\ DOMAIN q = 1..Len(q)
  BY <1>1
<1>3. \A i \in 1..(Len(q) + 1) : i \in 1..Len(q) \/ i = Len(q) + 1
  BY <1>1
<1> QED
  BY <1>1, <1>2, <1>3 DEF ToSet

-----------------------------------------------------------------------------
\* The address of a source is one an alert can be whitelisted by.
LEMMA SourceType ==
    ASSUME NEW s \in Sources
    PROVE  /\ s.kind \in Kinds /\ s.ip \in Texts /\ s.mac \in Texts
           /\ Lower[s.ip] = s.ip
BY TextsAssumption

LEMMA StartInv ==
    ASSUME Init
    PROVE  TypeOK /\ EntriesStay
<1>1. \A k \in Kinds : lists[k] \in Seq(Texts)
  BY TypedIsList DEF Init
<1>2. lists \in [Kinds -> Seq(Texts)]
  BY <1>1 DEF Init
<1> QED
  BY <1>2 DEF Init, TypeOK, EntriesStay

\* A packet touches no list.
LEMMA PacketInv ==
    ASSUME TypeOK, EntriesStay, NEW s \in Sources,
           DhcpOffer(s) \/ RouterAdvertisement(s) \/ Dhcpv6Reply(s)
    PROVE  TypeOK' /\ EntriesStay'
<1>1. /\ UNCHANGED <<lists, blessed>> /\ warned' \in {warned, TRUE}
      /\ rows' \in {rows, rows \cup {s}}
  BY DEF DhcpOffer, RouterAdvertisement, Dhcpv6Reply, Warn, Report
<1> QED
  BY <1>1 DEF TypeOK, EntriesStay

\* One click adds the entry if it is not there.
LEMMA WhitelistInv ==
    ASSUME TypeOK, EntriesStay, NEW s \in Sources, WhitelistAlert(s)
    PROVE  TypeOK' /\ EntriesStay'
<1>1. /\ s.kind \in Kinds /\ s.ip \in Texts /\ lists \in [Kinds -> Seq(Texts)]
      /\ blessed \subseteq rows /\ rows \subseteq Sources
  BY SourceType DEF TypeOK
<1>2. /\ s \in rows /\ blessed' = blessed \cup {s} /\ UNCHANGED <<warned, rows>>
      /\ \/ s.ip \in ToSet(lists[s.kind]) /\ lists' = lists
         \/ lists' = [lists EXCEPT ![s.kind] = Append(@, s.ip)]
  BY DEF WhitelistAlert, WhitelistTarget, IsWhitelisted
<1>3. /\ lists' \in [Kinds -> Seq(Texts)]
      /\ \A k \in Kinds : ToSet(lists[k]) \subseteq ToSet(lists'[k])
      /\ s.ip \in ToSet(lists'[s.kind])
  <2>1. CASE lists' = lists /\ s.ip \in ToSet(lists[s.kind])
    BY <1>1, <2>1
  <2>2. CASE lists' = [lists EXCEPT ![s.kind] = Append(@, s.ip)]
    <3>1. /\ lists'[s.kind] = Append(lists[s.kind], s.ip)
          /\ \A k \in Kinds : k # s.kind => lists'[k] = lists[k]
      BY <1>1, <2>2
    <3>2. /\ Append(lists[s.kind], s.ip) \in Seq(Texts)
          /\ ToSet(Append(lists[s.kind], s.ip)) = ToSet(lists[s.kind]) \cup {s.ip}
      BY <1>1, AddOne
    <3> QED
      BY <1>1, <2>2, <3>1, <3>2
  <2> QED
    BY <1>2, <2>1, <2>2
<1>4. TypeOK'
  BY <1>1, <1>2, <1>3 DEF TypeOK
<1>5. ASSUME NEW b \in blessed' PROVE b.ip \in ToSet(lists'[b.kind])
  <2>1. CASE b = s
    BY <1>3, <2>1
  <2>2. CASE b # s
    <3>1. b \in blessed /\ b.kind \in Kinds
      BY <1>1, <1>2, <2>2, SourceType
    <3> QED
      BY <1>3, <3>1 DEF EntriesStay
  <2> QED
    BY <2>1, <2>2
<1> QED
  BY <1>4, <1>5 DEF EntriesStay

\* A removal takes one entry, and its source is no longer blessed.
LEMMA RemoveInv ==
    ASSUME TypeOK, EntriesStay, NEW k \in Kinds, NEW v \in Texts,
           RemoveFromWhitelist(k, v)
    PROVE  TypeOK' /\ EntriesStay'
<1>1. /\ lists \in [Kinds -> Seq(Texts)] /\ lists[k] \in Seq(Texts)
      /\ blessed \subseteq rows /\ rows \subseteq Sources
  BY DEF TypeOK
<1>2. /\ lists' = [lists EXCEPT ![k] = RemoveFirst(@, v)]
      /\ blessed' = {s \in blessed : s.kind = k => s.ip # v}
      /\ UNCHANGED <<warned, rows>>
  BY DEF RemoveFromWhitelist, Removed
<1>3. /\ RemoveFirst(lists[k], v) \in Seq(Texts)
      /\ \A x \in ToSet(lists[k]) : x # v => x \in ToSet(RemoveFirst(lists[k], v))
  BY <1>1, RemoveOne
<1>4. TypeOK'
  BY <1>1, <1>2, <1>3 DEF TypeOK
<1>5. ASSUME NEW b \in blessed' PROVE b.ip \in ToSet(lists'[b.kind])
  <2>1. b \in blessed /\ b.kind \in Kinds /\ (b.kind = k => b.ip # v)
    BY <1>1, <1>2, SourceType
  <2>2. b.ip \in ToSet(lists[b.kind])
    BY <2>1 DEF EntriesStay
  <2>3. lists'[b.kind] = IF b.kind = k THEN RemoveFirst(lists[k], v) ELSE lists[b.kind]
    BY <1>1, <1>2, <2>1
  <2> QED
    BY <1>3, <2>1, <2>2, <2>3
<1> QED
  BY <1>4, <1>5 DEF EntriesStay

\* A list typed anew keeps blessed whom it names.
LEMMA EditInv ==
    ASSUME TypeOK, EntriesStay, NEW k \in Kinds, NEW typed \in TypedLists(k),
           EditList(k, typed)
    PROVE  TypeOK' /\ EntriesStay'
<1>1. /\ lists' = [lists EXCEPT ![k] = typed]
      /\ blessed' = {s \in blessed : s.kind = k => s.ip \in ToSet(typed)}
      /\ UNCHANGED <<warned, rows>>
  BY DEF EditList
<1>2. typed \in Seq(Texts)
  BY TypedIsList
<1>3. TypeOK'
  BY <1>1, <1>2 DEF TypeOK
<1>4. ASSUME NEW b \in blessed' PROVE b.ip \in ToSet(lists'[b.kind])
  <2>1. b \in blessed /\ b.kind \in Kinds /\ (b.kind = k => b.ip \in ToSet(typed))
    BY <1>1, SourceType DEF TypeOK
  <2>2. lists'[b.kind] = IF b.kind = k THEN typed ELSE lists[b.kind]
    BY <1>1, <2>1 DEF TypeOK
  <2> QED
    BY <2>1, <2>2 DEF EntriesStay
<1> QED
  BY <1>3, <1>4 DEF EntriesStay

LEMMA Invariance == Spec => [](TypeOK /\ EntriesStay)
<1>1. Init => TypeOK /\ EntriesStay
  BY StartInv
<1>2. TypeOK /\ EntriesStay /\ [Next]_vars => TypeOK' /\ EntriesStay'
  <2> SUFFICES ASSUME TypeOK, EntriesStay, [Next]_vars
               PROVE  TypeOK' /\ EntriesStay'
    OBVIOUS
  <2>1. CASE UNCHANGED vars
    BY <2>1 DEF vars, TypeOK, EntriesStay
  <2> QED
    BY <2>1, PacketInv, WhitelistInv, RemoveInv, EditInv DEF Next
<1> QED
  BY <1>1, <1>2, PTL DEF Spec

-----------------------------------------------------------------------------
\* The detector lets a source pass whose exact address is on its list.
LEMMA Understood ==
    ASSUME TypeOK, NEW s \in Sources, s.ip \in ToSet(lists[s.kind])
    PROVE  ~Reported(s)
<1>1. s.kind \in Kinds /\ Lower[s.ip] = s.ip
  BY SourceType
<1>2. CASE s.kind = "dhcp"
  BY <1>2 DEF Reported, IsAuthorized
<1>3. CASE s.kind # "dhcp"
  BY <1>3 DEF Reported, IsKnown
<1> QED
  BY <1>2, <1>3

(***************************************************************************)
(* Lists stay lists of addresses, and only sources that raised an alert    *)
(* are whitelisted from one.                                               *)
(***************************************************************************)
THEOREM TypeCorrect == Spec => []TypeOK
BY Invariance, PTL

(***************************************************************************)
(* A source whitelisted with one click stays silent until its entry is     *)
(* taken out, whatever else is added, typed, removed or reloaded.          *)
(***************************************************************************)
THEOREM SilenceStays == Spec => []WhitelistedStaysSilent
<1>1. TypeOK /\ EntriesStay => WhitelistedStaysSilent
  BY Understood DEF TypeOK, EntriesStay, WhitelistedStaysSilent
<1> QED
  BY <1>1, Invariance, PTL

(***************************************************************************)
(* What the pages mark as whitelisted the detector lets pass.              *)
(***************************************************************************)
THEOREM MarksAreTrue == Spec => []MarkedMeansSilent
<1>1. TypeOK => MarkedMeansSilent
  BY Understood DEF TypeOK, MarkedMeansSilent, IsWhitelisted, WhitelistTarget
<1> QED
  BY <1>1, TypeCorrect, PTL

\* An entry taken out matters to those only whom it names.
LEMMA RemovalStep ==
    ASSUME TypeOK, NEW k \in Kinds, NEW v \in Texts, RemoveFromWhitelist(k, v),
           ~(k = "dhcp" /\ Len(lists[k]) = 1),
           NEW s \in Sources, ~Concerns(k, v, s)
    PROVE  Reported(s)' <=> Reported(s)
<1>1. /\ lists \in [Kinds -> Seq(Texts)] /\ lists[k] \in Seq(Texts)
      /\ v \in ToSet(lists[k])
      /\ lists' = [lists EXCEPT ![k] = RemoveFirst(@, v)]
  BY DEF TypeOK, RemoveFromWhitelist, Removed
<1>2. /\ s.kind \in Kinds /\ Lower[s.ip] = s.ip
  BY SourceType
<1>3. CASE s.kind # k
  <2>1. lists'[s.kind] = lists[s.kind]
    BY <1>1, <1>2, <1>3
  <2> QED
    BY <2>1 DEF Reported, IsAuthorized, IsKnown
<1>4. CASE s.kind = k
  <2> DEFINE q == lists[k]
             r == lists'[k]
  <2>1. r = RemoveFirst(q, v)
    BY <1>1
  <2>2. /\ ToSet(r) \subseteq ToSet(q)
        /\ \A x \in ToSet(q) : x # v => x \in ToSet(r)
        /\ Len(q) # 1 /\ q # <<>> => r # <<>>
    BY <1>1, <2>1, RemoveOne
  <2>3. v # s.ip /\ Lower[v] # s.ip /\ Lower[v] # s.mac
    BY <1>4 DEF Concerns
  <2>4. q # <<>>
    BY <1>1 DEF ToSet
  <2>5. CASE k = "dhcp"
    <3>1. IsAuthorized(s)' <=> IsAuthorized(s)
      BY <2>2, <2>3, <2>5 DEF IsAuthorized
    <3>2. q # <<>> /\ r # <<>>
      BY <2>2, <2>4, <2>5
    <3> QED
      BY <1>4, <2>5, <3>1, <3>2 DEF Reported
  <2>6. CASE k # "dhcp"
    <3>1. IsKnown(s)' <=> IsKnown(s)
      BY <1>2, <1>4, <2>2, <2>3 DEF IsKnown
    <3> QED
      BY <1>4, <2>6, <3>1 DEF Reported
  <2> QED
    BY <2>5, <2>6
<1> QED
  BY <1>3, <1>4

(***************************************************************************)
(* Removing an entry changes the treatment of nobody it does not name, in  *)
(* lists of any length and with entries in any spelling and number.        *)
(***************************************************************************)
THEOREM RemovalsAreLocal == Spec => RemovalConcernsItsSource
<1>1. TypeOK /\ [Next]_vars =>
        [ \A k \in Kinds, v \in Texts :
            RemoveFromWhitelist(k, v) /\ ~(k = "dhcp" /\ Len(lists[k]) = 1) =>
              \A s \in Sources : Reported(s)' # Reported(s) => Concerns(k, v, s) ]_vars
  <2> SUFFICES ASSUME TypeOK, NEW k \in Kinds, NEW v \in Texts,
                      RemoveFromWhitelist(k, v),
                      ~(k = "dhcp" /\ Len(lists[k]) = 1),
                      NEW s \in Sources, ~Concerns(k, v, s)
               PROVE  Reported(s)' = Reported(s)
    OBVIOUS
  <2>1. Reported(s)' <=> Reported(s)
    BY RemovalStep
  <2>2. Reported(s) \in BOOLEAN /\ Reported(s)' \in BOOLEAN
    BY DEF Reported, IsKnown, IsAuthorized
  <2> QED
    BY <2>1, <2>2
<1> QED
  BY <1>1, TypeCorrect, PTL DEF Spec, RemovalConcernsItsSource
=============================================================================
