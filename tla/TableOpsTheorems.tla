-------------------------- MODULE TableOpsTheorems --------------------------
(***************************************************************************)
(* What the operations of a table do to a sequence of keys, for every set  *)
(* of keys.                                                                *)
(***************************************************************************)
EXTENDS TableOps, SequenceTheorems, FiniteSetTheorems, WellFoundedInduction, TLAPS

\* A set of numbers has a least one.  Proofs by induction argue about the
\* least number for which the claim fails.
LEMMA LeastNumber ==
  ASSUME NEW S \in SUBSET Nat, S # {}
  PROVE  \E n \in S : \A m \in S : n <= m
PROOF
<1> DEFINE R == OpToRel(<, Nat)
<1>1. IsWellFoundedOn(R, Nat)
  BY NatLessThanWellFounded
<1>2. \A x, y \in Nat : x < y => <<x, y>> \in R
  BY DEF OpToRel
<1> HIDE DEF R
<1>3. PICK x \in S : \A y \in S : ~(<<y, x>> \in R)
  BY <1>1, WFMin
<1>4. \A y \in S : ~(y < x)
  BY <1>2, <1>3
<1> QED BY <1>4

\* RemoveAt closes the gap: positions before the removed one keep their
\* element, the ones from it on take their successor's.
LEMMA RemoveAtProperties ==
  ASSUME NEW S, NEW s \in Seq(S), NEW p \in 1..Len(s)
  PROVE  /\ RemoveAt(s, p) \in Seq(S)
         /\ Len(RemoveAt(s, p)) = Len(s) - 1
         /\ \A i \in 1..(Len(s) - 1) :
              RemoveAt(s, p)[i] = IF i < p THEN s[i] ELSE s[i + 1]
PROOF
<1> DEFINE a == SubSeq(s, 1, p - 1)
           b == SubSeq(s, p + 1, Len(s))
<1>1. Len(s) \in Nat /\ p \in Int
  BY LenProperties
<1>2. /\ a \in Seq(S)
      /\ Len(a) = p - 1
      /\ \A i \in 1..(p - 1) : a[i] = s[i]
  <2>1. \A i \in 1..(p - 1) : s[i] \in S
    BY <1>1, ElementOfSeq
  <2>2. /\ a \in Seq(S)
        /\ Len(a) = IF 1 <= p - 1 THEN (p - 1) - 1 + 1 ELSE 0
        /\ \A i \in 1..((p - 1) - 1 + 1) : a[i] = s[1 + i - 1]
    BY <1>1, <2>1, SubSeqProperties
  <2> QED BY <1>1, <2>2
<1>3. /\ b \in Seq(S)
      /\ Len(b) = Len(s) - p
      /\ \A i \in 1..(Len(s) - p) : b[i] = s[p + i]
  <2>1. \A i \in (p + 1)..Len(s) : s[i] \in S
    BY <1>1, ElementOfSeq
  <2>2. /\ b \in Seq(S)
        /\ Len(b) = IF p + 1 <= Len(s) THEN Len(s) - (p + 1) + 1 ELSE 0
        /\ \A i \in 1..(Len(s) - (p + 1) + 1) : b[i] = s[(p + 1) + i - 1]
    BY <1>1, <2>1, SubSeqProperties
  <2> QED BY <1>1, <2>2
<1>4. /\ a \o b \in Seq(S)
      /\ Len(a \o b) = Len(a) + Len(b)
      /\ \A i \in 1..(Len(a) + Len(b)) :
           (a \o b)[i] = IF i <= Len(a) THEN a[i] ELSE b[i - Len(a)]
  BY <1>2, <1>3, ConcatProperties
<1>5. RemoveAt(s, p) = a \o b
  BY DEF RemoveAt
<1> HIDE DEF a, b
<1>6. Len(a) + Len(b) = Len(s) - 1
  BY <1>1, <1>2, <1>3
<1>7. ASSUME NEW i \in 1..(Len(s) - 1)
      PROVE  (a \o b)[i] = IF i < p THEN s[i] ELSE s[i + 1]
  <2>1. (a \o b)[i] = IF i <= p - 1 THEN a[i] ELSE b[i - (p - 1)]
    BY <1>2, <1>4, <1>6
  <2>2. CASE i < p
    <3>1. i \in 1..(p - 1)
      BY <1>1, <2>2
    <3> QED BY <1>1, <1>2, <2>1, <2>2, <3>1
  <2>3. CASE ~(i < p)
    <3>1. /\ i - (p - 1) \in 1..(Len(s) - p)
          /\ p + (i - (p - 1)) = i + 1
      BY <1>1, <2>3
    <3> QED BY <1>1, <1>3, <2>1, <2>3, <3>1
  <2> QED BY <2>2, <2>3
<1> QED BY <1>4, <1>5, <1>6, <1>7

\* A deletion removes one entry: the others keep their order.  The witness p
\* is where the key was.
LEMMA DeleteProperties ==
  ASSUME NEW S, NEW s \in Seq(S), NEW k, Present(s, k)
  PROVE  \E p \in 1..Len(s) :
           /\ s[p] = k
           /\ Delete(s, k) \in Seq(S)
           /\ Len(Delete(s, k)) = Len(s) - 1
           /\ \A i \in 1..(Len(s) - 1) :
                Delete(s, k)[i] = IF i < p THEN s[i] ELSE s[i + 1]
PROOF
<1>1. DOMAIN s = 1..Len(s)
  BY LenProperties
<1>2. Position(s, k) \in 1..Len(s) /\ s[Position(s, k)] = k
  BY <1>1 DEF Present, Position
<1>3. Delete(s, k) = RemoveAt(s, Position(s, k))
  BY DEF Delete
<1> QED BY <1>2, <1>3, RemoveAtProperties

LEMMA DeleteAbsent ==
  ASSUME NEW s, NEW k, ~Present(s, k)
  PROVE  Delete(s, k) = s
PROOF
BY DEF Delete

\* Deleting from a sequence without repetitions removes exactly that key.
LEMMA DeleteDistinct ==
  ASSUME NEW S, NEW s \in Seq(S), NEW k, Distinct(s)
  PROVE  /\ Delete(s, k) \in Seq(S)
         /\ Distinct(Delete(s, k))
         /\ \A x : Present(Delete(s, k), x) <=> Present(s, x) /\ x # k
PROOF
<1>1. Len(s) \in Nat /\ DOMAIN s = 1..Len(s)
  BY LenProperties
<1>2. CASE ~Present(s, k)
  <2>1. Delete(s, k) = s
    BY <1>2, DeleteAbsent
  <2> QED BY <1>2, <2>1 DEF Present
<1>3. CASE Present(s, k)
  <2> DEFINE d == Delete(s, k)
  <2>1. PICK p \in 1..Len(s) :
          /\ s[p] = k
          /\ d \in Seq(S)
          /\ Len(d) = Len(s) - 1
          /\ \A i \in 1..(Len(s) - 1) :
               d[i] = IF i < p THEN s[i] ELSE s[i + 1]
    BY <1>3, DeleteProperties
  <2> HIDE DEF d
  <2>2. DOMAIN d = 1..(Len(s) - 1)
    BY <2>1, LenProperties
  <2>3. ASSUME NEW i \in DOMAIN d
        PROVE  \E m \in 1..Len(s) :
                 m # p /\ d[i] = s[m] /\ m = IF i < p THEN i ELSE i + 1
    BY <1>1, <2>1, <2>2
  <2>4. Distinct(d)
    <3> SUFFICES ASSUME NEW i \in DOMAIN d, NEW j \in DOMAIN d, d[i] = d[j]
                 PROVE  i = j
      BY DEF Distinct
    <3>1. PICK m \in 1..Len(s) :
            d[i] = s[m] /\ m = IF i < p THEN i ELSE i + 1
      BY <2>3
    <3>2. PICK n \in 1..Len(s) :
            d[j] = s[n] /\ n = IF j < p THEN j ELSE j + 1
      BY <2>3
    <3>3. m = n
      BY <1>1, <3>1, <3>2 DEF Distinct
    <3> QED BY <1>1, <2>2, <3>1, <3>2, <3>3
  <2>5. ASSUME NEW x, Present(d, x)
        PROVE  Present(s, x) /\ x # k
    <3>1. PICK i \in DOMAIN d : d[i] = x
      BY <2>5 DEF Present
    <3>2. PICK m \in 1..Len(s) : m # p /\ d[i] = s[m]
      BY <2>3
    <3> QED BY <1>1, <2>1, <3>1, <3>2 DEF Present, Distinct
  <2>6. ASSUME NEW x, Present(s, x), x # k
        PROVE  Present(d, x)
    <3>1. PICK m \in 1..Len(s) : s[m] = x
      BY <1>1, <2>6 DEF Present
    <3>2. m # p
      BY <2>1, <2>6, <3>1
    <3>3. CASE m < p
      BY <1>1, <2>1, <2>2, <3>1, <3>3 DEF Present
    <3>4. CASE m > p
      <4>1. m - 1 \in DOMAIN d /\ ~(m - 1 < p) /\ (m - 1) + 1 = m
        BY <1>1, <2>2, <3>4
      <4> QED BY <2>1, <2>2, <3>1, <4>1 DEF Present
    <3> QED BY <1>1, <3>2, <3>3, <3>4
  <2> QED BY <2>1, <2>4, <2>5, <2>6 DEF d
<1> QED BY <1>2, <1>3

\* Deleting keeps the order of the keys that stay.
LEMMA DeleteKeepsOrder ==
  ASSUME NEW S, NEW s \in Seq(S), NEW k,
         NEW i \in DOMAIN Delete(s, k), NEW j \in DOMAIN Delete(s, k), i < j
  PROVE  \E m, n \in DOMAIN s :
           m < n /\ Delete(s, k)[i] = s[m] /\ Delete(s, k)[j] = s[n]
PROOF
<1>1. Len(s) \in Nat /\ DOMAIN s = 1..Len(s)
  BY LenProperties
<1>2. CASE ~Present(s, k)
  <2>1. Delete(s, k) = s
    BY <1>2, DeleteAbsent
  <2> QED BY <2>1
<1>3. CASE Present(s, k)
  <2> DEFINE d == Delete(s, k)
  <2>1. PICK p \in 1..Len(s) :
          /\ d \in Seq(S)
          /\ Len(d) = Len(s) - 1
          /\ \A q \in 1..(Len(s) - 1) :
               d[q] = IF q < p THEN s[q] ELSE s[q + 1]
    BY <1>3, DeleteProperties
  <2> HIDE DEF d
  <2>2. DOMAIN d = 1..(Len(s) - 1)
    BY <2>1, LenProperties
  <2>3. i \in 1..(Len(s) - 1) /\ j \in 1..(Len(s) - 1)
    BY <2>2 DEF d
  <2> DEFINE m == IF i < p THEN i ELSE i + 1
             n == IF j < p THEN j ELSE j + 1
  <2>4. m \in 1..Len(s) /\ n \in 1..Len(s) /\ m < n
    BY <1>1, <2>3
  <2>5. d[i] = s[m] /\ d[j] = s[n]
    BY <2>1, <2>3
  <2> HIDE DEF m, n
  <2> QED BY <1>1, <2>4, <2>5 DEF d
<1> QED BY <1>2, <1>3

\* Appending an absent key adds exactly that key.
LEMMA AppendAbsent ==
  ASSUME NEW S, NEW s \in Seq(S), NEW k \in S, Distinct(s), ~Present(s, k)
  PROVE  /\ Append(s, k) \in Seq(S)
         /\ Distinct(Append(s, k))
         /\ \A x : Present(Append(s, k), x) <=> Present(s, x) \/ x = k
PROOF
<1> DEFINE t == Append(s, k)
<1>1. Len(s) \in Nat /\ DOMAIN s = 1..Len(s)
  BY LenProperties
<1>2. /\ t \in Seq(S)
      /\ Len(t) = Len(s) + 1
      /\ \A i \in 1..Len(s) : t[i] = s[i]
      /\ t[Len(s) + 1] = k
  BY AppendProperties
<1> HIDE DEF t
<1>3. DOMAIN t = 1..(Len(s) + 1)
  BY <1>2, LenProperties
<1>4. \A i \in 1..Len(s) : s[i] # k
  BY <1>1 DEF Present
<1>5. Distinct(t)
  BY <1>1, <1>2, <1>3, <1>4 DEF Distinct
<1>6. \A x : Present(t, x) <=> Present(s, x) \/ x = k
  BY <1>1, <1>2, <1>3 DEF Present
<1> QED BY <1>2, <1>5, <1>6 DEF t
=============================================================================
