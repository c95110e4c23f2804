---------------------------- MODULE LinkHashProofs ----------------------------
(***************************************************************************)
(* Proofs about LinkHash, for every set of keys, every hash function and   *)
(* every size: the list through the slots is sound, a lookup finds what    *)
(* was inserted and not deleted, an insertion ends, and the table          *)
(* implements OrderedTable.                                                *)
(*                                                                         *)
(* The walk along the links is a recursive function.  The invariant says   *)
(* instead that there is a sequence of slots which the links describe      *)
(* (Chain), from which the walk follows once, in WalkIsChain.              *)
(***************************************************************************)
EXTENDS LinkHash, TableOpsTheorems

Slots(x) == 0..x.size - 1

\* a struct lh_table
IsRecord(x) ==
  x \in [size : {x.size}, count : {x.count}, head : {x.head}, tail : {x.tail},
         slot : {x.slot}]
IsTable(x) == TableTypeOK(x) /\ IsRecord(x)

\* s is the sequence of the slots in use that head, tail, next and prev
\* describe, and count is its length
Chain(x, s) ==
  /\ s \in Seq(Slots(x))
  /\ Distinct(s)
  /\ x.count = Len(s)
  /\ x.head = IF Len(s) = 0 THEN Null ELSE s[1]
  /\ x.tail = IF Len(s) = 0 THEN Null ELSE s[Len(s)]
  /\ \A i \in 1..Len(s) :
       /\ x.slot[s[i]].next = IF i = Len(s) THEN Null ELSE s[i + 1]
       /\ x.slot[s[i]].prev = IF i = 1 THEN Null ELSE s[i - 1]
  /\ \A n \in Slots(x) : x.slot[n].k \in Key <=> \E i \in 1..Len(s) : s[i] = n

\* no key is in two slots
KeysApart(x) ==
  \A m, n \in Slots(x) : x.slot[m].k \in Key /\ x.slot[m].k = x.slot[n].k => m = n

\* no empty slot comes before a key in its probe order
Reachable(x) ==
  \A n \in Slots(x) : x.slot[n].k \in Key =>
    \E i \in Slots(x) :
      /\ Probe(x, x.slot[n].k, i) = n
      /\ \A j \in 0..i - 1 : x.slot[Probe(x, x.slot[n].k, j)].k # Empty

HashOK == hash \in [Key -> Nat]

Sound(x) == IsTable(x) /\ KeysApart(x) /\ Reachable(x)

-----------------------------------------------------------------------------
(* Probing.                                                                *)

LEMMA RemainderIsUnique ==
  ASSUME NEW s \in Nat \ {0}, NEW q \in Int, NEW r \in 0..s - 1
  PROVE  (s * q + r) % s = r
OBVIOUS

\* Probing from any hash comes to every slot.
LEMMA ProbesReachAll ==
  ASSUME NEW s \in Nat \ {0}, NEW h \in Nat, NEW n \in 0..s - 1
  PROVE  \E i \in 0..s - 1 : (h + i) % s = n
<1> DEFINE a == h % s
           q == h \div s
<1>1. a \in 0..s - 1 /\ q \in Int /\ h = s * q + a
  OBVIOUS
<1> HIDE DEF a, q
<1>2. CASE n >= a
  <2>1. h + (n - a) = s * q + n
    BY <1>1
  <2>2. (h + (n - a)) % s = n
    BY <1>1, <2>1, RemainderIsUnique
  <2>3. n - a \in 0..s - 1
    BY <1>1, <1>2
  <2> QED BY <2>2, <2>3
<1>3. CASE n < a
  <2>1. h + (n - a + s) = s * (q + 1) + n
    BY <1>1
  <2>2. q + 1 \in Int
    BY <1>1
  <2>3. (h + (n - a + s)) % s = n
    BY <1>1, <2>1, <2>2, RemainderIsUnique
  <2>4. n - a + s \in 0..s - 1
    BY <1>1, <1>3
  <2> QED BY <2>3, <2>4
<1> QED BY <1>1, <1>2, <1>3

LEMMA ProbeTyping ==
  ASSUME HashOK, NEW x, IsTable(x), NEW k \in Key, NEW i \in Nat
  PROVE  Probe(x, k, i) \in Slots(x)
<1>1. hash[k] + i \in Nat /\ x.size \in Nat \ {0}
  BY DEF HashOK, IsTable, TableTypeOK
<1>2. \A h \in Nat, s \in Nat \ {0} : h % s \in 0..s - 1
  OBVIOUS
<1> QED BY <1>1, <1>2 DEF Probe, Slots

\* The search finds nothing only if no slot has what stops it; what it finds
\* is the first of its kind in the probe order.
LEMMA FirstProbeFinds ==
  ASSUME HashOK, NEW x, IsTable(x), NEW k \in Key, NEW Stop
  PROVE  \/ /\ FirstProbe(x, k, Stop) = Null
            /\ \A n \in Slots(x) : x.slot[n].k \notin Stop
         \/ \E i \in Slots(x) :
              /\ FirstProbe(x, k, Stop) = Probe(x, k, i)
              /\ x.slot[Probe(x, k, i)].k \in Stop
              /\ \A j \in 0..i - 1 : x.slot[Probe(x, k, j)].k \notin Stop
<1> DEFINE hits == {i \in 0..x.size - 1 : x.slot[Probe(x, k, i)].k \in Stop}
           first == CHOOSE i \in hits : \A j \in hits : i <= j
<1>1. FirstProbe(x, k, Stop) = IF hits = {} THEN Null ELSE Probe(x, k, first)
  BY DEF FirstProbe
<1>2. hits \in SUBSET Nat /\ x.size \in Nat \ {0}
  BY DEF IsTable, TableTypeOK
<1>3. CASE hits = {}
  <2>1. ASSUME NEW n \in Slots(x) PROVE x.slot[n].k \notin Stop
    <3>1. hash[k] \in Nat
      BY DEF HashOK
    <3>2. \E i \in 0..x.size - 1 : Probe(x, k, i) = n
      BY <1>2, <3>1, ProbesReachAll DEF Probe, Slots
    <3> QED BY <1>3, <3>2
  <2> QED BY <1>1, <1>3, <2>1
<1>4. CASE hits # {}
  <2>1. \E i \in hits : \A j \in hits : i <= j
    <3> HIDE DEF hits
    <3> QED BY <1>2, <1>4, LeastNumber
  <2>2. first \in hits /\ \A j \in hits : first <= j
    BY <2>1
  <2> HIDE DEF first
  <2>3. first \in Slots(x) /\ x.slot[Probe(x, k, first)].k \in Stop
    BY <2>2 DEF Slots
  <2>4. \A j \in 0..first - 1 : x.slot[Probe(x, k, j)].k \notin Stop
    BY <1>2, <2>2
  <2> QED BY <1>1, <1>4, <2>3, <2>4
<1> QED BY <1>3, <1>4

\* A lookup finds the slot of a key that is there, and nothing else.
LEMMA FindProperties ==
  ASSUME HashOK, NEW x, Sound(x), NEW k \in Key
  PROVE  /\ \A n \in Slots(x) : x.slot[n].k = k => Find(x, k) = n
         /\ (\A n \in Slots(x) : x.slot[n].k # k) => Find(x, k) = Null
<1> USE DEF Sound
<1> DEFINE f == FirstProbe(x, k, {Empty, k})
<1>0. Find(x, k) = IF f # Null /\ x.slot[f].k = k THEN f ELSE Null
  BY DEF Find
<1>1. \/ /\ f = Null
         /\ \A n \in Slots(x) : x.slot[n].k \notin {Empty, k}
      \/ \E i \in Slots(x) :
           /\ f = Probe(x, k, i)
           /\ x.slot[f].k \in {Empty, k}
           /\ \A j \in 0..i - 1 : x.slot[Probe(x, k, j)].k \notin {Empty, k}
  BY FirstProbeFinds
<1>2. x.size \in Nat \ {0} /\ Slots(x) \subseteq Nat /\ Null \notin Slots(x)
  BY DEF IsTable, TableTypeOK, Slots, Null
<1> HIDE DEF f
<1>3. ASSUME NEW n \in Slots(x), x.slot[n].k = k PROVE Find(x, k) = n
  <2>1. PICK i \in Slots(x) :
          f = Probe(x, k, i) /\ x.slot[f].k \in {Empty, k}
          /\ \A j \in 0..i - 1 : x.slot[Probe(x, k, j)].k \notin {Empty, k}
    BY <1>1, <1>3
  <2>2. PICK m \in Slots(x) :
          /\ Probe(x, k, m) = n
          /\ \A j \in 0..m - 1 : x.slot[Probe(x, k, j)].k # Empty
    BY <1>3 DEF Reachable
  <2>3. i <= m
    BY <1>2, <1>3, <2>1, <2>2 DEF Slots
  <2>4. x.slot[f].k = k
    <3>1. CASE i = m
      BY <1>3, <2>1, <2>2, <3>1
    <3>2. CASE i < m
      BY <1>2, <2>1, <2>2, <3>2 DEF Slots
    <3> QED BY <1>2, <2>3, <3>1, <3>2
  <2>5. f \in Slots(x)
    BY <1>2, <2>1, ProbeTyping
  <2>6. f = n
    BY <1>3, <2>4, <2>5 DEF KeysApart
  <2> QED BY <1>0, <1>2, <2>4, <2>5, <2>6
<1>4. ASSUME \A n \in Slots(x) : x.slot[n].k # k PROVE Find(x, k) = Null
  <2>1. f = Null \/ f \in Slots(x)
    BY <1>1, <1>2, ProbeTyping
  <2> QED BY <1>0, <1>4, <2>1
<1> QED BY <1>3, <1>4

-----------------------------------------------------------------------------
(* The list.                                                               *)

LEMMA CountTo ==
  ASSUME NEW n \in Nat
  PROVE  /\ IsFiniteSet(1..n) /\ Cardinality(1..n) = n
         /\ IsFiniteSet(0..n - 1) /\ Cardinality(0..n - 1) = n
<1>1. IsFiniteSet(1..n) /\ Cardinality(1..n) = IF 1 > n THEN 0 ELSE n - 1 + 1
  BY FS_Interval
<1>2. /\ IsFiniteSet(0..n - 1)
      /\ Cardinality(0..n - 1) = IF 0 > n - 1 THEN 0 ELSE n - 1 - 0 + 1
  BY FS_Interval
<1> QED BY <1>1, <1>2

\* The list is no longer than the table, and leaves a slot out if shorter.
LEMMA ChainFits ==
  ASSUME NEW x, IsTable(x), NEW s, Chain(x, s)
  PROVE  /\ Len(s) <= x.size
         /\ Len(s) < x.size => \E n \in Slots(x) : x.slot[n].k \notin Key
<1>1. /\ Len(s) \in Nat /\ s \in [1..Len(s) -> Slots(x)] /\ DOMAIN s = 1..Len(s)
      /\ x.size \in Nat \ {0}
  BY LenProperties DEF Chain, IsTable, TableTypeOK
<1>2. /\ IsFiniteSet(1..Len(s)) /\ Cardinality(1..Len(s)) = Len(s)
      /\ IsFiniteSet(Slots(x)) /\ Cardinality(Slots(x)) = x.size
  BY <1>1, CountTo DEF Slots
<1>3. \A i, j \in 1..Len(s) : s[i] = s[j] => i = j
  BY <1>1 DEF Chain, Distinct
<1>4. Len(s) <= x.size
  <2> SUFFICES ASSUME x.size < Len(s) PROVE FALSE
    BY <1>1
  <2>1. \E i, j \in 1..Len(s) : i # j /\ s[i] = s[j]
    BY <1>1, <1>2, FS_PigeonHole
  <2> QED BY <1>3, <2>1
<1>5. ASSUME Len(s) < x.size, \A n \in Slots(x) : x.slot[n].k \in Key
      PROVE  FALSE
  <2> DEFINE place == [n \in Slots(x) |-> CHOOSE i \in 1..Len(s) : s[i] = n]
  <2>1. \A n \in Slots(x) : place[n] \in 1..Len(s) /\ s[place[n]] = n
    BY <1>5 DEF Chain
  <2>2. place \in [Slots(x) -> 1..Len(s)]
    BY <2>1
  <2> HIDE DEF place
  <2>3. \E m, n \in Slots(x) : m # n /\ place[m] = place[n]
    BY <1>2, <1>5, <2>2, FS_PigeonHole
  <2> QED BY <2>1, <2>3
<1> QED BY <1>4, <1>5

\* The walk along next yields the sequence that the links describe.
LEMMA WalkIsChain ==
  ASSUME NEW x, IsTable(x), NEW s, Chain(x, s)
  PROVE  ListSlots(x) = s
<1> DEFINE Walk(at) ==
             [i \in 1..x.size + 1 |->
                IF i = 1 THEN x.head
                ELSE IF at[i - 1] = Null THEN Null ELSE x.slot[at[i - 1]].next]
           at == CHOOSE g : g = Walk(g)
           w == [i \in 1..x.size + 1 |-> IF i <= Len(s) THEN s[i] ELSE Null]
<1>1. /\ Len(s) \in Nat /\ s \in [1..Len(s) -> Slots(x)] /\ DOMAIN s = 1..Len(s)
      /\ x.size \in Nat \ {0} /\ Len(s) <= x.size
  BY LenProperties, ChainFits DEF Chain, IsTable, TableTypeOK
<1>2. \A i \in 1..Len(s) : s[i] \in Slots(x) /\ s[i] # Null
  BY <1>1 DEF Slots, Null
<1>3. w = Walk(w)
  <2>1. ASSUME NEW i \in 1..x.size + 1
        PROVE  w[i] = IF i = 1 THEN x.head
                      ELSE IF w[i - 1] = Null THEN Null ELSE x.slot[w[i - 1]].next
    <3>1. CASE i = 1
      <4>1. w[i] = IF Len(s) = 0 THEN Null ELSE s[1]
        BY <1>1, <3>1
      <4>2. x.head = IF Len(s) = 0 THEN Null ELSE s[1]
        BY DEF Chain
      <4> HIDE DEF w
      <4> QED BY <3>1, <4>1, <4>2
    <3>2. CASE i # 1 /\ i - 1 <= Len(s)
      <4>1. i - 1 \in 1..Len(s) /\ i - 1 \in 1..x.size + 1 /\ w[i - 1] = s[i - 1]
        BY <1>1, <3>2
      <4>2. w[i] = IF i - 1 = Len(s) THEN Null ELSE s[(i - 1) + 1]
        BY <1>1, <3>2
      <4>3. x.slot[s[i - 1]].next = IF i - 1 = Len(s) THEN Null ELSE s[(i - 1) + 1]
        BY <4>1 DEF Chain
      <4>4. s[i - 1] # Null
        BY <1>2, <4>1
      <4> HIDE DEF w
      <4> QED BY <3>2, <4>1, <4>2, <4>3, <4>4
    <3>3. CASE i # 1 /\ ~(i - 1 <= Len(s))
      BY <1>1, <3>3
    <3> QED BY <3>1, <3>2, <3>3
  <2> QED BY <2>1
<1>4. at = Walk(at)
  BY <1>3
<1>5. at = w
  <2> HIDE DEF at, w
  <2> DEFINE bad == {i \in 1..x.size + 1 : at[i] # w[i]}
  <2>1. bad = {}
    <3> SUFFICES ASSUME bad # {} PROVE FALSE
      OBVIOUS
    <3>1. bad \in SUBSET Nat
      BY <1>1
    <3>2. PICK i \in bad : \A j \in bad : i <= j
      <4> HIDE DEF bad
      <4> QED BY <3>1, LeastNumber
    <3>3. i \in 1..x.size + 1 /\ at[i] # w[i]
      BY <3>2
    <3>4. i # 1 => at[i - 1] = w[i - 1]
      BY <1>1, <3>2
    <3>5. /\ at[i] = IF i = 1 THEN x.head
                     ELSE IF at[i - 1] = Null THEN Null ELSE x.slot[at[i - 1]].next
          /\ w[i] = IF i = 1 THEN x.head
                    ELSE IF w[i - 1] = Null THEN Null ELSE x.slot[w[i - 1]].next
      BY <1>3, <1>4, <3>3
    <3> QED BY <3>3, <3>4, <3>5
  <2>2. \A i \in 1..x.size + 1 : at[i] = w[i]
    BY <2>1
  <2>3. DOMAIN at = 1..x.size + 1 /\ at = [i \in 1..x.size + 1 |-> at[i]]
    BY <1>4
  <2>4. w = [i \in 1..x.size + 1 |-> w[i]]
    BY DEF w
  <2> QED BY <2>2, <2>3, <2>4
<1>6. ListSlots(x)
        = [i \in 1..Cardinality({j \in 1..x.size : at[j] # Null}) |-> at[i]]
  BY DEF ListSlots
<1> HIDE DEF at
<1>7. {j \in 1..x.size : w[j] # Null} = 1..Len(s)
  BY <1>1, <1>2
<1>8. Cardinality(1..Len(s)) = Len(s)
  BY <1>1, CountTo
<1>9. ListSlots(x) = [i \in 1..Len(s) |-> w[i]]
  <2> HIDE DEF w
  <2> QED BY <1>5, <1>6, <1>7, <1>8
<1>10. \A i \in 1..Len(s) : w[i] = s[i]
  BY <1>1
<1> HIDE DEF w
<1> QED BY <1>1, <1>9, <1>10

\* The keys of the list are those of the slots of the sequence.
LEMMA KeysOfChain ==
  ASSUME NEW x, IsTable(x), NEW s, Chain(x, s)
  PROVE  /\ ListKeys(x) = [i \in 1..Len(s) |-> x.slot[s[i]].k]
         /\ ListKeys(x) \in Seq(Key)
         /\ Len(ListKeys(x)) = Len(s)
<1>1. Len(s) \in Nat /\ DOMAIN s = 1..Len(s) /\ \A i \in 1..Len(s) : s[i] \in Slots(x)
  BY LenProperties, ElementOfSeq DEF Chain
<1>2. ListKeys(x) = [i \in 1..Len(s) |-> x.slot[s[i]].k]
  BY <1>1, WalkIsChain DEF ListKeys
<1>3. \A i \in 1..Len(s) : x.slot[s[i]].k \in Key
  BY <1>1 DEF Chain
<1>4. ListKeys(x) \in [1..Len(s) -> Key]
  BY <1>2, <1>3
<1> QED BY <1>1, <1>2, <1>4

-----------------------------------------------------------------------------
(* Deleting an entry.                                                      *)

SlotType(x) == [k : Key \cup {Empty, Freed}, next : Slots(x) \cup {Null},
                prev : Slots(x) \cup {Null}]

LEMMA ChangedRecord ==
  ASSUME NEW x, IsRecord(x), NEW a, NEW b, NEW c, NEW d
  PROVE  IsRecord([x EXCEPT !.count = a, !.head = b, !.tail = c, !.slot = d])
BY DEF IsRecord

LEMMA UnlinkedFields ==
  ASSUME NEW x, IsTable(x), NEW n \in Slots(x)
  PROVE  /\ Unlinked(x, n).size = x.size
         /\ Unlinked(x, n).count = x.count - 1
         /\ Unlinked(x, n).head = IF x.head = n THEN x.slot[n].next ELSE x.head
         /\ Unlinked(x, n).tail = IF x.tail = n THEN x.slot[n].prev ELSE x.tail
         /\ Unlinked(x, n).slot =
              [m \in Slots(x) |-> IF m = n THEN FreedSlot ELSE Bypassed(x, n, m)]
         /\ IsRecord(Unlinked(x, n))
<1>1. DOMAIN x.slot = Slots(x) /\ IsRecord(x)
  BY DEF IsTable, TableTypeOK, Slots
<1>2. Unlinked(x, n).size = x.size
  BY <1>1 DEF Unlinked, IsRecord
<1>3. Unlinked(x, n).count = x.count - 1
  BY <1>1 DEF Unlinked, IsRecord
<1>4. Unlinked(x, n).head = IF x.head = n THEN x.slot[n].next ELSE x.head
  BY <1>1 DEF Unlinked, IsRecord
<1>5. Unlinked(x, n).tail = IF x.tail = n THEN x.slot[n].prev ELSE x.tail
  BY <1>1 DEF Unlinked, IsRecord
<1>6. Unlinked(x, n).slot =
        [m \in DOMAIN x.slot |-> IF m = n THEN FreedSlot ELSE Bypassed(x, n, m)]
  BY <1>1 DEF Unlinked, IsRecord
<1>7. IsRecord(Unlinked(x, n))
  <2> DEFINE a == x.count - 1
             b == IF x.head = n THEN x.slot[n].next ELSE x.head
             c == IF x.tail = n THEN x.slot[n].prev ELSE x.tail
             d == [m \in DOMAIN x.slot |-> IF m = n THEN FreedSlot ELSE Bypassed(x, n, m)]
  <2>1. IsRecord([x EXCEPT !.count = a, !.head = b, !.tail = c, !.slot = d])
    <3> HIDE DEF a, b, c, d
    <3> QED BY <1>1, ChangedRecord
  <2> QED BY <2>1, Zenon DEF Unlinked
<1> QED BY <1>1, <1>2, <1>3, <1>4, <1>5, <1>6, <1>7

\* What is left of the neighbours.
LEMMA BypassedFields ==
  ASSUME NEW x, IsTable(x), NEW n \in Slots(x), NEW m \in Slots(x)
  PROVE  /\ Bypassed(x, n, m) \in SlotType(x)
         /\ Bypassed(x, n, m).k = x.slot[m].k
         /\ Bypassed(x, n, m).next =
              IF m = x.slot[n].prev THEN x.slot[n].next ELSE x.slot[m].next
         /\ Bypassed(x, n, m).prev =
              IF m = x.slot[n].next THEN x.slot[n].prev ELSE x.slot[m].prev
<1>1. x.slot[m] \in SlotType(x) /\ x.slot[n] \in SlotType(x)
  BY DEF IsTable, TableTypeOK, SlotType, Slots
<1>2. Bypassed(x, n, m) \in SlotType(x)
  BY <1>1 DEF SlotType, Bypassed
<1>3. Bypassed(x, n, m).k = x.slot[m].k
  BY <1>1 DEF SlotType, Bypassed
<1>4. Bypassed(x, n, m).next =
        IF m = x.slot[n].prev THEN x.slot[n].next ELSE x.slot[m].next
  BY <1>1 DEF SlotType, Bypassed
<1>5. Bypassed(x, n, m).prev =
        IF m = x.slot[n].next THEN x.slot[n].prev ELSE x.slot[m].prev
  BY <1>1 DEF SlotType, Bypassed
<1> QED BY <1>2, <1>3, <1>4, <1>5

\* A deletion takes its slot out of the list and joins its neighbours; the
\* keys of the other slots stay where they are.
LEMMA UnlinkedChain ==
  ASSUME NEW x, IsTable(x), NEW s, Chain(x, s), NEW p \in 1..Len(s)
  PROVE  /\ IsTable(Unlinked(x, s[p]))
         /\ Chain(Unlinked(x, s[p]), RemoveAt(s, p))
         /\ Unlinked(x, s[p]).size = x.size
         /\ \A m \in Slots(x) : Unlinked(x, s[p]).slot[m].k =
                                  IF m = s[p] THEN Freed ELSE x.slot[m].k
<1> DEFINE n == s[p]
           u == Unlinked(x, n)
           r == RemoveAt(s, p)
<1>1. /\ Len(s) \in Nat \ {0} /\ DOMAIN s = 1..Len(s)
      /\ \A i \in 1..Len(s) : s[i] \in Slots(x) /\ s[i] # Null
      /\ \A i, j \in 1..Len(s) : s[i] = s[j] => i = j
  <2>1. s \in Seq(Slots(x)) /\ Len(s) \in Nat /\ DOMAIN s = 1..Len(s)
    BY LenProperties DEF Chain
  <2>2. \A i \in 1..Len(s) : s[i] \in Slots(x)
    BY <2>1, ElementOfSeq
  <2>3. Null \notin Slots(x)
    BY DEF Null, Slots, IsTable, TableTypeOK
  <2>4. p \in 1..Len(s)
    OBVIOUS
  <2>5. \A i, j \in 1..Len(s) : s[i] = s[j] => i = j
    BY <2>1 DEF Chain, Distinct
  <2> HIDE DEF r
  <2> QED BY <2>1, <2>2, <2>3, <2>4, <2>5
<1>0. s \in Seq(Slots(x)) /\ r \in Seq(Slots(x))
  BY RemoveAtProperties DEF Chain
<1>2. /\ Len(r) = Len(s) - 1
      /\ \A i \in 1..Len(r) : r[i] = IF i < p THEN s[i] ELSE s[i + 1]
  BY <1>0, RemoveAtProperties
<1>3. /\ n \in Slots(x)
      /\ x.slot[n].next = IF p = Len(s) THEN Null ELSE s[p + 1]
      /\ x.slot[n].prev = IF p = 1 THEN Null ELSE s[p - 1]
  BY <1>1 DEF Chain
<1>4. /\ u.size = x.size
      /\ u.count = x.count - 1
      /\ u.head = IF x.head = n THEN x.slot[n].next ELSE x.head
      /\ u.tail = IF x.tail = n THEN x.slot[n].prev ELSE x.tail
      /\ u.slot = [m \in Slots(x) |-> IF m = n THEN FreedSlot ELSE Bypassed(x, n, m)]
      /\ IsRecord(u)
  BY <1>3, UnlinkedFields
<1>5. ASSUME NEW m \in Slots(x)
      PROVE  /\ u.slot[m] \in SlotType(x)
             /\ u.slot[m].k = IF m = n THEN Freed ELSE x.slot[m].k
  <2>1. FreedSlot \in SlotType(x) /\ FreedSlot.k = Freed
    BY DEF FreedSlot, SlotType
  <2> QED BY <1>3, <1>4, <2>1, BypassedFields
<1>6. ASSUME NEW j \in 1..Len(s), j # p
      PROVE  /\ u.slot[s[j]].next = IF j = p - 1 THEN x.slot[n].next ELSE x.slot[s[j]].next
             /\ u.slot[s[j]].prev = IF j = p + 1 THEN x.slot[n].prev ELSE x.slot[s[j]].prev
  <2>1. s[j] \in Slots(x) /\ s[j] # n /\ s[j] # Null
    BY <1>1, <1>6
  <2>2. s[j] = x.slot[n].prev <=> j = p - 1
    <3>1. /\ p # 1 => p - 1 \in 1..Len(s)
          /\ p = 1 => j # p - 1
      BY <1>1
    <3> QED BY <1>1, <1>3, <1>6, <2>1, <3>1
  <2>3. s[j] = x.slot[n].next <=> j = p + 1
    <3>1. p # Len(s) => p + 1 \in 1..Len(s)
      <4>1. p \in Nat /\ 1 <= p /\ p <= Len(s) /\ Len(s) \in Nat
        BY <1>1
      <4> QED BY <4>1
    <3>2. p = Len(s) => j # p + 1
      <4>1. j \in Nat /\ j <= Len(s) /\ Len(s) \in Nat
        BY <1>1
      <4> QED BY <4>1
    <3> QED BY <1>1, <1>3, <1>6, <2>1, <3>1, <3>2
  <2>4. u.slot[s[j]] = Bypassed(x, n, s[j])
    BY <1>4, <2>1
  <2> QED BY <1>3, <2>1, <2>2, <2>3, <2>4, BypassedFields
<1>7. x.count = Len(s) /\ x.head = s[1] /\ x.tail = s[Len(s)]
  BY <1>1 DEF Chain
<1> HIDE DEF n, u, r
<1>8. ASSUME NEW i \in 1..Len(r)
      PROVE  /\ u.slot[r[i]].next = IF i = Len(r) THEN Null ELSE r[i + 1]
             /\ u.slot[r[i]].prev = IF i = 1 THEN Null ELSE r[i - 1]
  <2> DEFINE j == IF i < p THEN i ELSE i + 1
  <2>1. /\ i \in Nat /\ p \in Nat /\ j \in Nat /\ Len(s) \in Nat /\ Len(r) = Len(s) - 1
        /\ 1 <= i /\ i <= Len(r) /\ 1 <= p /\ p <= Len(s)
        /\ (i < p /\ j = i) \/ (p <= i /\ j = i + 1)
    BY <1>1, <1>2
  <2>2. j \in 1..Len(s) /\ j # p /\ r[i] = s[j]
    BY <1>1, <1>2
  <2> HIDE DEF j
  <2>3. /\ x.slot[s[j]].next = IF j = Len(s) THEN Null ELSE s[j + 1]
        /\ x.slot[s[j]].prev = IF j = 1 THEN Null ELSE s[j - 1]
    BY <2>2 DEF Chain
  <2>4. /\ u.slot[s[j]].next = IF j = p - 1 THEN x.slot[n].next ELSE x.slot[s[j]].next
        /\ u.slot[s[j]].prev = IF j = p + 1 THEN x.slot[n].prev ELSE x.slot[s[j]].prev
    BY <1>6, <2>2
  <2>5. u.slot[s[j]].next = IF i = Len(r) THEN Null ELSE r[i + 1]
    <3>1. i # Len(r) => r[i + 1] = IF i + 1 < p THEN s[i + 1] ELSE s[i + 2]
      <4>1. i # Len(r) => i + 1 \in 1..Len(r) /\ (i + 1) + 1 = i + 2
        BY <2>1
      <4> QED BY <1>2, <4>1
    <3>2. CASE i < p - 1
      BY <2>1, <2>3, <2>4, <3>1, <3>2
    <3>3. CASE i = p - 1
      <4>1. j = p - 1 /\ i + 2 = p + 1 /\ (i = Len(r) <=> p = Len(s)) /\ ~(i + 1 < p)
        BY <2>1, <3>3
      <4> QED BY <1>3, <2>4, <3>1, <4>1
    <3>4. CASE p <= i
      <4>1. j # p - 1 /\ i + 2 = j + 1 /\ (i = Len(r) <=> j = Len(s)) /\ ~(i + 1 < p)
        BY <2>1, <3>4
      <4> QED BY <2>3, <2>4, <3>1, <4>1
    <3> QED BY <2>1, <3>2, <3>3, <3>4
  <2>6. u.slot[s[j]].prev = IF i = 1 THEN Null ELSE r[i - 1]
    <3>1. i # 1 => r[i - 1] = IF i - 1 < p THEN s[i - 1] ELSE s[i]
      <4>1. i # 1 => i - 1 \in 1..Len(r) /\ (i - 1) + 1 = i
        BY <2>1
      <4> QED BY <1>2, <4>1
    <3>2. CASE i < p
      BY <2>1, <2>3, <2>4, <3>1, <3>2
    <3>3. CASE i = p
      <4>1. j = p + 1 /\ i - 1 = p - 1 /\ i - 1 < p
        BY <2>1, <3>3
      <4> QED BY <1>3, <2>4, <3>1, <3>3, <4>1
    <3>4. CASE p < i
      <4>1. j # p + 1 /\ j # 1 /\ j - 1 = i /\ i # 1 /\ ~(i - 1 < p)
        BY <2>1, <3>4
      <4> QED BY <2>3, <2>4, <3>1, <4>1
    <3> QED BY <2>1, <3>2, <3>3, <3>4
  <2> QED BY <2>2, <2>5, <2>6
<1>9. /\ u.head = IF Len(r) = 0 THEN Null ELSE r[1]
      /\ u.tail = IF Len(r) = 0 THEN Null ELSE r[Len(r)]
  <2>1. p \in Nat /\ 1 <= p /\ p <= Len(s) /\ Len(r) = Len(s) - 1 /\ Len(s) \in Nat
    BY <1>1, <1>2
  <2>2. (s[1] = n <=> p = 1) /\ (s[Len(s)] = n <=> p = Len(s))
    <3>1. 1 \in 1..Len(s) /\ Len(s) \in 1..Len(s)
      BY <2>1
    <3> QED BY <1>1, <3>1 DEF n
  <2>3. Len(r) # 0 => /\ r[1] = IF 1 < p THEN s[1] ELSE s[2]
                      /\ r[Len(r)] = IF Len(r) < p THEN s[Len(s) - 1] ELSE s[Len(s)]
    <3>1. Len(r) # 0 => 1 \in 1..Len(r) /\ Len(r) \in 1..Len(r)
      BY <2>1
    <3>2. 1 + 1 = 2 /\ Len(r) + 1 = Len(s)
      BY <2>1
    <3> QED BY <1>2, <2>1, <3>1, <3>2
  <2>4. u.head = IF Len(r) = 0 THEN Null ELSE r[1]
    <3>1. CASE p = 1
      BY <1>3, <1>4, <1>7, <2>1, <2>2, <2>3, <3>1
    <3>2. CASE p # 1
      BY <1>4, <1>7, <2>1, <2>2, <2>3, <3>2
    <3> QED BY <3>1, <3>2
  <2>5. u.tail = IF Len(r) = 0 THEN Null ELSE r[Len(r)]
    <3>1. CASE p = Len(s)
      BY <1>3, <1>4, <1>7, <2>1, <2>2, <2>3, <3>1
    <3>2. CASE p # Len(s)
      BY <1>4, <1>7, <2>1, <2>2, <2>3, <3>2
    <3> QED BY <3>1, <3>2
  <2> QED BY <2>4, <2>5
<1>10. ASSUME NEW m \in Slots(x)
       PROVE  u.slot[m].k \in Key <=> \E i \in 1..Len(r) : r[i] = m
  <2>1. CASE m = n
    <3>1. u.slot[m].k \notin Key
      BY <1>5, <2>1, LinkHashAssumption
    <3>2. \A i \in 1..Len(r) : r[i] # n
      BY <1>1, <1>2 DEF n
    <3> QED BY <2>1, <3>1, <3>2
  <2>2. CASE m # n
    <3>1. u.slot[m].k \in Key <=> \E j \in 1..Len(s) : s[j] = m
      BY <1>5, <2>2 DEF Chain
    <3>2. ASSUME NEW j \in 1..Len(s), s[j] = m
          PROVE  \E i \in 1..Len(r) : r[i] = m
      <4>1. j # p
        BY <2>2, <3>2 DEF n
      <4>2. CASE j < p
        BY <1>1, <1>2, <3>2, <4>2
      <4>3. CASE j > p
        <5>1. j - 1 \in 1..Len(r) /\ ~(j - 1 < p) /\ (j - 1) + 1 = j
          BY <1>1, <1>2, <4>3
        <5> QED BY <1>2, <3>2, <5>1
      <4> QED BY <1>1, <4>1, <4>2, <4>3
    <3>3. \A i \in 1..Len(r) : \E j \in 1..Len(s) : s[j] = r[i]
      BY <1>1, <1>2
    <3> QED BY <3>1, <3>2, <3>3
  <2> QED BY <2>1, <2>2
<1>11. Slots(u) = Slots(x)
  BY <1>4 DEF Slots
<1>12. Distinct(r)
  <2>1. DOMAIN r = 1..Len(r)
    BY <1>0, LenProperties
  <2>2. ASSUME NEW i \in 1..Len(r), NEW j \in 1..Len(r), r[i] = r[j]
        PROVE  i = j
    <3> DEFINE a == IF i < p THEN i ELSE i + 1
               b == IF j < p THEN j ELSE j + 1
    <3>1. a \in 1..Len(s) /\ b \in 1..Len(s) /\ r[i] = s[a] /\ r[j] = s[b]
      BY <1>1, <1>2
    <3>2. a = b
      <4> HIDE DEF a, b
      <4> QED BY <1>1, <2>2, <3>1
    <3> QED BY <1>1, <1>2, <3>2
  <2> QED BY <2>1, <2>2 DEF Distinct
<1>13. IsTable(u)
  <2>1. u.head \in Slots(x) \cup {Null} /\ u.tail \in Slots(x) \cup {Null}
    
    <3>1. Len(r) # 0 => r[1] \in Slots(x) /\ r[Len(r)] \in Slots(x)
      BY <1>0, <1>2, <1>1, ElementOfSeq
    <3> QED BY <1>9, <3>1
  <2>2. u.slot \in [Slots(x) -> SlotType(x)]
    BY <1>4, <1>5
  <2>3. u.count \in Nat /\ u.size \in Nat \ {0}
    BY <1>1, <1>4, <1>7 DEF IsTable, TableTypeOK
  <2> QED BY <1>4, <2>1, <2>2, <2>3 DEF IsTable, TableTypeOK, SlotType, Slots
<1>14. Chain(u, r)
  BY <1>0, <1>1, <1>2, <1>4, <1>7, <1>8, <1>9, <1>10, <1>11, <1>12 DEF Chain
<1> QED BY <1>4, <1>5, <1>13, <1>14 DEF u, r, n

\* A deletion leaves every other key where a lookup finds it.
LEMMA UnlinkedSound ==
  ASSUME HashOK, NEW x, Sound(x), NEW s, Chain(x, s), NEW p \in 1..Len(s)
  PROVE  Sound(Unlinked(x, s[p]))
<1> DEFINE u == Unlinked(x, s[p])
<1>1. /\ IsTable(u) /\ u.size = x.size /\ Slots(u) = Slots(x)
      /\ \A m \in Slots(x) : u.slot[m].k = IF m = s[p] THEN Freed ELSE x.slot[m].k
  BY UnlinkedChain DEF Sound, Slots
<1>2. Freed # Empty /\ Freed \notin Key
  BY LinkHashAssumption DEF Freed, Empty
<1>3. \A k, i : Probe(u, k, i) = Probe(x, k, i)
  BY <1>1 DEF Probe
<1> HIDE DEF u
<1>4. KeysApart(u)
  BY <1>1, <1>2 DEF Sound, KeysApart
<1>5. ASSUME NEW n \in Slots(x), u.slot[n].k \in Key
      PROVE  \E i \in Slots(x) :
               /\ Probe(u, u.slot[n].k, i) = n
               /\ \A j \in 0..i - 1 : u.slot[Probe(u, u.slot[n].k, j)].k # Empty
  <2>1. u.slot[n].k = x.slot[n].k
    BY <1>1, <1>2, <1>5
  <2>2. PICK i \in Slots(x) :
          /\ Probe(x, x.slot[n].k, i) = n
          /\ \A j \in 0..i - 1 : x.slot[Probe(x, x.slot[n].k, j)].k # Empty
    BY <1>5, <2>1 DEF Sound, Reachable
  <2>3. ASSUME NEW j \in 0..i - 1
        PROVE  u.slot[Probe(x, x.slot[n].k, j)].k # Empty
    <3>1. Probe(x, x.slot[n].k, j) \in Slots(x)
      BY <1>5, <2>1, <2>2, ProbeTyping DEF Sound, Slots
    <3> QED BY <1>1, <1>2, <2>2, <3>1
  <2> QED BY <1>3, <2>1, <2>2, <2>3
<1> QED BY <1>1, <1>4, <1>5 DEF Sound, Reachable, u

\* A lookup finds a key exactly when it is in the list.
LEMMA FoundIfListed ==
  ASSUME HashOK, NEW x, Sound(x), NEW s, Chain(x, s), NEW k \in Key
  PROVE  /\ Distinct(ListKeys(x))
         /\ Find(x, k) # Null <=> Present(ListKeys(x), k)
         /\ Find(x, k) = Null => \A n \in Slots(x) : x.slot[n].k # k
         /\ Find(x, k) # Null =>
              \E p \in 1..Len(s) : Find(x, k) = s[p] /\ ListKeys(x)[p] = k
<1>1. /\ ListKeys(x) = [i \in 1..Len(s) |-> x.slot[s[i]].k]
      /\ DOMAIN ListKeys(x) = 1..Len(s)
  BY KeysOfChain DEF Sound
<1>2. \A i \in 1..Len(s) : s[i] \in Slots(x) /\ x.slot[s[i]].k \in Key
  BY ElementOfSeq DEF Chain
<1>3. \A i, j \in 1..Len(s) : s[i] = s[j] => i = j
  BY LenProperties DEF Chain, Distinct
<1>4. Distinct(ListKeys(x))
  BY <1>1, <1>2, <1>3 DEF Sound, KeysApart, Distinct
<1>5. /\ \A n \in Slots(x) : x.slot[n].k = k => Find(x, k) = n
      /\ (\A n \in Slots(x) : x.slot[n].k # k) => Find(x, k) = Null
  BY FindProperties
<1>6. \A n \in Slots(x) : n # Null
  BY DEF Slots, Null, Sound, IsTable, TableTypeOK
<1>7. ASSUME NEW n \in Slots(x), x.slot[n].k = k
      PROVE  \E p \in 1..Len(s) : Find(x, k) = s[p] /\ ListKeys(x)[p] = k
  <2>1. PICK p \in 1..Len(s) : s[p] = n
    BY <1>7 DEF Chain
  <2> QED BY <1>1, <1>5, <1>7, <2>1
<1>8. Present(ListKeys(x), k) => \E n \in Slots(x) : x.slot[n].k = k
  BY <1>1, <1>2 DEF Present
<1> QED BY <1>1, <1>4, <1>5, <1>6, <1>7, <1>8 DEF Present

\* lh_table_delete implements the deletion from a sequence.
LEMMA DeletionDeletes ==
  ASSUME HashOK, NEW x, Sound(x), NEW s, Chain(x, s), NEW k \in Key,
         Find(x, k) # Null
  PROVE  /\ Sound(Unlinked(x, Find(x, k)))
         /\ \E r : Chain(Unlinked(x, Find(x, k)), r)
         /\ ListKeys(Unlinked(x, Find(x, k))) = Delete(ListKeys(x), k)
<1>1. PICK p \in 1..Len(s) : Find(x, k) = s[p] /\ ListKeys(x)[p] = k
  BY FoundIfListed
<1> DEFINE u == Unlinked(x, s[p])
           r == RemoveAt(s, p)
           l == ListKeys(x)
<1>2. /\ Sound(u) /\ Chain(u, r) /\ u.size = x.size
      /\ \A m \in Slots(x) : u.slot[m].k = IF m = s[p] THEN Freed ELSE x.slot[m].k
  BY UnlinkedSound, UnlinkedChain DEF Sound
<1>3. /\ l = [i \in 1..Len(s) |-> x.slot[s[i]].k]
      /\ l \in Seq(Key) /\ Len(l) = Len(s) /\ Distinct(l)
  BY KeysOfChain, FoundIfListed DEF Sound
<1>4. /\ ListKeys(u) = [i \in 1..Len(r) |-> u.slot[r[i]].k]
      /\ ListKeys(u) \in Seq(Key)
  BY <1>2, KeysOfChain DEF Sound
<1>5. Delete(l, k) = RemoveAt(l, p)
  <2>1. DOMAIN l = 1..Len(s) /\ l[p] = k
    BY <1>1, <1>3
  <2> HIDE DEF l
  <2>2. Present(l, k)
    BY <2>1 DEF Present
  <2>3. Position(l, k) = p
    BY <1>3, <2>1 DEF Position, Distinct
  <2> QED BY <2>2, <2>3 DEF Delete
<1>6. /\ RemoveAt(l, p) \in Seq(Key) /\ Len(RemoveAt(l, p)) = Len(s) - 1
      /\ \A i \in 1..(Len(s) - 1) :
           RemoveAt(l, p)[i] = IF i < p THEN l[i] ELSE l[i + 1]
  <2>1. l \in Seq(Key) /\ Len(l) = Len(s) /\ p \in 1..Len(l)
    BY <1>3
  <2> HIDE DEF l
  <2>2. /\ RemoveAt(l, p) \in Seq(Key) /\ Len(RemoveAt(l, p)) = Len(l) - 1
        /\ \A i \in 1..(Len(l) - 1) :
             RemoveAt(l, p)[i] = IF i < p THEN l[i] ELSE l[i + 1]
    BY <2>1, RemoveAtProperties
  <2> QED BY <2>1, <2>2
<1>7. /\ Len(r) = Len(s) - 1 /\ Len(s) \in Nat
      /\ \A i \in 1..(Len(s) - 1) : r[i] = IF i < p THEN s[i] ELSE s[i + 1]
  BY RemoveAtProperties, LenProperties DEF Chain
<1>8. \A i \in 1..Len(s) : s[i] \in Slots(x) /\ (s[i] = s[p] => i = p)
  BY ElementOfSeq, LenProperties DEF Chain, Distinct
<1>9. ASSUME NEW i \in 1..(Len(s) - 1)
      PROVE  ListKeys(u)[i] = RemoveAt(l, p)[i]
  <2> DEFINE j == IF i < p THEN i ELSE i + 1
  <2>1. j \in 1..Len(s) /\ j # p /\ r[i] = s[j] /\ RemoveAt(l, p)[i] = l[j]
    BY <1>6, <1>7
  <2> HIDE DEF j, l, u, r
  <2>2. ListKeys(u)[i] = u.slot[s[j]].k
    BY <1>4, <1>7, <2>1
  <2>3. u.slot[s[j]].k = x.slot[s[j]].k
    BY <1>2, <1>8, <2>1
  <2>4. l[j] = x.slot[s[j]].k
    BY <1>3, <2>1
  <2> QED BY <2>1, <2>2, <2>3, <2>4
<1>10. ListKeys(u) = RemoveAt(l, p)
  <2>1. Len(ListKeys(u)) = Len(s) - 1
    BY <1>2, <1>7, KeysOfChain DEF Sound
  <2> HIDE DEF u, l
  <2> QED BY <1>4, <1>6, <1>9, <2>1, SeqEqual
<1> QED BY <1>1, <1>2, <1>5, <1>10

-----------------------------------------------------------------------------
(* Inserting an entry.                                                     *)

NewSlot(x, k) == [k |-> k, next |-> Null,
                  prev |-> IF x.head = Null THEN Null ELSE x.tail]

LEMMA LinkedFields ==
  ASSUME NEW x, IsTable(x), NEW n \in Slots(x), NEW k \in Key
  PROVE  /\ Linked(x, n, k).size = x.size
         /\ Linked(x, n, k).count = x.count + 1
         /\ Linked(x, n, k).head = IF x.head = Null THEN n ELSE x.head
         /\ Linked(x, n, k).tail = n
         /\ Linked(x, n, k).slot =
              [m \in Slots(x) |-> IF m = n THEN NewSlot(x, k)
                                  ELSE IF m = x.tail
                                       THEN [x.slot[m] EXCEPT !.next = n]
                                       ELSE x.slot[m]]
         /\ IsRecord(Linked(x, n, k))
<1>1. DOMAIN x.slot = Slots(x) /\ IsRecord(x)
  BY DEF IsTable, TableTypeOK, Slots
<1>2. Linked(x, n, k).size = x.size
  BY <1>1 DEF Linked, IsRecord
<1>3. Linked(x, n, k).count = x.count + 1
  BY <1>1 DEF Linked, IsRecord
<1>4. Linked(x, n, k).head = IF x.head = Null THEN n ELSE x.head
  BY <1>1 DEF Linked, IsRecord
<1>5. Linked(x, n, k).tail = n
  BY <1>1 DEF Linked, IsRecord
<1>6. Linked(x, n, k).slot =
        [m \in DOMAIN x.slot |-> IF m = n THEN NewSlot(x, k)
                                 ELSE IF m = x.tail
                                      THEN [x.slot[m] EXCEPT !.next = n]
                                      ELSE x.slot[m]]
  BY <1>1 DEF Linked, IsRecord, NewSlot
<1>7. IsRecord(Linked(x, n, k))
  <2> DEFINE a == x.count + 1
             b == IF x.head = Null THEN n ELSE x.head
             d == [m \in DOMAIN x.slot |->
                     IF m = n THEN [k |-> k, next |-> Null,
                                    prev |-> IF x.head = Null THEN Null ELSE x.tail]
                     ELSE IF m = x.tail THEN [x.slot[m] EXCEPT !.next = n]
                     ELSE x.slot[m]]
  <2>1. IsRecord([x EXCEPT !.count = a, !.head = b, !.tail = n, !.slot = d])
    <3> HIDE DEF a, b, d
    <3> QED BY <1>1, ChangedRecord
  <2> QED BY <2>1, Zenon DEF Linked
<1> QED BY <1>1, <1>2, <1>3, <1>4, <1>5, <1>6, <1>7

\* An insertion into a free slot puts it at the end of the list.
LEMMA LinkedChain ==
  ASSUME NEW x, IsTable(x), NEW s, Chain(x, s), NEW n \in Slots(x),
         x.slot[n].k \notin Key, NEW k \in Key
  PROVE  /\ IsTable(Linked(x, n, k))
         /\ Chain(Linked(x, n, k), Append(s, n))
         /\ Linked(x, n, k).size = x.size
         /\ \A m \in Slots(x) : Linked(x, n, k).slot[m].k =
                                  IF m = n THEN k ELSE x.slot[m].k
<1> DEFINE u == Linked(x, n, k)
           r == Append(s, n)
<1>1. /\ Len(s) \in Nat /\ s \in Seq(Slots(x))
      /\ r \in Seq(Slots(x)) /\ Len(r) = Len(s) + 1
      /\ \A i \in 1..Len(r) : r[i] = IF i <= Len(s) THEN s[i] ELSE n
  BY AppendProperties, LenProperties DEF Chain
<1>2. \A i \in 1..Len(s) : s[i] \in Slots(x) /\ s[i] # n
  BY <1>1, ElementOfSeq DEF Chain
<1>3. /\ u.size = x.size
      /\ u.count = x.count + 1
      /\ u.head = IF x.head = Null THEN n ELSE x.head
      /\ u.tail = n
      /\ u.slot = [m \in Slots(x) |-> IF m = n THEN NewSlot(x, k)
                                      ELSE IF m = x.tail
                                           THEN [x.slot[m] EXCEPT !.next = n]
                                           ELSE x.slot[m]]
      /\ IsRecord(u)
  BY LinkedFields
<1>4. /\ x.count = Len(s)
      /\ x.head = IF Len(s) = 0 THEN Null ELSE s[1]
      /\ x.tail = IF Len(s) = 0 THEN Null ELSE s[Len(s)]
      /\ \A i, j \in 1..Len(s) : s[i] = s[j] => i = j
      /\ x.head \in Slots(x) \cup {Null} /\ x.tail \in Slots(x) \cup {Null}
      /\ x.size \in Nat \ {0}
  BY <1>1, LenProperties DEF Chain, Distinct, IsTable, TableTypeOK, Slots
<1>5. \A m \in Slots(x) : x.slot[m] \in SlotType(x)
  BY DEF IsTable, TableTypeOK, SlotType, Slots
<1>6. Null \notin Slots(x)
  BY DEF Null, Slots
<1>7. ASSUME NEW m \in Slots(x), m # n
      PROVE  /\ u.slot[m] \in SlotType(x)
             /\ u.slot[m].k = x.slot[m].k
             /\ u.slot[m].next = IF m = x.tail THEN n ELSE x.slot[m].next
             /\ u.slot[m].prev = x.slot[m].prev
  <2>1. u.slot[m] = IF m = x.tail THEN [x.slot[m] EXCEPT !.next = n] ELSE x.slot[m]
    BY <1>3, <1>7
  <2>2. x.slot[m] \in SlotType(x)
    BY <1>5
  <2> HIDE DEF u
  <2> QED BY <2>1, <2>2 DEF SlotType
<1>8. /\ u.slot[n] \in SlotType(x)
      /\ u.slot[n].k = k
      /\ u.slot[n].next = Null
      /\ u.slot[n].prev = IF Len(s) = 0 THEN Null ELSE s[Len(s)]
  <2>1. u.slot[n] = NewSlot(x, k)
    BY <1>3
  <2>2. x.head = Null <=> Len(s) = 0
    BY <1>1, <1>2, <1>4, <1>6
  <2> HIDE DEF u
  <2> QED BY <1>4, <2>1, <2>2 DEF NewSlot, SlotType
<1> HIDE DEF u, r
<1>9. IsTable(u)
  <2>1. u.slot \in [Slots(x) -> SlotType(x)]
    <3>1. \A m \in Slots(x) : u.slot[m] \in SlotType(x)
      BY <1>7, <1>8
    <3> QED BY <1>3, <3>1
  <2>2. /\ u.count \in Nat /\ u.head \in Slots(x) \cup {Null}
        /\ u.tail \in Slots(x) \cup {Null}
    BY <1>1, <1>3, <1>4
  <2> QED BY <1>3, <1>4, <2>1, <2>2 DEF IsTable, TableTypeOK, SlotType, Slots
<1>10. ASSUME NEW i \in 1..Len(r)
       PROVE  /\ u.slot[r[i]].next = IF i = Len(r) THEN Null ELSE r[i + 1]
              /\ u.slot[r[i]].prev = IF i = 1 THEN Null ELSE r[i - 1]
  <2>1. CASE i = Len(r)
    <3>1. r[i] = n /\ (i = 1 <=> Len(s) = 0)
      BY <1>1, <2>1
    <3>2. i # 1 => r[i - 1] = s[Len(s)]
      <4>1. i # 1 => i - 1 \in 1..Len(r) /\ i - 1 = Len(s)
        BY <1>1, <2>1
      <4> QED BY <1>1, <4>1
    <3> QED BY <1>8, <2>1, <3>1, <3>2
  <2>2. CASE i # Len(r)
    <3>1. i \in 1..Len(s) /\ r[i] = s[i] /\ s[i] \in Slots(x) /\ s[i] # n
      BY <1>1, <1>2, <2>2
    <3>2. /\ x.slot[s[i]].next = IF i = Len(s) THEN Null ELSE s[i + 1]
          /\ x.slot[s[i]].prev = IF i = 1 THEN Null ELSE s[i - 1]
      BY <3>1 DEF Chain
    <3>3. s[i] = x.tail <=> i = Len(s)
      <4>1. Len(s) \in 1..Len(s) /\ Len(s) # 0
        BY <1>1, <3>1
      <4> QED BY <1>4, <3>1, <4>1
    <3>4. r[i + 1] = IF i = Len(s) THEN n ELSE s[i + 1]
      <4>1. i + 1 \in 1..Len(r) /\ (i + 1 <= Len(s) <=> i # Len(s))
        BY <1>1, <3>1
      <4> QED BY <1>1, <4>1
    <3>5. i # 1 => r[i - 1] = s[i - 1]
      <4>1. i # 1 => i - 1 \in 1..Len(r) /\ i - 1 <= Len(s)
        BY <1>1, <3>1
      <4> QED BY <1>1, <4>1
    <3>6. /\ u.slot[s[i]].next = IF s[i] = x.tail THEN n ELSE x.slot[s[i]].next
          /\ u.slot[s[i]].prev = x.slot[s[i]].prev
      BY <1>7, <3>1
    <3> QED BY <2>2, <3>1, <3>2, <3>3, <3>4, <3>5, <3>6
  <2> QED BY <2>1, <2>2
<1>11. /\ u.head = IF Len(r) = 0 THEN Null ELSE r[1]
       /\ u.tail = IF Len(r) = 0 THEN Null ELSE r[Len(r)]
  <2>1. /\ 1 \in 1..Len(r) /\ Len(r) \in 1..Len(r) /\ Len(r) # 0
        /\ (1 <= Len(s) <=> Len(s) # 0) /\ ~(Len(r) <= Len(s))
    BY <1>1
  <2>2. r[1] = (IF Len(s) = 0 THEN n ELSE s[1]) /\ r[Len(r)] = n
    BY <1>1, <2>1
  <2>3. x.head = Null <=> Len(s) = 0
    BY <1>1, <1>2, <1>4, <1>6
  <2> QED BY <1>3, <1>4, <2>1, <2>2, <2>3
<1>12. ASSUME NEW m \in Slots(x)
       PROVE  u.slot[m].k \in Key <=> \E i \in 1..Len(r) : r[i] = m
  <2>1. CASE m = n
    <3>1. Len(r) \in 1..Len(r) /\ r[Len(r)] = n
      BY <1>1
    <3> QED BY <1>8, <2>1, <3>1
  <2>2. CASE m # n
    <3>1. u.slot[m].k \in Key <=> \E i \in 1..Len(s) : s[i] = m
      BY <1>7, <2>2 DEF Chain
    <3>2. \A i \in 1..Len(s) : i \in 1..Len(r) /\ r[i] = s[i]
      BY <1>1
    <3>3. \A i \in 1..Len(r) : r[i] = m => i \in 1..Len(s) /\ s[i] = m
      BY <1>1, <2>2
    <3> QED BY <3>1, <3>2, <3>3
  <2> QED BY <2>1, <2>2
<1>13. Distinct(r)
  <2>1. DOMAIN r = 1..Len(r)
    BY <1>1, LenProperties
  <2>2. \A i, j \in 1..Len(r) : r[i] = r[j] => i = j
    <3>1. \A i \in 1..Len(r) : i \in 1..Len(s) \/ i = Len(s) + 1
      BY <1>1
    <3>2. /\ \A i \in 1..Len(s) : r[i] = s[i]
          /\ r[Len(s) + 1] = n
      BY <1>1
    <3> QED BY <1>2, <1>4, <3>1, <3>2
  <2> QED BY <2>1, <2>2 DEF Distinct
<1>14. Chain(u, r)
  <2>1. Slots(u) = Slots(x)
    BY <1>3 DEF Slots
  <2> QED BY <1>1, <1>3, <1>4, <1>10, <1>11, <1>12, <1>13, <2>1 DEF Chain
<1> QED BY <1>3, <1>7, <1>8, <1>9, <1>14 DEF u, r

\* lh_table_insert of an absent key, with room in the table: the probe finds a
\* free slot, the key becomes the tail, and every key stays where a lookup
\* finds it.
LEMMA PutAppends ==
  ASSUME HashOK, NEW x, Sound(x), NEW s, Chain(x, s), Len(s) < x.size,
         NEW k \in Key, \A n \in Slots(x) : x.slot[n].k # k
  PROVE  /\ Sound(Put(x, k))
         /\ Put(x, k).size = x.size
         /\ Put(x, k).count = x.count + 1
         /\ \E r : Chain(Put(x, k), r) /\ Len(r) = Len(s) + 1
         /\ ListKeys(Put(x, k)) = Append(ListKeys(x), k)
<1>1. /\ IsTable(x) /\ x.size \in Nat \ {0}
      /\ Empty # Freed /\ Empty \notin Key /\ Freed \notin Key
      /\ Empty # k /\ Freed # k
  BY LinkHashAssumption DEF Sound, IsTable, TableTypeOK, Empty, Freed
<1>2. PICK i \in Slots(x) :
        /\ FirstProbe(x, k, {Empty, Freed, k}) = Probe(x, k, i)
        /\ x.slot[Probe(x, k, i)].k \in {Empty, Freed, k}
        /\ \A j \in 0..i - 1 : x.slot[Probe(x, k, j)].k \notin {Empty, Freed, k}
  <2>1. PICK n \in Slots(x) : x.slot[n].k \notin Key
    BY <1>1, ChainFits
  <2>2. x.slot[n].k \in {Empty, Freed, k}
    BY <1>1, <2>1 DEF IsTable, TableTypeOK, Slots
  <2> QED BY <1>1, <2>2, FirstProbeFinds
<1> DEFINE n == Probe(x, k, i)
           u == Linked(x, n, k)
           r == Append(s, n)
<1>3. n \in Slots(x)
  BY <1>1, <1>2, ProbeTyping DEF Slots
<1>4. x.slot[n].k \in {Empty, Freed} /\ x.slot[n].k \notin Key
  BY <1>1, <1>2, <1>3
<1>5. Put(x, k) = u
  <2>1. x.slot[n].k # k
    BY <1>3
  <2> HIDE DEF n
  <2>2. Put(x, k) = Linked(IF x.slot[n].k = k THEN Unlinked(x, n) ELSE x, n, k)
    BY <1>2, Zenon DEF Put, n
  <2> QED BY <2>1, <2>2
<1>6. /\ IsTable(u) /\ Chain(u, r) /\ u.size = x.size /\ u.count = x.count + 1
      /\ \A m \in Slots(x) : u.slot[m].k = IF m = n THEN k ELSE x.slot[m].k
  <2> HIDE DEF n
  <2>1. u.count = x.count + 1
    BY <1>1, <1>3, LinkedFields
  <2> QED BY <1>1, <1>3, <1>4, <2>1, LinkedChain
<1>7. Slots(u) = Slots(x) /\ \A l, j : Probe(u, l, j) = Probe(x, l, j)
  BY <1>6 DEF Slots, Probe
<1>8. KeysApart(u)
  <2> HIDE DEF n, u
  <2> QED BY <1>6, <1>7 DEF Sound, KeysApart
<1>9. Reachable(u)
  <2>0. SUFFICES ASSUME NEW m \in Slots(x), u.slot[m].k \in Key
               PROVE  \E q \in Slots(x) :
                        /\ Probe(x, u.slot[m].k, q) = m
                        /\ \A j \in 0..q - 1 :
                             u.slot[Probe(x, u.slot[m].k, j)].k # Empty
    <3> HIDE DEF u
    <3> QED BY <1>7 DEF Reachable
  <2>1. CASE m = n
    <3>1. u.slot[m].k = k
      BY <1>6, <2>1
    <3>2. ASSUME NEW j \in 0..i - 1 PROVE u.slot[Probe(x, k, j)].k # Empty
      <4>1. x.slot[Probe(x, k, j)].k # Empty
        BY <1>2
      <4>2. Probe(x, k, j) \in Slots(x)
        <5>1. j \in Nat
          BY <1>2, <1>1 DEF Slots
        <5> HIDE DEF n, u
        <5> QED BY <1>1, <5>1, ProbeTyping
      <4> HIDE DEF n, u
      <4> QED BY <1>1, <1>6, <4>1, <4>2
    <3> QED BY <1>2, <2>1, <3>1, <3>2
  <2>2. CASE m # n
    <3>1. u.slot[m].k = x.slot[m].k
      BY <1>6, <2>2
    <3>2. PICK q \in Slots(x) :
            /\ Probe(x, x.slot[m].k, q) = m
            /\ \A j \in 0..q - 1 : x.slot[Probe(x, x.slot[m].k, j)].k # Empty
      BY <2>0, <3>1 DEF Sound, Reachable
    <3>3. ASSUME NEW j \in 0..q - 1
          PROVE  u.slot[Probe(x, x.slot[m].k, j)].k # Empty
      <4>1. x.slot[Probe(x, x.slot[m].k, j)].k # Empty
        BY <3>2
      <4>2. Probe(x, x.slot[m].k, j) \in Slots(x)
        <5>1. j \in Nat /\ x.slot[m].k \in Key
          BY <1>1, <3>1, <3>2, <2>0 DEF Slots
        <5> HIDE DEF n, u
        <5> QED BY <1>1, <5>1, ProbeTyping
      <4> HIDE DEF n, u
      <4> QED BY <1>1, <1>6, <4>1, <4>2
    <3> QED BY <3>1, <3>2, <3>3
  <2> QED BY <2>1, <2>2
<1>10. /\ Len(s) \in Nat /\ s \in Seq(Slots(x))
       /\ r \in Seq(Slots(x)) /\ Len(r) = Len(s) + 1
       /\ \A j \in 1..Len(r) : r[j] = IF j <= Len(s) THEN s[j] ELSE n
  <2> HIDE DEF n
  <2> QED BY <1>3, AppendProperties, LenProperties DEF Chain
<1>11. ListKeys(u) = Append(ListKeys(x), k)
  <2>1. /\ ListKeys(u) = [j \in 1..Len(r) |-> u.slot[r[j]].k]
        /\ ListKeys(u) \in Seq(Key) /\ Len(ListKeys(u)) = Len(r)
        /\ ListKeys(x) = [j \in 1..Len(s) |-> x.slot[s[j]].k]
        /\ ListKeys(x) \in Seq(Key) /\ Len(ListKeys(x)) = Len(s)
    <3> HIDE DEF n, u, r
    <3> QED BY <1>1, <1>6, KeysOfChain
  <2> HIDE DEF n, u, r
  <2>2. /\ Append(ListKeys(x), k) \in Seq(Key)
        /\ Len(Append(ListKeys(x), k)) = Len(r)
        /\ \A j \in 1..Len(r) : Append(ListKeys(x), k)[j] =
                                  IF j <= Len(s) THEN ListKeys(x)[j] ELSE k
    BY <1>10, <2>1, AppendProperties
  <2>3. ASSUME NEW j \in 1..Len(r) PROVE ListKeys(u)[j] = Append(ListKeys(x), k)[j]
    <3>1. ListKeys(u)[j] = u.slot[r[j]].k
      BY <2>1
    <3>2. CASE j <= Len(s)
      <4>1. j \in 1..Len(s) /\ r[j] = s[j] /\ ListKeys(x)[j] = x.slot[s[j]].k
        BY <1>10, <2>1, <3>2
      <4>2. s[j] \in Slots(x)
        BY <1>10, <4>1, ElementOfSeq
      <4>3. x.slot[s[j]].k \in Key
        BY <4>1, <4>2 DEF Chain
      <4>4. u.slot[s[j]].k = x.slot[s[j]].k
        BY <1>4, <1>6, <4>2, <4>3
      <4> QED BY <2>2, <3>1, <3>2, <4>1, <4>4
    <3>3. CASE ~(j <= Len(s))
      BY <1>3, <1>6, <1>10, <2>2, <3>1, <3>3
    <3> QED BY <3>2, <3>3
  <2> QED BY <2>1, <2>2, <2>3, SeqEqual
<1>12. Put(x, k).size = x.size /\ Put(x, k).count = x.count + 1
  BY <1>5, <1>6
<1>13. Sound(Put(x, k))
  BY <1>5, <1>6, <1>8, <1>9 DEF Sound
<1>14. \E q : Chain(Put(x, k), q) /\ Len(q) = Len(s) + 1
  BY <1>5, <1>6, <1>10
<1> QED BY <1>5, <1>11, <1>12, <1>13, <1>14

-----------------------------------------------------------------------------
(* Growth.                                                                 *)

LEMMA NewTableSound ==
  ASSUME NEW size \in Nat \ {0}
  PROVE  /\ Sound(NewTable(size))
         /\ NewTable(size).size = size
         /\ Chain(NewTable(size), <<>>)
<1> DEFINE x == NewTable(size)
<1>1. /\ x.size = size /\ x.count = 0 /\ x.head = Null /\ x.tail = Null
      /\ x.slot = [n \in 0..size - 1 |-> [k |-> Empty, next |-> Null, prev |-> Null]]
      /\ IsRecord(x)
  BY DEF NewTable, IsRecord
<1>2. Slots(x) = 0..size - 1
  BY <1>1 DEF Slots
<1>3. Empty \notin Key
  BY LinkHashAssumption
<1> HIDE DEF x
<1>4. \A n \in Slots(x) : x.slot[n].k = Empty
  BY <1>1, <1>2
<1>5. IsTable(x)
  <2>1. x.slot \in [0..size - 1 -> [k : Key \cup {Empty, Freed},
                                    next : 0..size - 1 \cup {Null},
                                    prev : 0..size - 1 \cup {Null}]]
    BY <1>1
  <2> QED BY <1>1, <2>1 DEF IsTable, TableTypeOK
<1>6. KeysApart(x) /\ Reachable(x)
  BY <1>3, <1>4 DEF KeysApart, Reachable
<1>7. Chain(x, <<>>)
  <2>1. /\ <<>> \in Seq(Slots(x)) /\ Len(<<>>) = 0
        /\ Distinct(<<>>)
    BY DEF Distinct
  <2>2. \A i \in 1..0 : FALSE
    OBVIOUS
  <2> QED BY <1>1, <1>3, <1>4, <2>1, <2>2 DEF Chain
<1> QED BY <1>1, <1>5, <1>6, <1>7 DEF Sound, x

\* The recursive function of Filled exists, so it satisfies its equation.
LEMMA FilledStep ==
  ASSUME NEW keys, Len(keys) \in Nat, NEW size
  PROVE  /\ Filled(keys, size)[0] = NewTable(size)
         /\ \A i \in 1..Len(keys) :
              Filled(keys, size)[i] = Put(Filled(keys, size)[i - 1], keys[i])
<1> DEFINE L == Len(keys)
           Fill(g, m) == [i \in 0..m |-> IF i = 0 THEN NewTable(size)
                                         ELSE Put(g[i - 1], keys[i])]
           bad == {m \in 0..L : ~ \E g : g = Fill(g, m)}
           at == CHOOSE g : g = Fill(g, L)
<1>1. bad = {}
  <2> SUFFICES ASSUME bad # {} PROVE FALSE
    OBVIOUS
  <2>1. PICK m \in bad : \A j \in bad : m <= j
    <3>1. bad \in SUBSET Nat
      OBVIOUS
    <3> HIDE DEF bad
    <3> QED BY <3>1, LeastNumber
  <2>2. m \in 0..L /\ ~ \E g : g = Fill(g, m)
    BY <2>1
  <2>3. m # 0
    <3>1. ASSUME m = 0 PROVE FALSE
      <4> DEFINE h == [i \in 0..0 |-> NewTable(size)]
      <4>1. h = Fill(h, 0)
        OBVIOUS
      <4> QED BY <2>2, <3>1, <4>1
    <3> QED BY <3>1
  <2>4. m - 1 \in 0..L /\ ~(m <= m - 1)
    BY <2>2, <2>3
  <2>5. PICK g : g = Fill(g, m - 1)
    BY <2>1, <2>4
  <2> DEFINE h == [i \in 0..m |-> IF i < m THEN g[i] ELSE Put(g[m - 1], keys[m])]
  <2>6. \A i \in 0..m : h[i] = IF i = 0 THEN NewTable(size) ELSE Put(h[i - 1], keys[i])
    <3> TAKE i \in 0..m
    <3>1. CASE i = m
      <4>1. h[i] = Put(g[m - 1], keys[m]) /\ h[i - 1] = g[m - 1]
        BY <2>2, <2>3, <3>1
      <4> HIDE DEF h
      <4> QED BY <2>3, <3>1, <4>1
    <3>2. CASE i < m
      <4>1. /\ h[i] = g[i] /\ i \in 0..m - 1
            /\ i # 0 => h[i - 1] = g[i - 1]
        BY <2>2, <3>2
      <4>2. g[i] = IF i = 0 THEN NewTable(size) ELSE Put(g[i - 1], keys[i])
        BY <2>5, <4>1
      <4> HIDE DEF h
      <4> QED BY <4>1, <4>2
    <3> QED BY <2>2, <3>1, <3>2
  <2>7. h = Fill(h, m)
    BY <2>6
  <2> QED BY <2>2, <2>7
<1>2. \E g : g = Fill(g, L)
  BY <1>1
<1>3. at = Fill(at, L)
  <2> HIDE DEF L, Fill
  <2> QED BY <1>2
<1>4. Filled(keys, size) = at
  BY DEF Filled
<1> HIDE DEF at
<1> QED BY <1>3, <1>4

\* What lh_table_resize has done after i insertions.
FilledOK(x, keys, size, i) ==
  /\ Sound(x) /\ x.size = size /\ x.count = i
  /\ \E s : Chain(x, s) /\ Len(s) = i
  /\ \A j \in 1..i : ListKeys(x)[j] = keys[j]

LEMMA FilledInOrder ==
  ASSUME HashOK, NEW keys \in Seq(Key), Distinct(keys), NEW size \in Nat \ {0},
         Len(keys) <= size
  PROVE  \A i \in 0..Len(keys) : FilledOK(Filled(keys, size)[i], keys, size, i)
<1> DEFINE f == Filled(keys, size)
           bad == {i \in 0..Len(keys) : ~FilledOK(f[i], keys, size, i)}
<1>1. /\ Len(keys) \in Nat
      /\ \A i \in 1..Len(keys) : keys[i] \in Key
      /\ \A i, j \in 1..Len(keys) : keys[i] = keys[j] => i = j
  BY ElementOfSeq, LenProperties DEF Distinct
<1>2. /\ f[0] = NewTable(size)
      /\ \A i \in 1..Len(keys) : f[i] = Put(f[i - 1], keys[i])
  BY <1>1, FilledStep
<1> HIDE DEF f
<1>3. bad = {}
  <2> SUFFICES ASSUME bad # {} PROVE FALSE
    OBVIOUS
  <2>1. PICK i \in bad : \A j \in bad : i <= j
    <3>1. bad \in SUBSET Nat
      BY <1>1
    <3> HIDE DEF bad
    <3> QED BY <3>1, LeastNumber
  <2>2. i \in 0..Len(keys) /\ ~FilledOK(f[i], keys, size, i)
    BY <2>1
  <2>3. i # 0
    <3>1. FilledOK(f[0], keys, size, 0)
      <4>1. Sound(f[0]) /\ Chain(f[0], <<>>) /\ f[0].size = size
        BY <1>2, NewTableSound
      <4>2. f[0].count = 0 /\ Len(<<>>) = 0
        BY <4>1 DEF Chain
      <4>3. \A j \in 1..0 : FALSE
        OBVIOUS
      <4> QED BY <4>1, <4>2, <4>3 DEF FilledOK
    <3> QED BY <2>2, <3>1
  <2>4. i - 1 \in 0..Len(keys) /\ ~(i <= i - 1) /\ i \in 1..Len(keys)
    BY <1>1, <2>2, <2>3
  <2>5. FilledOK(f[i - 1], keys, size, i - 1)
    BY <2>1, <2>4
  <2> DEFINE x == f[i - 1]
  <2> HIDE DEF x, bad
  <2>6. /\ Sound(x) /\ x.size = size /\ x.count = i - 1
        /\ \A j \in 1..i - 1 : ListKeys(x)[j] = keys[j]
    BY <2>5 DEF FilledOK, x
  <2>7. PICK s : Chain(x, s) /\ Len(s) = i - 1
    BY <2>5 DEF FilledOK, x
  <2>8. \A n \in Slots(x) : x.slot[n].k # keys[i]
    <3> SUFFICES ASSUME NEW n \in Slots(x), x.slot[n].k = keys[i] PROVE FALSE
      OBVIOUS
    <3>1. PICK j \in 1..Len(s) : s[j] = n
      BY <1>1, <2>4, <2>7 DEF Chain
    <3>2. ListKeys(x)[j] = keys[i]
      BY <2>6, <2>7, <3>1, KeysOfChain DEF Sound
    <3>3. keys[j] = keys[i] /\ j \in 1..Len(keys) /\ j # i
      BY <1>1, <2>4, <2>6, <2>7, <3>1, <3>2
    <3> QED BY <1>1, <2>4, <3>3
  <2>9. Len(s) < x.size /\ keys[i] \in Key
    BY <1>1, <2>4, <2>6, <2>7
  <2> DEFINE y == Put(x, keys[i])
             l == ListKeys(x)
  <2>10. /\ Sound(y) /\ y.size = x.size /\ y.count = x.count + 1
         /\ \E r : Chain(y, r) /\ Len(r) = Len(s) + 1
         /\ ListKeys(y) = Append(l, keys[i])
    BY <2>6, <2>7, <2>8, <2>9, PutAppends
  <2>11. f[i] = y
    BY <1>2, <2>4 DEF x
  <2> HIDE DEF y
  <2>12. l \in Seq(Key) /\ Len(l) = i - 1
    BY <2>6, <2>7, KeysOfChain DEF Sound
  <2>13. \A j \in 1..i : ListKeys(y)[j] = keys[j]
    <3> HIDE DEF l
    <3>1. \A j \in 1..Len(l) + 1 :
            Append(l, keys[i])[j] = IF j <= Len(l) THEN l[j] ELSE keys[i]
      BY <2>9, <2>12, AppendProperties
    <3>2. \A j \in 1..i - 1 : l[j] = keys[j]
      BY <2>6 DEF l
    <3> QED BY <2>4, <2>10, <2>12, <3>1, <3>2
  <2>14. FilledOK(y, keys, size, i)
    <3>1. (i - 1) + 1 = i
      BY <2>4
    <3>2. PICK r : Chain(y, r) /\ Len(r) = Len(s) + 1
      BY <2>10
    <3>3. y.size = size /\ y.count = i /\ Len(r) = i
      BY <2>6, <2>7, <2>10, <3>1, <3>2
    <3> QED BY <2>10, <2>13, <3>2, <3>3 DEF FilledOK
  <2> QED BY <2>2, <2>11, <2>14
<1> QED BY <1>3 DEF f

\* The insertions of lh_table_resize never make the new table grow, so
\* lh_table_insert and lh_table_resize call each other no deeper than once.
THEOREM FillingNeverCrowds ==
  ASSUME HashOK, NEW keys \in Seq(Key), Distinct(keys), NEW size \in Nat \ {0},
         Len(keys) <= size
  PROVE  \A i \in 0..Len(keys) - 1 : ~Crowded(Filled(keys, 2 * size)[i])
<1> SUFFICES ASSUME NEW i \in 0..Len(keys) - 1
             PROVE  ~Crowded(Filled(keys, 2 * size)[i])
  OBVIOUS
<1> DEFINE x == Filled(keys, 2 * size)[i]
<1>1. Len(keys) \in Nat
  BY LenProperties
<1>2. i \in 0..Len(keys) /\ 2 * size \in Nat \ {0} /\ Len(keys) <= 2 * size
  BY <1>1
<1>3. x.count = i /\ x.size = 2 * size
  BY <1>2, FilledInOrder DEF FilledOK
<1> HIDE DEF x
<1>4. ~(100 * i > 66 * (2 * size))
  BY <1>1
<1>5. ~Crowded(x)
  BY <1>3, <1>4 DEF Crowded
<1> QED BY <1>5 DEF x

\* lh_table_resize keeps the keys, their order and where a lookup finds them.
LEMMA ResizedKeepsOrder ==
  ASSUME HashOK, NEW x, Sound(x), NEW s, Chain(x, s)
  PROVE  LET y == Resized(x, 2 * x.size)
         IN  /\ Sound(y) /\ y.size = 2 * x.size
             /\ \E r : Chain(y, r) /\ Len(r) = Len(s)
             /\ ListKeys(y) = ListKeys(x)
<1> DEFINE keys == ListKeys(x)
           size == 2 * x.size
           f == Filled(keys, size)
           y == f[Len(keys)]
<1>1. /\ keys \in Seq(Key) /\ Len(keys) = Len(s)
      /\ x.size \in Nat \ {0} /\ x.count = Len(s) /\ Len(s) <= x.size
      /\ Len(s) \in Nat
  BY KeysOfChain, ChainFits, LenProperties DEF Chain, Sound, IsTable, TableTypeOK
<1>2. Distinct(keys)
  <2>1. keys = [i \in 1..Len(s) |-> x.slot[s[i]].k]
    BY KeysOfChain DEF Sound
  <2>2. \A i \in 1..Len(s) : s[i] \in Slots(x) /\ x.slot[s[i]].k \in Key
    BY ElementOfSeq DEF Chain
  <2>3. \A i, j \in 1..Len(s) : s[i] = s[j] => i = j
    BY LenProperties DEF Chain, Distinct
  <2> HIDE DEF keys
  <2> QED BY <2>1, <2>2, <2>3 DEF Sound, KeysApart, Distinct
<1>3. size \in Nat \ {0} /\ Len(keys) <= size /\ Len(keys) \in 0..Len(keys)
  BY <1>1
<1>4. FilledOK(y, keys, size, Len(keys))
  <2> HIDE DEF keys, size
  <2> QED BY <1>1, <1>2, <1>3, FilledInOrder
<1>5. Resized(x, size) = [y EXCEPT !.count = x.count]
  BY DEF Resized, ResizeOrder
<1> HIDE DEF y
<1>6. [y EXCEPT !.count = x.count] = y
  <2>1. y.count = x.count /\ IsRecord(y)
    BY <1>1, <1>4 DEF FilledOK, Sound, IsTable
  <2> QED BY <2>1 DEF IsRecord
<1>7. PICK r : Chain(y, r) /\ Len(r) = Len(s)
  BY <1>1, <1>4 DEF FilledOK
<1>8. ListKeys(y) = keys
  <2>1. ListKeys(y) \in Seq(Key) /\ Len(ListKeys(y)) = Len(keys)
    BY <1>1, <1>4, <1>7, KeysOfChain DEF FilledOK, Sound
  <2>2. \A j \in 1..Len(keys) : ListKeys(y)[j] = keys[j]
    BY <1>4 DEF FilledOK
  <2> HIDE DEF keys
  <2> QED BY <1>1, <2>1, <2>2, SeqEqual
<1>9. Sound(y) /\ y.size = size
  BY <1>4 DEF FilledOK
<1> QED BY <1>5, <1>6, <1>7, <1>8, <1>9

\* The first line of lh_table_insert: the keys stay, and there is room.
LEMMA GrownHasRoom ==
  ASSUME HashOK, NEW x, Sound(x), NEW s, Chain(x, s)
  PROVE  /\ Sound(Grown(x))
         /\ \E r : Chain(Grown(x), r) /\ Len(r) < Grown(x).size
         /\ ListKeys(Grown(x)) = ListKeys(x)
<1>1. /\ x.size \in Nat \ {0} /\ x.count = Len(s) /\ Len(s) <= x.size
      /\ Len(s) \in Nat
  BY ChainFits, LenProperties DEF Chain, Sound, IsTable, TableTypeOK
<1>2. CASE Crowded(x)
  <2> DEFINE y == Resized(x, 2 * x.size)
  <2>1. Grown(x) = y
    BY <1>2 DEF Grown
  <2>2. /\ Sound(y) /\ y.size = 2 * x.size /\ ListKeys(y) = ListKeys(x)
        /\ \E r : Chain(y, r) /\ Len(r) = Len(s)
    BY ResizedKeepsOrder
  <2> HIDE DEF y
  <2>3. Len(s) < 2 * x.size
    BY <1>1
  <2> QED BY <2>1, <2>2, <2>3
<1>3. CASE ~Crowded(x)
  <2>1. Len(s) < x.size
    BY <1>1, <1>3 DEF Crowded
  <2>2. Grown(x) = x
    BY <1>3 DEF Grown
  <2> QED BY <2>1, <2>2
<1> QED BY <1>2, <1>3

-----------------------------------------------------------------------------
(* The specification.                                                      *)

LInv ==
  /\ hash \in [Key -> HashValues]
  /\ Sound(t)
  /\ \E s : Chain(t, s)

LEMMA LInvHashOK ==
  ASSUME LInv
  PROVE  HashOK
BY LinkHashAssumption DEF LInv, HashOK

LEMMA StutterStep ==
  ASSUME LInv, UNCHANGED vars
  PROVE  LInv' /\ ListKeys(t)' = ListKeys(t)
<1>1. t' = t /\ hash' = hash
  BY DEF vars
<1>2. Sound(t)'
  BY <1>1 DEF LInv, Sound, IsTable, IsRecord, TableTypeOK, KeysApart, Reachable,
              Probe, Slots
<1>3. (\E s : Chain(t, s))'
  BY <1>1 DEF LInv, Chain, Slots
<1>4. LInv'
  BY <1>1, <1>2, <1>3 DEF LInv
<1>5. ListKeys(t)' = ListKeys(t)
  BY <1>1 DEF ListKeys, ListSlots
<1> QED BY <1>4, <1>5

\* An insertion into a sound table, as the specification does it.
LEMMA InsertStep ==
  ASSUME LInv, NEW k \in Key, InsertNew(k)
  PROVE  /\ LInv'
         /\ ListKeys(t)' = Insert(ListKeys(t), k)
<1>0. HashOK
  BY LInvHashOK
<1> DEFINE x == Grown(t)
           y == Put(x, k)
<1>1. PICK s : Chain(t, s)
  BY DEF LInv
<1>2. Sound(t) /\ Find(t, k) = Null /\ t' = y /\ hash' = hash
  BY DEF LInv, InsertNew
<1>3. PICK r : Chain(x, r) /\ Len(r) < x.size
  BY <1>0, <1>1, <1>2, GrownHasRoom
<1>4. Sound(x) /\ ListKeys(x) = ListKeys(t)
  BY <1>0, <1>1, <1>2, GrownHasRoom
<1>5. ~Present(ListKeys(t), k)
  BY <1>0, <1>1, <1>2, FoundIfListed
<1> HIDE DEF x
<1>6. \A n \in Slots(x) : x.slot[n].k # k
  <2>1. ~Present(ListKeys(x), k)
    BY <1>4, <1>5
  <2> QED BY <1>0, <1>3, <1>4, <2>1, FoundIfListed
<1>7. /\ Sound(y) /\ ListKeys(y) = Append(ListKeys(x), k)
      /\ \E q : Chain(y, q) /\ Len(q) = Len(r) + 1
  BY <1>0, <1>3, <1>4, <1>6, PutAppends
<1> HIDE DEF y
<1>8. LInv'
  <2>1. (hash \in [Key -> HashValues])'
    BY <1>2 DEF LInv
  <2>2. Sound(t)'
    BY <1>2, <1>7 DEF Sound, IsTable, IsRecord, TableTypeOK, KeysApart, Reachable, Probe, Slots
  <2>3. (\E q : Chain(t, q))'
    BY <1>2, <1>7 DEF Chain, Slots
  <2> QED BY <2>1, <2>2, <2>3 DEF LInv
<1>9. ListKeys(t)' = ListKeys(y)
  BY <1>2 DEF ListKeys, ListSlots
<1>10. Insert(ListKeys(t), k) = Append(ListKeys(t), k)
  BY <1>5, DeleteAbsent DEF Insert
<1> QED BY <1>4, <1>7, <1>8, <1>9, <1>10

\* A deletion, which may find nothing.
LEMMA DeleteStep ==
  ASSUME LInv, NEW k \in Key, DeleteKey(k)
  PROVE  /\ LInv'
         /\ ListKeys(t)' = Delete(ListKeys(t), k)
<1>0. HashOK
  BY LInvHashOK
<1>1. PICK s : Chain(t, s)
  BY DEF LInv
<1>2. Sound(t) /\ hash' = hash /\ hash \in [Key -> HashValues]
  BY DEF LInv, DeleteKey
<1>3. CASE Find(t, k) = Null
  <2>1. UNCHANGED vars
    BY <1>2, <1>3 DEF DeleteKey, Missed, vars
  <2>2. LInv' /\ ListKeys(t)' = ListKeys(t)
    BY <2>1, StutterStep
  <2>4. ~Present(ListKeys(t), k)
    BY <1>0, <1>1, <1>2, <1>3, FoundIfListed
  <2>5. Delete(ListKeys(t), k) = ListKeys(t)
    BY <2>4, DeleteAbsent
  <2> QED BY <2>2, <2>5
<1>4. CASE Find(t, k) # Null
  <2> DEFINE y == Unlinked(t, Find(t, k))
  <2>1. t' = y
    BY <1>4 DEF DeleteKey
  <2>2. /\ Sound(y) /\ ListKeys(y) = Delete(ListKeys(t), k)
        /\ \E r : Chain(y, r)
    BY <1>0, <1>1, <1>2, <1>4, DeletionDeletes
  <2> HIDE DEF y
  <2>3. Sound(t)'
    BY <1>2, <2>1, <2>2 DEF Sound, IsTable, IsRecord, TableTypeOK, KeysApart, Reachable, Probe, Slots
  <2>4. (\E q : Chain(t, q))'
    BY <2>1, <2>2 DEF Chain, Slots
  <2>5. LInv'
    BY <1>2, <2>3, <2>4 DEF LInv
  <2>6. ListKeys(t)' = ListKeys(y)
    BY <2>1 DEF ListKeys, ListSlots
  <2> QED BY <2>2, <2>5, <2>6
<1> QED BY <1>3, <1>4

LEMMA InitSound ==
  ASSUME Init
  PROVE  LInv /\ ListKeys(t) = <<>>
<1>1. /\ Sound(t) /\ Chain(t, <<>>) /\ hash \in [Key -> HashValues]
  BY NewTableSound, LinkHashAssumption DEF Init
<1>2. ListKeys(t) \in Seq(Key) /\ Len(ListKeys(t)) = 0
  BY <1>1, KeysOfChain DEF Sound
<1>3. ListKeys(t) = <<>>
  BY <1>2, EmptySeq
<1> QED BY <1>1, <1>3 DEF LInv

\* The table is sound in every state: the inductive invariant.
THEOREM TableIsSound == Spec => []LInv
<1>1. Init => LInv
  BY InitSound
<1>2. LInv /\ [Next]_vars => LInv'
  BY InsertStep, DeleteStep, StutterStep DEF Next
<1> QED BY <1>1, <1>2, PTL DEF Spec

\* The struct and its slots keep their types: head, tail, next and prev are
\* slots of the table or null, whatever the order of insertions, deletions and
\* growth.
THEOREM TypeCorrect == Spec => []TypeOK
<1>1. LInv => TypeOK
  BY DEF LInv, Sound, IsTable, TypeOK
<1> QED BY <1>1, TableIsSound, PTL

\* The list and the slots agree.
THEOREM ListAndSlotsAgree == Spec => []ListMatchesSlots
<1>1. LInv => ListMatchesSlots
  <2> SUFFICES ASSUME LInv PROVE ListMatchesSlots
    OBVIOUS
  <2>1. PICK s : Chain(t, s)
    BY DEF LInv
  <2>2. ListSlots(t) = s
    BY <2>1, WalkIsChain DEF LInv, Sound
  <2>3. /\ Len(s) \in Nat /\ DOMAIN s = 1..Len(s) /\ s \in Seq(Slots(t))
        /\ s = <<>> <=> Len(s) = 0
    BY <2>1, LenProperties, EmptySeq DEF Chain
  <2>4. DOMAIN t.slot = Slots(t)
    BY DEF LInv, Sound, IsTable, TableTypeOK, Slots
  <2>5. \A n \in DOMAIN t.slot : t.slot[n].k \in Key <=> Present(s, n)
    BY <2>1, <2>3, <2>4 DEF Chain, Present
  <2>6. t.tail = IF s = <<>> THEN Null ELSE s[Len(s)]
    BY <2>1, <2>3 DEF Chain
  <2>7. \A i \in DOMAIN s : t.slot[s[i]].prev = IF i = 1 THEN Null ELSE s[i - 1]
    BY <2>1, <2>3 DEF Chain
  <2>8. Distinct(s) /\ t.count = Len(s)
    BY <2>1 DEF Chain
  <2> QED BY <2>2, <2>5, <2>6, <2>7, <2>8 DEF ListMatchesSlots
<1> QED BY <1>1, TableIsSound, PTL

\* A lookup finds a key exactly when it is listed.
THEOREM LookupsAreRight == Spec => []LookupFindsListed
<1>1. LInv => LookupFindsListed
  <2> SUFFICES ASSUME LInv, NEW k \in Key
               PROVE  Find(t, k) # Null <=> Present(ListKeys(t), k)
    BY DEF LookupFindsListed
  <2>1. HashOK /\ Sound(t) /\ \E s : Chain(t, s)
    BY LInvHashOK DEF LInv
  <2> QED BY <2>1, FoundIfListed
<1> QED BY <1>1, TableIsSound, PTL

\* The probe loop of lh_table_insert ends: growth leaves a free slot.
THEOREM InsertionsEnd == Spec => []InsertTerminates
<1>1. LInv => InsertTerminates
  <2> SUFFICES ASSUME LInv PROVE InsertTerminates
    OBVIOUS
  <2>1. HashOK /\ Sound(t) /\ \E s : Chain(t, s)
    BY LInvHashOK DEF LInv
  <2> DEFINE x == Grown(t)
  <2>2. Sound(x) /\ \E r : Chain(x, r) /\ Len(r) < x.size
    BY <2>1, GrownHasRoom
  <2> HIDE DEF x
  <2>3. PICK n \in Slots(x) : x.slot[n].k \notin Key
    BY <2>2, ChainFits DEF Sound
  <2>4. n \in DOMAIN x.slot /\ x.slot[n].k \in {Empty, Freed}
    BY <2>2, <2>3 DEF Sound, IsTable, TableTypeOK, Slots
  <2> QED BY <2>4 DEF InsertTerminates, x
<1> QED BY <1>1, TableIsSound, PTL

\* The slots and links implement the ordered table that uvx_server.c walks.
LEMMA SameOperators ==
  ASSUME NEW s, NEW k
  PROVE  Ordered!Delete(s, k) = Delete(s, k) /\ Ordered!Insert(s, k) = Insert(s, k)
BY DEF Ordered!Insert, Insert, Ordered!Delete, Delete, Ordered!Present, Present,
       Ordered!Position, Position, Ordered!RemoveAt, RemoveAt

THEOREM ImplementsOrdered == Spec => ImplementsOrderedTable
<1>1. Init => Ordered!Init
  BY InitSound DEF Ordered!Init
<1>2. LInv /\ [Next]_vars => [Ordered!Next]_(ListKeys(t))
  <2> SUFFICES ASSUME LInv, [Next]_vars
               PROVE  [Ordered!Next]_(ListKeys(t))
    OBVIOUS
  <2>1. CASE UNCHANGED vars
    BY <2>1, StutterStep
  <2>2. ASSUME NEW k \in Key, InsertNew(k) PROVE Ordered!Next
    BY <2>2, InsertStep, SameOperators DEF Ordered!Next, Ordered!InsertKey
  <2>3. ASSUME NEW k \in Key, DeleteKey(k) PROVE Ordered!Next
    BY <2>3, DeleteStep, SameOperators DEF Ordered!Next, Ordered!DeleteKey
  <2> QED BY <2>1, <2>2, <2>3 DEF Next
<1> QED BY <1>1, <1>2, TableIsSound, PTL DEF Spec, ImplementsOrderedTable, Ordered!Spec
=============================================================================
