------------------------------ MODULE LinkHash ------------------------------
(***************************************************************************)
(* The hash table of utils/linkhash.c: open addressing with linear         *)
(* probing, tombstones for deleted entries, growth at two thirds, and a    *)
(* doubly linked list through the slots in insertion order.                *)
(*                                                                         *)
(* Pointers to entries are slot numbers.  Values are left out: uvx stores  *)
(* the key again.  The statistics fields are left out.                     *)
(***************************************************************************)
EXTENDS TableOps, FiniteSets

CONSTANTS
  Key,
  HashValues,  \* what hash_fn may return
  InitSize,    \* the size given to lh_table_new
  MaxSize      \* bound: the table is not grown beyond this size

Null == -1
Empty == "LH_EMPTY"
Freed == "LH_FREED"

ASSUME LinkHashAssumption ==
  /\ HashValues \subseteq Nat
  /\ InitSize \in Nat \ {0}
  /\ MaxSize \in Nat
  \* the two marks are no addresses
  /\ Empty \notin Key /\ Freed \notin Key

VARIABLES
  t,    \* the struct lh_table
  hash  \* hash_fn: chosen once, as the addresses malloc returns are

vars == <<t, hash>>

TableTypeOK(x) ==
  /\ x.size \in Nat \ {0}
  /\ x.count \in Nat
  /\ x.head \in 0..x.size - 1 \cup {Null}
  /\ x.tail \in 0..x.size - 1 \cup {Null}
  /\ x.slot \in [0..x.size - 1 -> [k : Key \cup {Empty, Freed},
                                   next : 0..x.size - 1 \cup {Null},
                                   prev : 0..x.size - 1 \cup {Null}]]

TypeOK == TableTypeOK(t) /\ hash \in [Key -> HashValues]

-----------------------------------------------------------------------------
(* Reading a table.                                                        *)

Probe(x, k, i) == (hash[k] + i) % x.size

\* the first slot in the probe order of k whose key is in Stop
FirstProbe(x, k, Stop) ==
  LET hits == {i \in 0..x.size - 1 : x.slot[Probe(x, k, i)].k \in Stop}
  IN  IF hits = {} THEN Null
      ELSE Probe(x, k, CHOOSE i \in hits : \A j \in hits : i <= j)

\* lh_table_lookup_entry: an empty slot ends the search, a tombstone does not
Find(x, k) ==
  LET n == FirstProbe(x, k, {Empty, k})
  IN  IF n # Null /\ x.slot[n].k = k THEN n ELSE Null

\* the slots from t->head along next
ListSlots(x) ==
  LET at[i \in 1..x.size + 1] ==
        IF i = 1 THEN x.head
        ELSE IF at[i - 1] = Null THEN Null ELSE x.slot[at[i - 1]].next
  IN  [i \in 1..Cardinality({j \in 1..x.size : at[j] # Null}) |-> at[i]]

ListKeys(x) == [i \in DOMAIN ListSlots(x) |-> x.slot[ListSlots(x)[i]].k]

-----------------------------------------------------------------------------
(* Slips a maintainer could make, used only to test the properties.        *)

ClearedSlot == [k |-> Empty, next |-> Null, prev |-> Null]
CrowdedAtSize(x) == x.count > x.size
ListIsSlotOrder(x) ==
  LET n == {m \in 0..x.size - 1 : x.slot[m].k \notin {Empty, Freed}}
  IN  [i \in DOMAIN ListKeys(x) |->
         x.slot[CHOOSE m \in n : Cardinality({j \in n : j < m}) = i - 1].k]
CountsMisses(x) == [x EXCEPT !.count = @ - 1]
ForgetsBackLink(x, n, m) == x.slot[m]

-----------------------------------------------------------------------------
(* Changing a table.                                                       *)

\* lh_table_new
NewTable(size) ==
  [size |-> size, count |-> 0, head |-> Null, tail |-> Null,
   slot |-> [n \in 0..size - 1 |-> [k |-> Empty, next |-> Null, prev |-> Null]]]

\* what lh_table_delete_entry leaves in the slot
FreedSlot == [k |-> Freed, next |-> Null, prev |-> Null]

\* what becomes of slot m, which may be a neighbour of the deleted slot n
Bypassed(x, n, m) ==
  [x.slot[m] EXCEPT
     !.next = IF m = x.slot[n].prev THEN x.slot[n].next ELSE @,
     !.prev = IF m = x.slot[n].next THEN x.slot[n].prev ELSE @]

\* lh_table_delete_entry, of an occupied slot
Unlinked(x, n) ==
  [x EXCEPT
     !.count = @ - 1,
     !.head = IF @ = n THEN x.slot[n].next ELSE @,
     !.tail = IF @ = n THEN x.slot[n].prev ELSE @,
     !.slot = [m \in DOMAIN @ |-> IF m = n THEN FreedSlot
                                          ELSE Bypassed(x, n, m)]]

\* the end of lh_table_insert: k is written to slot n, which becomes the tail
Linked(x, n, k) ==
  [x EXCEPT
     !.count = @ + 1,
     !.head = IF @ = Null THEN n ELSE @,
     !.tail = n,
     !.slot = [m \in DOMAIN @ |->
                 IF m = n THEN [k |-> k, next |-> Null,
                                prev |-> IF x.head = Null THEN Null ELSE x.tail]
                 ELSE IF m = x.tail THEN [@[m] EXCEPT !.next = n]
                 ELSE @[m]]]

\* the probe loop of lh_table_insert: the first free slot or the key itself,
\* whichever comes first
Put(x, k) ==
  LET n == FirstProbe(x, k, {Empty, Freed, k})
  IN  Linked(IF x.slot[n].k = k THEN Unlinked(x, n) ELSE x, n, k)

\* the order in which lh_table_resize inserts the keys again
ResizeOrder(x) == ListKeys(x)

\* lh_table_resize fills a new table with the keys: the table after the first
\* i of them.  None of these insertions makes it grow again.
Filled(keys, new_size) ==
  LET at[i \in 0..Len(keys)] ==
        IF i = 0 THEN NewTable(new_size) ELSE Put(at[i - 1], keys[i])
  IN  at

\* lh_table_resize: count stays that of the old table
Resized(x, new_size) ==
  LET keys == ResizeOrder(x)
  IN  [Filled(keys, new_size)[Len(keys)] EXCEPT !.count = x.count]

\* t->count > t->size * 0.66
Crowded(x) == 100 * x.count > 66 * x.size

\* the first line of lh_table_insert
Grown(x) == IF Crowded(x) THEN Resized(x, 2 * x.size) ELSE x

\* lh_table_delete of a key that is absent
Missed(x) == x

-----------------------------------------------------------------------------
Init ==
  /\ t = NewTable(InitSize)
  /\ hash \in [Key -> HashValues]

\* lh_table_insert as uvx_server.c uses it, of a key that is absent: a new
\* connection (asserted there), or one that was deleted just before
InsertNew(k) ==
  /\ Find(t, k) = Null
  /\ Grown(t).size <= MaxSize
  /\ t' = Put(Grown(t), k)
  /\ UNCHANGED hash

\* lh_table_delete
DeleteKey(k) ==
  /\ t' = IF Find(t, k) = Null THEN Missed(t) ELSE Unlinked(t, Find(t, k))
  /\ UNCHANGED hash

Next == \E k \in Key : InsertNew(k) \/ DeleteKey(k)

Spec == Init /\ [][Next]_vars

-----------------------------------------------------------------------------
(* Properties.                                                             *)

Ordered == INSTANCE OrderedTable WITH keys <- ListKeys(t)

\* The slots and links implement the ordered table that uvx__on_read and
\* _uvx_check_timeout_clients rely on: growth keeps the order, a reinserted
\* key becomes the tail, a deletion disturbs no other key.
ImplementsOrderedTable == Ordered!Spec

\* The list and the slots agree: prev mirrors next, the list holds each
\* occupied slot once, and count is its length.
ListMatchesSlots ==
  LET s == ListSlots(t)
  IN  /\ \A n \in DOMAIN t.slot :
           (t.slot[n].k \in Key) <=> Present(s, n)
      /\ Distinct(s)
      /\ t.count = Len(s)
      /\ t.tail = IF s = <<>> THEN Null ELSE s[Len(s)]
      /\ \A i \in DOMAIN s :
           t.slot[s[i]].prev = IF i = 1 THEN Null ELSE s[i - 1]

\* A lookup finds a key exactly when it is listed: neither a deletion nor
\* growth breaks the chain of probes to a key that collided.
LookupFindsListed ==
  \A k \in Key : Find(t, k) # Null <=> Present(ListKeys(t), k)

\* The probe loop of lh_table_insert has no bound of its own: it ends because
\* growth leaves a free slot.
InsertTerminates ==
  \E n \in DOMAIN Grown(t).slot : Grown(t).slot[n].k \in {Empty, Freed}
=============================================================================
