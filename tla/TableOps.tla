------------------------------ MODULE TableOps ------------------------------
(***************************************************************************)
(* What a caller sees of utils/linkhash.c: a set of keys kept in insertion *)
(* order.  A table is the sequence of its keys from t->head to t->tail,    *)
(* the order lh_foreach_safe walks.  LinkHash models how the slots and     *)
(* links implement this.                                                   *)
(***************************************************************************)
EXTENDS Integers, Sequences, SequencesExt

\* lh_table_lookup_entry(t, k) != NULL
Present(s, k) == \E i \in DOMAIN s : s[i] = k

Position(s, k) == CHOOSE i \in DOMAIN s : s[i] = k

\* lh_table_delete: unlinks the entry; returns -1 and changes nothing when
\* the key is absent.
Delete(s, k) == IF Present(s, k) THEN RemoveAt(s, Position(s, k)) ELSE s

\* lh_table_insert: the new entry always becomes the tail.  This holds when
\* the key is absent, as it is in each of uvx's calls; LinkHash shows what
\* the hash table can do with a key that is there already.
Insert(s, k) == Append(Delete(s, k), k)

\* no key is listed twice
Distinct(s) == \A i, j \in DOMAIN s : s[i] = s[j] => i = j
=============================================================================
