---------------------------- MODULE OrderedTable ----------------------------
(***************************************************************************)
(* What uvx_server.c expects of privates.conns: a set of keys in the order *)
(* of their insertion, where a deleted key is gone and the others keep     *)
(* their places.                                                           *)
(***************************************************************************)
EXTENDS TableOps

CONSTANT Key

VARIABLE keys  \* from t->head to t->tail

Init == keys = <<>>

InsertKey(k) == keys' = Insert(keys, k)

DeleteKey(k) == keys' = Delete(keys, k)

Next == \E k \in Key : InsertKey(k) \/ DeleteKey(k)

Spec == Init /\ [][Next]_keys
=============================================================================
