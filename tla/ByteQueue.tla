------------------------------ MODULE ByteQueue ------------------------------
(***************************************************************************)
(* What utils/automem.h promises: bytes are appended at the end, erased at *)
(* the front, dropped all at once or replaced, and are otherwise kept.     *)
(***************************************************************************)
EXTENDS Integers, Sequences

CONSTANT Bytes  \* the strings of bytes that are appended or attached

VARIABLE q

Init == q = <<>>

Push(s) == q' = q \o s

Erase(n) == q' = SubSeq(q, n + 1, Len(q))

Replace(s) == q' = s

Next ==
  \/ \E s \in Bytes : Push(s) \/ Replace(s)
  \/ \E n \in 1..Len(q) : Erase(n)

Spec == Init /\ [][Next]_q
=============================================================================
