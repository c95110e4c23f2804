----------------------------- MODULE MCConnRef -----------------------------
(* A small instance of ConnRef for TLC: the server's thread and two others. *)
EXTENDS ConnRef

CONSTANTS server, worker1, worker2, r1, r2, r3

MCThread == {server, worker1, worker2}
MCRef == {r1, r2, r3}
=============================================================================
