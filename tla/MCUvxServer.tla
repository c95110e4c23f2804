----------------------------- MODULE MCUvxServer -----------------------------
(* Small instances of UvxServer for TLC. *)
EXTENDS UvxServer

CONSTANTS c1, c2, c3

MCConn3 == {c1, c2, c3}
MCConn2 == {c1, c2}
=============================================================================
