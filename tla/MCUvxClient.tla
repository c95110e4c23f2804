---------------------------- MODULE MCUvxClient ----------------------------
(* Small instances of UvxClient for TLC. *)
EXTENDS UvxClient

CONSTANTS d1, d2, d3

MCData == {d1, d2, d3}
=============================================================================
