---------------------------- MODULE MCUvxSession ----------------------------
(* A small instance of UvxSession for TLC. *)
EXTENDS UvxSession

CONSTANTS c1, c2, d1

MCConn == {c1, c2}
MCData == {d1}

\* GhostGoesAway for one address: a connection of the server dead to its
\* client is closed in the end.  The addresses are interchangeable (Accept
\* takes any that is free), so what holds of one holds of every one.
GhostsGoAway == GhostGoesAway(c1)
=============================================================================
