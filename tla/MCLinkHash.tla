----------------------------- MODULE MCLinkHash -----------------------------
(* Small instances of LinkHash for TLC. *)
EXTENDS LinkHash

CONSTANTS k1, k2, k3, k4

MCKey4 == {k1, k2, k3, k4}
\* one less than a multiple of each size, so that probing wraps around
MCHashes == {0, 7}
=============================================================================
