----------------------------- MODULE MCAutomem -----------------------------
(* Small instances of Automem for TLC. *)
EXTENDS Automem, SequencesExt

CONSTANTS x, y

MCByte == {x, y}
MCBytes == SeqOf(MCByte, 3) \cup {<<x, x, y, y>>}
=============================================================================
