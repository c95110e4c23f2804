------------------------------ MODULE MCUvxLog ------------------------------
(* A small instance of UvxLog for TLC. *)
EXTENDS UvxLog

CONSTANTS r1, r2

MCReq == {r1, r2}
MCEmpty == [size |-> 0]
MCByte == {"a", "L", "C", "n", "f"}
MCNames == {<<"n">>}
MCPaths == {<<"f">>}
MCTexts == {<<"a">>, <<"L", "C", "a", "L", "C">>}

\* a text that is cut in its second two-byte character, binary data that
\* fits, and binary data that does not
MCLogCalls ==
  {[tags |-> <<"a">>, file |-> <<"f">>, msg |-> <<"L", "C", "a", "L", "C">>,
    binary |-> binary, bufsize |-> 13] : binary \in BOOLEAN}
  \cup
  {[tags |-> NULL, file |-> NULL, msg |-> <<"a">>,
    binary |-> TRUE, bufsize |-> 13]}

MCBody ==
  {Empty} \cup {L!Serialized(L!Named(name), c) : name \in Names, c \in LogCalls}
=============================================================================
