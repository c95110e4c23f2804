------------------------------ MODULE MCLoge ------------------------------
(* Small instances of Loge for TLC. *)
EXTENDS Loge

MCByte == {"a", "L", Cont, "n", "f", Slash, Backslash}

\* texts of up to three characters of one and two bytes
MCTexts == {FlattenSeq(s) : s \in SeqOf({<<"a">>, <<"L", Cont>>}, 3)}
MCNames == {<<>>, <<"n">>, <<"n", "n">>}
\* the paths of up to five characters, and some with backslashes
MCPaths == SeqOf({"f", Slash}, 5) \cup SeqOf({"f", Slash, Backslash}, 3)
           \cup {<<"f", c, "f", c, "f", c, "f">> : c \in {Slash, Backslash}}
MCFewPaths == {<<>>, <<"f">>, <<"f", "f", "f">>}
=============================================================================
