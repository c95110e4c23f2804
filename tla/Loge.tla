-------------------------------- MODULE Loge --------------------------------
(***************************************************************************)
(* loge/loge.c: a log item is a header of fixed size followed by the extra *)
(* block, four texts behind each other, each ended by NUL: name, tags, the *)
(* shortened file path and the message.  The header says where in the      *)
(* block each one starts.                                                  *)
(*                                                                         *)
(* Texts are sequences of bytes: ASCII bytes, of which the slashes matter, *)
(* and two-byte characters, a leading byte and a continuation byte.  All   *)
(* that is written to the block is appended to what was written before, so *)
(* the block is a sequence too and the pointer p is its length.  Sizes are *)
(* scaled down; the fields of the header that are only copied are left     *)
(* out.                                                                    *)
(***************************************************************************)
EXTENDS Integers, Sequences, SequencesExt, FiniteSetsExt

CONSTANTS
  Byte,       \* what texts are made of
  Names,      \* names given to loge_name
  Texts,      \* tags and messages, well-formed UTF-8 without NUL
  Paths,      \* file paths
  BufSizes,   \* the sizes of the caller's buffers
  NameSize,   \* sizeof(loge->name)
  HeaderSize, \* sizeof(loge_item_t)
  TextLimit,  \* 255, the largest uint8_t
  MaxBuf,     \* LOGE_MAXBUF
  NULL

Slash == "/"
Backslash == "b"
Cont == "C"  \* 10-, a byte that continues a character
Nul == "0"

\* Texts start with the first byte of a character, and msg_len is 16 bits.
\* The asserts of loge_init and loge_item_bin: the buffer holds the header
\* and the longest name.
ConstantsOK ==
  /\ Nul \notin Byte
  /\ Names \cup Texts \cup Paths \subseteq Seq(Byte)
  /\ NULL \notin Seq(Byte \cup {Nul})
  /\ \A t \in Texts : t # <<>> => t[1] # Cont
  /\ {NameSize, HeaderSize, TextLimit, MaxBuf} \cup BufSizes \subseteq Nat
  /\ 0 < NameSize /\ NameSize < TextLimit
  /\ TextLimit < MaxBuf - HeaderSize
  /\ MaxBuf <= 65536
  /\ \A n \in BufSizes : NameSize < n - HeaderSize

ASSUME LogeAssumption == ConstantsOK

VARIABLES
  loge,  \* loge->name and loge->enabled
  call,  \* the arguments of the last loge_item_bin
  item   \* what it serialized, or None

vars == <<loge, call, item>>

None == [size |-> 0]

-----------------------------------------------------------------------------
(* Slips a maintainer could make, used only to test the properties.        *)

CutsAnywhere(bytes) == Len(bytes)
KeepsThree == 3
IgnoresMaxBuf(bufsize) == bufsize - HeaderSize
RoomForOneLess(x, end, n) == Min({n, end - Len(x) - 1})

-----------------------------------------------------------------------------
(* shorten_path.                                                           *)

IndicesOf(s, c) == {i \in DOMAIN s : s[i] = c}

\* the character the path is searched for
SlashOf(file) == IF Slash \in Range(file) THEN Slash ELSE Backslash

\* strrchr_from: the slash before the one at p, or 0
SlashBefore(file, p) ==
  Max({i \in IndicesOf(file, SlashOf(file)) : i < p} \cup {0})

Directories == 2

\* where the loop stops: at the first character of the path (1), without a
\* slash (0), or when it has gone back over all the directories it keeps
LastKept(file) ==
  LET at[n \in 0..Directories] ==
        IF n = 0 THEN SlashBefore(file, Len(file) + 1)
        ELSE IF at[n - 1] \in {0, 1} THEN at[n - 1]
        ELSE SlashBefore(file, at[n - 1])
  IN  at[Directories]

ShortenPath(file) ==
  IF file = NULL \/ LastKept(file) \in {0, 1} THEN file
  ELSE SubSeq(file, LastKept(file) + 1, Len(file))

-----------------------------------------------------------------------------
(* Writing the extra block x, which may grow to end.                       *)

\* unsigned arithmetic: a block that is beyond its end has all the room it
\* wants
Room(x, end, n) == IF Len(x) > end THEN n ELSE Min({n, end - Len(x)})

\* rfind_utf8_leading_byte_index: where the last character starts
Cut(bytes) ==
  Max({i \in DOMAIN bytes : bytes[i] # Cont} \cup {1})

Terminated(x, s) == x \o Append(s, Nul)

WriteStr(x, end, str) ==
  IF Len(x) = end THEN x
  ELSE IF str \in {NULL, <<>>} THEN Terminated(x, <<>>)
  ELSE LET copied == SubSeq(Append(str, Nul), 1, Room(x, end, Len(str) + 1))
       IN  Terminated(x, SubSeq(copied, 1, Cut(copied) - 1))

\* write_bin, or NULL
WriteBin(x, end, data) ==
  IF Len(x) = end THEN x
  ELSE IF data = NULL THEN Terminated(x, <<>>)
  ELSE LET n == Room(x, end, Len(data) + 1)
       IN  IF n < Len(data) + 1 THEN NULL
           ELSE Terminated(x, SubSeq(data, 1, n - 1))

-----------------------------------------------------------------------------
(* loge_item_bin.                                                          *)

\* extra_end - extra
ExtraEnd(bufsize) == Min({bufsize, MaxBuf}) - HeaderSize

Uint8(n) == n % (TextLimit + 1)
Uint16(n) == n % 65536

Serialized(name, c) ==
  LET end   == ExtraEnd(c.bufsize)
      named == Terminated(<<>>, name)
      tags  == WriteStr(named, TextLimit, c.tags)
      file  == WriteStr(tags, TextLimit, ShortenPath(c.file))
      msg   == IF c.binary THEN WriteBin(file, end, c.msg)
                           ELSE WriteStr(file, end, c.msg)
  IN  IF msg = NULL THEN None
      ELSE [extra |-> msg,
            name_offset |-> 0,
            tags_offset |-> Uint8(Len(named)),
            file_offset |-> Uint8(Len(tags)),
            msg_offset |-> Uint8(Len(file)),
            msg_len |-> Uint16(Len(msg) - Len(file) - 1),
            size |-> HeaderSize + Len(msg)]

Calls == [tags : Texts \cup {NULL}, file : Paths \cup {NULL},
          msg : Texts \cup {NULL}, binary : BOOLEAN, bufsize : BufSizes]

-----------------------------------------------------------------------------
\* the room loge_name leaves for the name
NameRoom == NameSize - 1

Named(name) == SubSeq(name, 1, Min({Len(name), NameRoom}))

\* loge_init
Init ==
  /\ \E name \in Names : loge = [name |-> Named(name), enabled |-> TRUE]
  /\ call = None
  /\ item = None

LogeName(name) ==
  /\ loge' = [loge EXCEPT !.name = Named(name)]
  /\ call' = None /\ item' = None

LogeEnable(on) ==
  /\ loge' = [loge EXCEPT !.enabled = on]
  /\ call' = None /\ item' = None

\* what loge_item_bin makes of a call
ItemOf(c) == IF loge.enabled THEN Serialized(loge.name, c) ELSE None

LogeItem(c) ==
  /\ call' = c
  /\ item' = ItemOf(c)
  /\ UNCHANGED loge

Next ==
  \/ \E name \in Names : LogeName(name)
  \/ \E on \in BOOLEAN : LogeEnable(on)
  \/ call = None /\ \E c \in Calls : LogeItem(c)

Spec == Init /\ [][Next]_vars

-----------------------------------------------------------------------------
(* Reading an item, as the comment of loge_item_t in loge.h tells to.      *)

\* the C string at an offset of an extra block
StringIn(extra, offset) ==
  LET nul == Min({i \in DOMAIN extra : i > offset /\ extra[i] = Nul})
  IN  SubSeq(extra, offset + 1, nul - 1)

\* the msg_len bytes of the message of an item
MessageOf(b) == SubSeq(b.extra, b.msg_offset + 1, b.msg_offset + b.msg_len)

StringAt(offset) == StringIn(item.extra, offset)
Message == MessageOf(item)

Text(t) == IF t = NULL THEN <<>> ELSE t

\* s is t, or t cut between two characters
IsTruncated(s, t) ==
  /\ IsPrefix(s, t)
  /\ s # t => t[Len(s) + 1] # Cont

-----------------------------------------------------------------------------
(* Properties.                                                             *)

TypeOK ==
  /\ loge.enabled \in BOOLEAN
  /\ Len(loge.name) < NameSize
  /\ call # None => call \in Calls
  /\ item # None => item.size = HeaderSize + Len(item.extra)

\* What a reader finds of the name is the name, and what it finds of the tags
\* and the message is what was given, perhaps cut short between characters:
\* "we ensure that utf-8 encoded str will not be truncated inside a
\* character".  A binary message is all there, or there is no item:
\* "truncating binary data is a serious error".  The buffer has room for the
\* texts before the message.
TextsReadBack ==
  item # None /\ call.bufsize > HeaderSize + TextLimit =>
    /\ StringAt(item.name_offset) = loge.name
    /\ IsTruncated(StringAt(item.tags_offset), Text(call.tags))
    /\ IF call.binary THEN Message = Text(call.msg)
       ELSE /\ IsTruncated(StringAt(item.msg_offset), Text(call.msg))
            /\ Message = StringAt(item.msg_offset)

\* Texts that fit are not cut at all, the last byte of the room included.
TextsThatFitAreWhole ==
  LET file == Text(ShortenPath(call.file))
      head == Len(loge.name) + Len(Text(call.tags)) + Len(file) + 3
      body == head + Len(Text(call.msg)) + 1
      fits == head <= TextLimit /\ body <= ExtraEnd(call.bufsize)
  IN  call # None /\ loge.enabled /\ fits =>
          /\ item # None
          /\ StringAt(item.tags_offset) = Text(call.tags)
          /\ StringAt(item.file_offset) = file
          /\ Message = Text(call.msg)

\* "the serialized data size ... is ensure not exceed bufsize and 1024"
\* exactly when the texts before the message do not exceed them: their room
\* is TextLimit whatever the buffer's, and a block that is beyond the buffer
\* never stops.  They take no more than that room, nor than their lengths.
\* The size is that of what is written.
SizeWithinBuffer ==
  LET room == Min({call.bufsize, MaxBuf})
      head == Len(loge.name) + Len(Text(call.tags))
                + Len(Text(ShortenPath(call.file))) + 3
  IN  /\ TypeOK
      /\ item # None =>
           /\ item.size <= room <=> HeaderSize + item.msg_offset <= room
           /\ item.msg_offset <= Min({head, TextLimit})

\* "we only keep the last at most two directories of the file path": the
\* path is kept from the earliest place, its start or behind a slash, with
\* no more than two slashes to follow.  A slash it starts with is the root.
KeepsTwoDirectories ==
  LET file    == call.file
      slashes == IndicesOf(file, SlashOf(file))
      starts  == {i \in {1} \cup {j + 1 : j \in slashes} :
                   Cardinality({j \in slashes : j >= i /\ j > 1}) <= 2}
  IN  call # None /\ file # NULL =>
        ShortenPath(file) = SubSeq(file, Min(starts), Len(file))

\* "tags/msg/file: can be NULL, and may be truncated if too long": a reader
\* finds the path or a part of it.
FileReadsBack ==
  item # None /\ call.bufsize > HeaderSize + TextLimit =>
    IsTruncated(StringAt(item.file_offset), Text(ShortenPath(call.file)))
=============================================================================
