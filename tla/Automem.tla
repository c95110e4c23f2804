------------------------------ MODULE Automem ------------------------------
(***************************************************************************)
(* The growing byte buffer of utils/automem.c.  Sizes are unsigned ints,   *)
(* which wrap at Words.  The block pdata points to is the sequence of its  *)
(* bytes, whose length is what malloc or realloc was asked for; a byte     *)
(* that was never written is Junk.                                         *)
(***************************************************************************)
EXTENDS Integers, Sequences, FiniteSetsExt

CONSTANTS
  Byte,           \* what a byte can be
  Bytes,          \* the strings the application appends or attaches
  EraseSizes,     \* the sizes it erases
  Limits,         \* the limits it gives to automem_erase_ex
  InitSizes,      \* the sizes it gives to automem_init
  DefaultSize,    \* 128
  Words,          \* how many values an unsigned int has: 2^32
  MaxContent,     \* bound: the application keeps no more bytes than this
  AttachesWhatFits,  \* it attaches no more than the buffer has room for
  Junk

Word(n) == n % Words

\* with at most half the range in use, doubling finds a size before it wraps,
\* and neither does automem_erase_ex wrap what remains and its limit
ASSUME AutomemAssumption ==
  /\ Words \in Nat
  /\ DefaultSize \in 1..Words - 1
  /\ InitSizes \cup Limits \cup EraseSizes \subseteq 0..Words - 1
  /\ MaxContent \in Nat /\ 2 * MaxContent <= Words
  /\ \A l \in Limits : MaxContent + l < Words
  /\ AttachesWhatFits \in BOOLEAN
  /\ Bytes \subseteq Seq(Byte) /\ Junk \notin Byte

VARIABLES
  size, buffersize, block,
  owner, \* none, live after automem_init, null after automem_uninit, or
         \* detached
  fault  \* the first write outside the block, or a loop that does not end

vars == <<size, buffersize, block, owner, fault>>

TypeOK ==
  /\ size \in 0..Words - 1
  /\ buffersize \in 0..Words - 1
  /\ Len(block) \in 0..Words - 1
  /\ owner \in {"none", "live", "null", "detached"}
  /\ fault \in {"none", "overrun", "hang"}

-----------------------------------------------------------------------------
(* Slips a maintainer could make, used only to test the properties.        *)

TestsBufferOnly(len, new) == new < len
MovesFromZero(n) == SubSeq(block, 1, size - n)
ShrinksToContent(newsize, limit) == newsize

-----------------------------------------------------------------------------
Fresh(n) == [i \in 1..n |-> Junk]

\* automem_init's choice of a size
InitialSize(n) == IF n = 0 THEN DefaultSize ELSE n

\* memcpy of s to b, behind its first at bytes
Copied(b, at, s) ==
  [i \in DOMAIN b |-> IF i \in at + 1..at + Len(s) THEN s[i - at] ELSE b[i]]

\* while(newbuffersize - pmem->size < len)
TooSmall(len, new) == Word(new - size) < len

\* newbuffersize, doubled k times from b
Doubled(b) ==
  LET at[k \in 0..MaxContent] == IF k = 0 THEN b ELSE Word(2 * at[k - 1])
  IN  at

\* how often automem_ensure_newspace may double the buffer; when none of
\* MaxContent times is enough, the loop is taken not to end: the size has
\* wrapped to 0 by then, where it stays
Enough(len) ==
  {k \in 0..MaxContent : ~TooSmall(len, Doubled(buffersize)[k])}

EnsuredSize(len) == Doubled(buffersize)[Min(Enough(len))]

\* realloc, which is called for a larger size only
Ensured(len) ==
  IF EnsuredSize(len) > buffersize
    THEN block \o Fresh(EnsuredSize(len) - buffersize)
    ELSE block

\* automem_ensure_newspace(pmem, room), then a memcpy of s behind the first
\* at bytes
Put(room, at, s) ==
  IF Enough(room) = {}
    THEN fault' = "hang" /\ UNCHANGED <<size, buffersize, block>>
    ELSE /\ buffersize' = Max({buffersize, EnsuredSize(room)})
         /\ size' = Word(at + Len(s))
         /\ block' = Copied(Ensured(room), at, s)
         /\ fault' = IF at + Len(s) > Len(block') THEN "overrun" ELSE "none"

-----------------------------------------------------------------------------
(* The operations.                                                         *)

New(n) ==
  /\ size' = 0
  /\ buffersize' = InitialSize(n)
  /\ block' = Fresh(InitialSize(n))

Init ==
  /\ size = 0
  /\ buffersize = 0
  /\ block = <<>>
  /\ owner = "none"
  /\ fault = "none"

AutomemInit(n) ==
  /\ owner # "live"
  /\ New(n)
  /\ owner' = "live"
  /\ UNCHANGED fault

AutomemUninit ==
  /\ owner = "live"
  /\ size' = 0
  /\ buffersize' = 0
  /\ block' = <<>>
  /\ owner' = "null"
  /\ UNCHANGED fault

\* automem_clean: uninit, if there is something to free, then init
AutomemClean ==
  /\ owner \in {"live", "null"}
  /\ New(DefaultSize)
  /\ owner' = "live"
  /\ UNCHANGED fault

AutomemReset ==
  /\ owner = "live"
  /\ size' = 0
  /\ UNCHANGED <<buffersize, block, owner, fault>>

\* automem_append_voidp, and the functions that append an int, a pointer, a
\* char or a byte through it
AutomemAppend(s) ==
  /\ owner = "live"
  /\ size + Len(s) <= MaxContent
  /\ Put(Len(s), size, s)
  /\ UNCHANGED owner

\* automem_attach, whatever it asks room for
AutomemAttach(s) ==
  /\ owner = "live"
  /\ Len(s) <= MaxContent
  /\ AttachesWhatFits => Len(s) <= buffersize
  /\ Put(IF Len(s) > buffersize THEN Len(s) - buffersize ELSE 0, 0, s)
  /\ UNCHANGED owner

\* automem_detach: the block is the caller's, though pdata still points to it
AutomemDetach ==
  /\ owner = "live"
  /\ owner' = "detached"
  /\ UNCHANGED <<size, buffersize, block, fault>>

\* the test of automem_erase and automem_erase_ex
LeavesSome(n) == n < size

\* what memmove or memcpy takes along
Remaining(n) == SubSeq(block, n + 1, size)

\* automem_erase
AutomemErase(n) ==
  /\ owner = "live"
  /\ IF LeavesSome(n)
       THEN size' = size - n /\ block' = Copied(block, 0, Remaining(n))
       ELSE size' = 0 /\ UNCHANGED block
  /\ UNCHANGED <<buffersize, owner, fault>>

\* the size of the block that automem_erase_ex moves what remains to
ShrunkSize(newsize, limit) == Word(newsize + limit)

\* automem_erase_ex, when less than everything is erased
AutomemEraseEx(n, limit) ==
  /\ owner = "live"
  /\ LeavesSome(n)
  /\ LET shrunk == ShrunkSize(size - n, limit)
     IN  IF buffersize > Word(size - n + limit)
           THEN /\ buffersize' = Word(size - n + limit)
                /\ block' = Copied(Fresh(shrunk), 0, Remaining(n))
                /\ fault' = IF size - n > shrunk THEN "overrun" ELSE "none"
           ELSE /\ block' = Copied(block, 0, Remaining(n))
                /\ UNCHANGED <<buffersize, fault>>
  /\ size' = size - n
  /\ UNCHANGED owner

\* automem_erase_ex, when everything is
AutomemEraseAll(n, limit) ==
  /\ owner = "live"
  /\ ~LeavesSome(n)
  /\ IF buffersize > limit THEN New(limit)
     ELSE size' = 0 /\ UNCHANGED <<buffersize, block>>
  /\ UNCHANGED <<owner, fault>>

-----------------------------------------------------------------------------
Next ==
  /\ fault = "none"
  /\ \/ \E n \in InitSizes : AutomemInit(n)
     \/ AutomemUninit
     \/ AutomemClean
     \/ AutomemReset
     \/ \E s \in Bytes : AutomemAppend(s) \/ AutomemAttach(s)
     \/ AutomemDetach
     \/ \E n \in EraseSizes :
          \/ AutomemErase(n)
          \/ \E limit \in Limits : AutomemEraseEx(n, limit)
                                   \/ AutomemEraseAll(n, limit)

Spec == Init /\ [][Next]_vars

-----------------------------------------------------------------------------
(* Properties.                                                             *)

Content == IF owner = "live" THEN SubSeq(block, 1, size) ELSE <<>>

Queue == INSTANCE ByteQueue WITH q <- Content

\* Through growth, shrinking and moves the content is what was appended and
\* not erased.
ImplementsByteQueue == Queue!Spec

\* Sizes are words, and every byte of the content is in the block, whose size
\* buffersize is, and was written by the application.
ContentIsInBlock ==
  /\ TypeOK
  /\ buffersize = Len(block)
  /\ size <= buffersize
  /\ \A i \in 1..size : block[i] # Junk

\* No write goes outside the block, and the doubling loop ends.
NeverOverruns == fault = "none"
=============================================================================
