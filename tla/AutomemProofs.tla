---------------------------- MODULE AutomemProofs ----------------------------
(***************************************************************************)
(* Proofs about Automem, for every range of the sizes, every string and    *)
(* every sequence of calls by an application that attaches what fits and   *)
(* keeps its content below MaxContent: the doubling finds a size that is   *)
(* enough, no write leaves the block, the content is in the block, and the *)
(* buffer implements ByteQueue.                                            *)
(***************************************************************************)
EXTENDS Automem, TableOpsTheorems

\* The table of doubled sizes satisfies its equation.
LEMMA DoubledStep ==
  ASSUME NEW b
  PROVE  /\ Doubled(b)[0] = b
         /\ \A k \in 1..MaxContent : Doubled(b)[k] = Word(2 * Doubled(b)[k - 1])
<1> DEFINE Sizes(g, m) == [k \in 0..m |-> IF k = 0 THEN b ELSE Word(2 * g[k - 1])]
           bad == {m \in 0..MaxContent : ~ \E g : g = Sizes(g, m)}
           at == CHOOSE g : g = Sizes(g, MaxContent)
<1>0. MaxContent \in Nat
  BY AutomemAssumption
<1>1. bad = {}
  <2> SUFFICES ASSUME bad # {} PROVE FALSE
    OBVIOUS
  <2>1. PICK m \in bad : \A j \in bad : m <= j
    <3>1. bad \in SUBSET Nat
      BY <1>0
    <3> HIDE DEF bad
    <3> QED BY <3>1, LeastNumber
  <2>2. m \in 0..MaxContent /\ ~ \E g : g = Sizes(g, m)
    BY <2>1
  <2>3. m # 0
    <3>1. ASSUME m = 0 PROVE FALSE
      <4> DEFINE h == [k \in 0..0 |-> b]
      <4>1. h = Sizes(h, 0)
        OBVIOUS
      <4> QED BY <2>2, <3>1, <4>1
    <3> QED BY <3>1
  <2>4. m - 1 \in 0..MaxContent /\ ~(m <= m - 1)
    BY <1>0, <2>2, <2>3
  <2>5. PICK g : g = Sizes(g, m - 1)
    BY <2>1, <2>4
  <2> DEFINE h == [k \in 0..m |-> IF k < m THEN g[k] ELSE Word(2 * g[m - 1])]
  <2>6. \A k \in 0..m : h[k] = IF k = 0 THEN b ELSE Word(2 * h[k - 1])
    <3> TAKE k \in 0..m
    <3>1. CASE k = m
      <4>1. h[k] = Word(2 * g[m - 1]) /\ h[k - 1] = g[m - 1]
        BY <1>0, <2>2, <2>3, <3>1
      <4> HIDE DEF h
      <4> QED BY <2>3, <3>1, <4>1
    <3>2. CASE k < m
      <4>1. /\ h[k] = g[k] /\ k \in 0..m - 1
            /\ k # 0 => h[k - 1] = g[k - 1]
        BY <1>0, <2>2, <3>2
      <4>2. g[k] = IF k = 0 THEN b ELSE Word(2 * g[k - 1])
        BY <2>5, <4>1
      <4> HIDE DEF h
      <4> QED BY <4>1, <4>2
    <3> QED BY <1>0, <2>2, <3>1, <3>2
  <2>7. h = Sizes(h, m)
    BY <2>6
  <2> QED BY <2>2, <2>7
<1>2. \E g : g = Sizes(g, MaxContent)
  BY <1>0, <1>1
<1>3. at = Sizes(at, MaxContent)
  <2> HIDE DEF Sizes
  <2> QED BY <1>2
<1>4. Doubled(b) = at
  BY DEF Doubled
<1> HIDE DEF at
<1> QED BY <1>0, <1>3, <1>4

LEMMA WordOfWord ==
  ASSUME NEW n \in 0..Words - 1
  PROVE  Word(n) = n
<1>1. Words \in Nat \ {0}
  BY AutomemAssumption
<1>2. \A w \in Nat \ {0} : \A i \in 0..w - 1 : i % w = i
  OBVIOUS
<1> QED BY <1>1, <1>2 DEF Word

\* While the doubled size is not yet enough it does not wrap, and has grown.
LEMMA DoubledGrows ==
  ASSUME NEW b \in 1..Words - 1, NEW need \in 0..MaxContent
  PROVE  \A k \in 0..MaxContent :
           (\A j \in 0..k - 1 : Doubled(b)[j] < need)
             => Doubled(b)[k] \in b..Words - 1 /\ Doubled(b)[k] >= k + 1
<1> DEFINE d == Doubled(b)
           Grows(k) == (\A j \in 0..k - 1 : d[j] < need)
                         => d[k] \in b..Words - 1 /\ d[k] >= k + 1
           bad == {k \in 0..MaxContent : ~Grows(k)}
<1>0. MaxContent \in Nat /\ Words \in Nat \ {0} /\ 2 * MaxContent <= Words
  BY AutomemAssumption
<1>1. /\ d[0] = b
      /\ \A k \in 1..MaxContent : d[k] = Word(2 * d[k - 1])
  BY DoubledStep
<1> HIDE DEF d
<1>2. bad = {}
  <2> SUFFICES ASSUME bad # {} PROVE FALSE
    OBVIOUS
  <2>1. PICK k \in bad : \A j \in bad : k <= j
    <3>1. bad \in SUBSET Nat
      BY <1>0
    <3> HIDE DEF bad
    <3> QED BY <3>1, LeastNumber
  <2>2. k \in 0..MaxContent /\ ~Grows(k)
    BY <2>1
  <2>3. k # 0
    <3>1. d[0] \in b..Words - 1 /\ d[0] >= 0 + 1
      BY <1>0, <1>1
    <3> QED BY <2>2, <3>1
  <2>4. k - 1 \in 0..MaxContent /\ ~(k <= k - 1) /\ k \in 1..MaxContent
    BY <1>0, <2>2, <2>3
  <2>5. Grows(k - 1)
    BY <2>1, <2>4
  <2>6. \A j \in 0..k - 1 : d[j] < need
    BY <2>2
  <2>7. d[k - 1] \in b..Words - 1 /\ d[k - 1] >= k /\ d[k - 1] < need
    <3>1. \A j \in 0..(k - 1) - 1 : j \in 0..k - 1
      BY <2>4
    <3>2. k - 1 \in 0..k - 1
      BY <2>4
    <3> QED BY <2>4, <2>5, <2>6, <3>1, <3>2
  <2>8. 2 * d[k - 1] \in b..Words - 1 /\ 2 * d[k - 1] >= k + 1
    BY <1>0, <2>4, <2>7
  <2>9. d[k] = 2 * d[k - 1]
    <3>1. 2 * d[k - 1] \in 0..Words - 1
      BY <1>0, <2>8
    <3> QED BY <1>1, <2>4, <3>1, WordOfWord
  <2> QED BY <2>2, <2>8, <2>9
<1> QED BY <1>2 DEF d

\* automem_ensure_newspace ends and makes room.
THEOREM GrowthIsEnough ==
  ASSUME buffersize \in 1..Words - 1, size \in 0..buffersize, NEW len \in Nat,
         size + len <= MaxContent
  PROVE  /\ Enough(len) # {}
         /\ EnsuredSize(len) \in buffersize..Words - 1
         /\ size + len <= EnsuredSize(len)
<1> DEFINE d == Doubled(buffersize)
           need == size + len
           big == {k \in 0..MaxContent : ~(d[k] < need)}
<1>0. /\ MaxContent \in Nat /\ Words \in Nat \ {0} /\ need \in 0..MaxContent
      /\ size \in Nat /\ buffersize \in Nat
  BY AutomemAssumption
<1>1. \A k \in 0..MaxContent :
        (\A j \in 0..k - 1 : d[j] < need)
          => d[k] \in buffersize..Words - 1 /\ d[k] >= k + 1
  <2> HIDE DEF need
  <2> QED BY <1>0, DoubledGrows
<1> HIDE DEF d, need
<1>2. \A k \in 0..MaxContent : \A j \in 0..k - 1 : j \in 0..MaxContent
  BY <1>0
<1>3. big # {}
  <2> SUFFICES ASSUME big = {} PROVE FALSE
    OBVIOUS
  <2>2. \A k \in 0..MaxContent : d[k] < need
    OBVIOUS
  <2>3. d[MaxContent] >= MaxContent + 1 /\ d[MaxContent] \in Int
    BY <1>0, <1>1, <1>2, <2>2
  <2> QED BY <1>0, <2>2, <2>3
<1>4. PICK k \in big : \A j \in big : k <= j
  <2>1. big \in SUBSET Nat
    BY <1>0
  <2> HIDE DEF big
  <2> QED BY <1>3, <2>1, LeastNumber
<1>5. k \in 0..MaxContent /\ ~(d[k] < need) /\ \A j \in 0..k - 1 : d[j] < need
  <2>1. \A j \in 0..k - 1 : j \in 0..MaxContent /\ ~(k <= j)
    BY <1>0, <1>4
  <2> QED BY <1>4, <2>1
<1> HIDE DEF big
<1>6. d[k] \in buffersize..Words - 1 /\ need <= d[k]
  BY <1>0, <1>1, <1>5
<1>7. ~TooSmall(len, d[k])
  <2>1. d[k] - size \in 0..Words - 1 /\ ~(d[k] - size < len)
    BY <1>0, <1>6 DEF need
  <2> QED BY <2>1, WordOfWord DEF TooSmall
<1>8. ASSUME NEW j \in 0..k - 1 PROVE TooSmall(len, d[j])
  <2>1. d[j] \in buffersize..Words - 1
    <3>1. j \in 0..MaxContent /\ \A i \in 0..j - 1 : d[i] < need
      BY <1>0, <1>5
    <3> QED BY <1>1, <3>1
  <2>2. d[j] - size \in 0..Words - 1 /\ d[j] - size < len
    BY <1>0, <1>5, <2>1 DEF need
  <2> QED BY <2>2, WordOfWord DEF TooSmall
<1>9. Min(Enough(len)) = k
  <2>1. k \in Enough(len)
    BY <1>5, <1>7 DEF Enough, d
  <2>2. \A j \in Enough(len) : k <= j
    <3> SUFFICES ASSUME NEW j \in Enough(len) PROVE k <= j
      OBVIOUS
    <3>1. j \in 0..MaxContent /\ ~TooSmall(len, d[j])
      BY DEF Enough, d
    <3>2. j \notin 0..k - 1
      BY <1>8, <3>1
    <3> QED BY <1>0, <1>5, <3>1, <3>2
  <2>3. \A i, j \in Enough(len) : i \in Nat /\ j \in Nat
    BY <1>0 DEF Enough
  <2> DEFINE S == Enough(len)
  <2> HIDE DEF S
  <2>4. (CHOOSE i \in S : \A j \in S : i <= j) = k
    BY <2>1, <2>2, <2>3 DEF S
  <2> QED BY <2>4 DEF S, Min
<1>10. EnsuredSize(len) = d[k] /\ Enough(len) # {}
  BY <1>5, <1>7, <1>9 DEF EnsuredSize, Enough, d
<1> QED BY <1>6, <1>10 DEF need

-----------------------------------------------------------------------------
(* Blocks.                                                                 *)

Cell == Byte \cup {Junk}

LEMMA FreshIsBlock ==
  ASSUME NEW n \in Nat
  PROVE  Fresh(n) \in Seq(Cell) /\ Len(Fresh(n)) = n
<1>1. Fresh(n) \in [1..n -> Cell]
  BY DEF Fresh, Cell
<1>2. Fresh(n) \in Seq(Cell)
  BY <1>1
<1>3. DOMAIN Fresh(n) = 1..n
  BY DEF Fresh
<1> QED BY <1>2, <1>3, LenProperties

LEMMA CopiedBytes ==
  ASSUME NEW b \in Seq(Cell), NEW at \in Nat, NEW s \in Seq(Cell)
  PROVE  /\ Copied(b, at, s) \in Seq(Cell)
         /\ Len(Copied(b, at, s)) = Len(b)
         /\ \A i \in 1..Len(b) :
              Copied(b, at, s)[i] = IF i \in at + 1..at + Len(s) THEN s[i - at]
                                                                ELSE b[i]
<1> DEFINE c == Copied(b, at, s)
<1>1. Len(b) \in Nat /\ DOMAIN b = 1..Len(b) /\ Len(s) \in Nat
  BY LenProperties
<1>2. /\ \A i \in 1..Len(b) : b[i] \in Cell
      /\ \A i \in 1..Len(s) : s[i] \in Cell
  BY ElementOfSeq
<1>3. c = [i \in 1..Len(b) |-> IF i \in at + 1..at + Len(s) THEN s[i - at]
                                                            ELSE b[i]]
  BY <1>1 DEF Copied
<1>4. \A i \in 1..Len(b) : i \in at + 1..at + Len(s) => i - at \in 1..Len(s)
  BY <1>1
<1> HIDE DEF c
<1>5. c \in [1..Len(b) -> Cell]
  BY <1>2, <1>3, <1>4
<1>6. c \in Seq(Cell) /\ DOMAIN c = 1..Len(b)
  BY <1>1, <1>5
<1>7. Len(c) = Len(b)
  BY <1>1, <1>6, LenProperties
<1> QED BY <1>3, <1>6, <1>7 DEF c

LEMMA PrefixBytes ==
  ASSUME NEW b, NEW n \in Nat, \A i \in 1..n : b[i] \in Byte
  PROVE  /\ SubSeq(b, 1, n) \in Seq(Byte)
         /\ Len(SubSeq(b, 1, n)) = n
         /\ \A i \in 1..n : SubSeq(b, 1, n)[i] = b[i]
<1>1. /\ SubSeq(b, 1, n) \in Seq(Byte)
      /\ Len(SubSeq(b, 1, n)) = IF 1 <= n THEN n - 1 + 1 ELSE 0
      /\ \A i \in 1..n - 1 + 1 : SubSeq(b, 1, n)[i] = b[1 + i - 1]
  BY SubSeqProperties
<1> QED BY <1>1

BufferInv ==
  /\ buffersize \in 0..Words - 1
  /\ block \in Seq(Cell)
  /\ Len(block) = buffersize
  /\ size \in 0..buffersize
  /\ size <= MaxContent
  /\ \A i \in 1..size : block[i] \in Byte
  /\ owner \in {"none", "live", "null", "detached"}
  /\ owner = "live" => buffersize # 0
  /\ fault = "none"

\* What automem_ensure_newspace and the copy after it do: the first at bytes
\* stay, s comes behind them, and both are in the block.
LEMMA PutCopies ==
  ASSUME BufferInv, buffersize # 0, NEW room \in Nat, size + room <= MaxContent,
         NEW at \in 0..size, NEW s \in Seq(Byte), at + Len(s) <= MaxContent,
         at + Len(s) <= buffersize \/ at + Len(s) <= size + room,
         Put(room, at, s)
  PROVE  /\ buffersize' \in 1..Words - 1
         /\ block' \in Seq(Cell)
         /\ Len(block') = buffersize'
         /\ size' = at + Len(s)
         /\ size' \in 0..buffersize'
         /\ size' <= MaxContent
         /\ \A i \in 1..at : block'[i] = block[i]
         /\ \A i \in 1..Len(s) : block'[at + i] = s[i]
         /\ fault' = "none"
<1> DEFINE e == EnsuredSize(room)
<1>1. /\ Words \in Nat \ {0} /\ MaxContent \in Nat /\ 2 * MaxContent <= Words
      /\ buffersize \in 1..Words - 1 /\ size \in 0..buffersize
      /\ block \in Seq(Cell) /\ Len(block) = buffersize
      /\ Len(s) \in Nat /\ s \in Seq(Cell)
  BY AutomemAssumption, LenProperties DEF BufferInv, Cell
<1>2. /\ Enough(room) # {}
      /\ e \in buffersize..Words - 1
      /\ size + room <= e
  BY <1>1, GrowthIsEnough
<1>3. /\ buffersize' = Max({buffersize, e})
      /\ size' = Word(at + Len(s))
      /\ block' = Copied(Ensured(room), at, s)
      /\ fault' = IF at + Len(s) > Len(block') THEN "overrun" ELSE "none"
  BY <1>2 DEF Put
<1>4. buffersize' = e
  <2> HIDE DEF e
  <2>1. \A m \in Int, n \in Int : m <= n => Max({m, n}) = n
    BY DEF Max
  <2> QED BY <1>1, <1>2, <1>3, <2>1
<1>5. Ensured(room) \in Seq(Cell) /\ Len(Ensured(room)) = e
      /\ \A i \in 1..buffersize : Ensured(room)[i] = block[i]
  <2>1. CASE e > buffersize
    <3>1. Ensured(room) = block \o Fresh(e - buffersize)
      BY <2>1 DEF Ensured
    <3>2. e - buffersize \in Nat
      BY <1>1, <1>2, <2>1
    <3> HIDE DEF e
    <3>3. /\ Fresh(e - buffersize) \in Seq(Cell)
          /\ Len(Fresh(e - buffersize)) = e - buffersize
      BY <3>2, FreshIsBlock
    <3>4. /\ Ensured(room) \in Seq(Cell)
          /\ Len(Ensured(room)) = buffersize + (e - buffersize)
          /\ \A i \in 1..Len(block) + (e - buffersize) :
               Ensured(room)[i] = IF i <= Len(block) THEN block[i]
                                  ELSE Fresh(e - buffersize)[i - Len(block)]
      <4> DEFINE f == Fresh(e - buffersize)
      <4> HIDE DEF f
      <4>1. f \in Seq(Cell) /\ Len(f) = e - buffersize /\ Ensured(room) = block \o f
        BY <3>1, <3>3 DEF f
      <4>2. /\ block \o f \in Seq(Cell)
            /\ Len(block \o f) = Len(block) + Len(f)
            /\ \A i \in 1..Len(block) + Len(f) :
                 (block \o f)[i] = IF i <= Len(block) THEN block[i] ELSE f[i - Len(block)]
        BY <1>1, <4>1, ConcatProperties
      <4> QED BY <1>1, <4>1, <4>2 DEF f
    <3> QED BY <1>1, <1>2, <2>1, <3>4
  <2>2. CASE ~(e > buffersize)
    <3>1. Ensured(room) = block
      BY <2>2 DEF Ensured
    <3> QED BY <1>1, <1>2, <2>2, <3>1
  <2> QED BY <2>1, <2>2
<1> DEFINE c == Ensured(room)
<1> HIDE DEF c, e
<1>6. /\ block' \in Seq(Cell)
      /\ Len(block') = e
      /\ \A i \in 1..e : block'[i] = IF i \in at + 1..at + Len(s) THEN s[i - at]
                                                                 ELSE c[i]
  BY <1>1, <1>3, <1>5, CopiedBytes DEF c
<1>7. at \in Nat /\ at + Len(s) \in 0..e /\ at <= e /\ at <= buffersize
  BY <1>1, <1>2
<1>8. size' = at + Len(s)
  <2>1. at + Len(s) \in 0..Words - 1
    BY <1>1, <1>2, <1>7
  <2> QED BY <1>3, <2>1, WordOfWord
<1>9. fault' = "none"
  BY <1>1, <1>2, <1>3, <1>6, <1>7
<1>10. \A i \in 1..at : block'[i] = block[i]
  <2> SUFFICES ASSUME NEW i \in 1..at PROVE block'[i] = block[i]
    OBVIOUS
  <2>1. i \in 1..e /\ i \in 1..buffersize /\ i \notin at + 1..at + Len(s)
    BY <1>1, <1>2, <1>7
  <2> QED BY <1>5, <1>6, <2>1 DEF c
<1>11. \A i \in 1..Len(s) : block'[at + i] = s[i]
  <2> SUFFICES ASSUME NEW i \in 1..Len(s) PROVE block'[at + i] = s[i]
    OBVIOUS
  <2>1. at + i \in 1..e /\ at + i \in at + 1..at + Len(s) /\ (at + i) - at = i
    BY <1>1, <1>2, <1>7
  <2> QED BY <1>6, <2>1
<1> QED BY <1>1, <1>2, <1>4, <1>6, <1>7, <1>8, <1>9, <1>10, <1>11

-----------------------------------------------------------------------------
(* The operations.                                                         *)

LEMMA ContentBytes ==
  ASSUME BufferInv
  PROVE  /\ Content \in Seq(Byte)
         /\ owner = "live" => /\ Content = SubSeq(block, 1, size)
                              /\ Len(Content) = size
                              /\ \A i \in 1..size : Content[i] = block[i]
         /\ owner # "live" => Content = <<>>
<1>1. size \in Nat /\ \A i \in 1..size : block[i] \in Byte
  BY AutomemAssumption DEF BufferInv
<1>2. CASE owner = "live"
  BY <1>1, <1>2, PrefixBytes DEF Content
<1>3. CASE owner # "live"
  BY <1>3 DEF Content
<1> QED BY <1>2, <1>3

\* automem_append_voidp puts the bytes at the end.
LEMMA AppendStep ==
  ASSUME BufferInv, NEW s \in Bytes, AutomemAppend(s)
  PROVE  BufferInv' /\ Content' = Content \o s
<1>1. /\ owner = "live" /\ owner' = "live" /\ Put(Len(s), size, s)
      /\ size + Len(s) <= MaxContent /\ s \in Seq(Byte) /\ Len(s) \in Nat
      /\ size \in 0..size /\ buffersize # 0 /\ size \in Nat
  BY AutomemAssumption, LenProperties DEF AutomemAppend, BufferInv
<1>2. /\ buffersize' \in 1..Words - 1
      /\ block' \in Seq(Cell)
      /\ Len(block') = buffersize'
      /\ size' = size + Len(s)
      /\ size' \in 0..buffersize'
      /\ size' <= MaxContent
      /\ \A i \in 1..size : block'[i] = block[i]
      /\ \A i \in 1..Len(s) : block'[size + i] = s[i]
      /\ fault' = "none"
  BY <1>1, PutCopies
<1>3. Content \in Seq(Byte) /\ Len(Content) = size
      /\ \A i \in 1..size : Content[i] = block[i]
  BY <1>1, ContentBytes
<1>4. /\ Content \o s \in Seq(Byte)
      /\ Len(Content \o s) = size + Len(s)
      /\ \A i \in 1..size + Len(s) :
           (Content \o s)[i] = IF i <= size THEN Content[i] ELSE s[i - size]
  BY <1>1, <1>3, ConcatProperties
<1>5. \A i \in 1..size' : block'[i] = (Content \o s)[i] /\ block'[i] \in Byte
  <2> SUFFICES ASSUME NEW i \in 1..size'
               PROVE  block'[i] = (Content \o s)[i] /\ block'[i] \in Byte
    OBVIOUS
  <2>1. i \in 1..size + Len(s)
    BY <1>2
  <2>2. (Content \o s)[i] \in Byte
    BY <1>4, <2>1, ElementOfSeq
  <2>3. CASE i <= size
    BY <1>1, <1>2, <1>3, <1>4, <2>1, <2>2, <2>3
  <2>4. CASE ~(i <= size)
    <3>1. i - size \in 1..Len(s) /\ size + (i - size) = i
      BY <1>1, <2>1, <2>4
    <3>2. block'[size + (i - size)] = s[i - size]
      BY <1>2, <3>1
    <3> QED BY <1>4, <2>1, <2>2, <2>4, <3>1, <3>2
  <2> QED BY <2>3, <2>4
<1>6. BufferInv'
  BY <1>1, <1>2, <1>5 DEF BufferInv, Cell
<1>7. Content' = Content \o s
  <2>1. Content' = SubSeq(block', 1, size')
    BY <1>1 DEF Content
  <2>2. size' \in Nat
    BY <1>1, <1>2
  <2>3. /\ Content' \in Seq(Byte) /\ Len(Content') = size'
        /\ \A i \in 1..size' : Content'[i] = block'[i]
    BY <1>5, <2>1, <2>2, PrefixBytes
  <2> QED BY <1>2, <1>4, <1>5, <2>3, SeqEqual
<1> QED BY <1>6, <1>7

\* automem_attach replaces the content.
LEMMA AttachStep ==
  ASSUME AttachesWhatFits, BufferInv, NEW s \in Bytes, AutomemAttach(s)
  PROVE  BufferInv' /\ Content' = s
<1>1. /\ owner = "live" /\ owner' = "live" /\ Put(0, 0, s)
      /\ Len(s) <= MaxContent /\ Len(s) <= buffersize
      /\ s \in Seq(Byte) /\ Len(s) \in Nat
      /\ 0 \in 0..size /\ buffersize # 0 /\ size \in Nat
      /\ size + 0 <= MaxContent /\ 0 + Len(s) <= MaxContent
      /\ 0 + Len(s) <= buffersize
  <2>1. /\ size \in Nat /\ buffersize \in Nat /\ size <= MaxContent
        /\ s \in Seq(Byte) /\ Len(s) \in Nat /\ buffersize # 0
        /\ Len(s) <= MaxContent /\ Len(s) <= buffersize
        /\ owner = "live" /\ owner' = "live"
    BY AutomemAssumption, LenProperties DEF AutomemAttach, BufferInv
  <2>2. Put(0, 0, s)
    <3>1. ~(Len(s) > buffersize)
      BY <2>1
    <3> QED BY <3>1 DEF AutomemAttach
  <2> QED BY <2>1, <2>2
<1>2. /\ buffersize' \in 1..Words - 1
      /\ block' \in Seq(Cell)
      /\ Len(block') = buffersize'
      /\ size' = 0 + Len(s)
      /\ size' \in 0..buffersize'
      /\ size' <= MaxContent
      /\ \A i \in 1..Len(s) : block'[0 + i] = s[i]
      /\ fault' = "none"
  BY <1>1, PutCopies
<1>3. size' = Len(s) /\ \A i \in 1..Len(s) : block'[i] = s[i] /\ s[i] \in Byte
  <2>1. \A i \in 1..Len(s) : 0 + i = i /\ s[i] \in Byte
    BY <1>1, ElementOfSeq
  <2> QED BY <1>1, <1>2, <2>1
<1>4. BufferInv'
  BY <1>1, <1>2, <1>3 DEF BufferInv
<1>5. Content' = s
  <2>1. Content' = SubSeq(block', 1, size')
    BY <1>1 DEF Content
  <2>2. /\ Content' \in Seq(Byte) /\ Len(Content') = size'
        /\ \A i \in 1..size' : Content'[i] = block'[i]
    BY <1>1, <1>3, <2>1, PrefixBytes
  <2> QED BY <1>1, <1>3, <2>2, SeqEqual
<1> QED BY <1>4, <1>5

\* What remains of the content, moved to the front of a block that it fits.
LEMMA MovedBytes ==
  ASSUME BufferInv, NEW n \in Nat, n < size, NEW b \in Seq(Cell),
         size - n <= Len(b)
  PROVE  LET c == Copied(b, 0, Remaining(n))
         IN  /\ c \in Seq(Cell)
             /\ Len(c) = Len(b)
             /\ \A i \in 1..size - n : c[i] = block[n + i] /\ c[i] \in Byte
<1> DEFINE r == Remaining(n)
           c == Copied(b, 0, r)
<1>1. /\ size \in Nat /\ Len(b) \in Nat
      /\ \A i \in 1..size : block[i] \in Byte
  BY AutomemAssumption, LenProperties DEF BufferInv
<1>2. \A i \in n + 1..size : block[i] \in Cell
  BY <1>1 DEF Cell
<1>3. /\ r \in Seq(Cell)
      /\ Len(r) = IF n + 1 <= size THEN size - (n + 1) + 1 ELSE 0
      /\ \A i \in 1..size - (n + 1) + 1 : r[i] = block[(n + 1) + i - 1]
  BY <1>1, <1>2, SubSeqProperties DEF Remaining
<1>4. Len(r) = size - n
  BY <1>1, <1>3
<1>5. ASSUME NEW i \in 1..size - n PROVE r[i] = block[n + i] /\ block[n + i] \in Byte
  <2>1. i \in 1..size - (n + 1) + 1 /\ (n + 1) + i - 1 = n + i /\ n + i \in 1..size
    BY <1>1
  <2> QED BY <1>1, <1>3, <2>1
<1> HIDE DEF r
<1>6. /\ c \in Seq(Cell) /\ Len(c) = Len(b)
      /\ \A i \in 1..Len(b) : c[i] = IF i \in 0 + 1..0 + Len(r) THEN r[i - 0] ELSE b[i]
  BY <1>3, CopiedBytes
<1> HIDE DEF c
<1>7. ASSUME NEW i \in 1..size - n PROVE c[i] = block[n + i] /\ c[i] \in Byte
  <2>1. i \in 1..Len(b) /\ i \in 0 + 1..0 + Len(r) /\ i - 0 = i
    BY <1>1, <1>4
  <2> QED BY <1>5, <1>6, <2>1
<1> QED BY <1>6, <1>7 DEF c, r

LEMMA ContentMoved ==
  ASSUME BufferInv, owner = "live", owner' = "live", NEW n \in Nat, n < size,
         size' = size - n,
         \A i \in 1..size - n : block'[i] = block[n + i] /\ block'[i] \in Byte
  PROVE  Content' = SubSeq(Content, n + 1, Len(Content))
<1>1. /\ Content \in Seq(Byte) /\ Len(Content) = size
      /\ \A i \in 1..size : Content[i] = block[i]
  BY ContentBytes
<1>2. size \in Nat /\ size - n \in Nat
  BY AutomemAssumption DEF BufferInv
<1>3. Content' = SubSeq(block', 1, size - n)
  BY DEF Content
<1>4. /\ Content' \in Seq(Byte) /\ Len(Content') = size - n
      /\ \A i \in 1..size - n : Content'[i] = block'[i]
  BY <1>2, <1>3, PrefixBytes
<1> DEFINE q == Content
           r == SubSeq(q, n + 1, size)
<1> HIDE DEF q
<1>5. \A i \in n + 1..size : q[i] \in Byte
  <2>1. \A i \in n + 1..size : i \in 1..Len(q)
    BY <1>1, <1>2 DEF q
  <2> QED BY <1>1, <2>1, ElementOfSeq DEF q
<1>6. /\ r \in Seq(Byte)
      /\ Len(r) = IF n + 1 <= size THEN size - (n + 1) + 1 ELSE 0
      /\ \A i \in 1..size - (n + 1) + 1 : r[i] = q[(n + 1) + i - 1]
  BY <1>2, <1>5, SubSeqProperties
<1>7. Len(r) = size - n
  BY <1>2, <1>6
<1> HIDE DEF r
<1>8. ASSUME NEW i \in 1..size - n PROVE Content'[i] = r[i]
  <2>1. i \in 1..size - (n + 1) + 1 /\ (n + 1) + i - 1 = n + i /\ n + i \in 1..size
    BY <1>2
  <2> QED BY <1>1, <1>4, <1>6, <2>1 DEF q
<1>9. Content' = r
  BY <1>4, <1>6, <1>7, <1>8, SeqEqual
<1> QED BY <1>1, <1>9 DEF r, q

\* automem_erase drops the first n bytes.
LEMMA EraseStep ==
  ASSUME BufferInv, NEW n \in Nat, AutomemErase(n)
  PROVE  BufferInv' /\ Content' = IF n < size
                                    THEN SubSeq(Content, n + 1, Len(Content))
                                    ELSE <<>>
<1>1. /\ size \in Nat /\ owner = "live" /\ owner' = "live" /\ size <= MaxContent
      /\ buffersize' = buffersize /\ fault' = fault /\ buffersize \in Nat
      /\ block \in Seq(Cell) /\ Len(block) = buffersize /\ size <= buffersize
      /\ MaxContent \in Nat
  BY AutomemAssumption DEF BufferInv, AutomemErase
<1>2. CASE n < size
  <2>1. size' = size - n /\ block' = Copied(block, 0, Remaining(n))
    BY <1>2 DEF AutomemErase, LeavesSome
  <2>2. size - n <= Len(block)
    BY <1>1
  <2>3. /\ block' \in Seq(Cell) /\ Len(block') = Len(block)
        /\ \A i \in 1..size - n : block'[i] = block[n + i] /\ block'[i] \in Byte
    BY <1>1, <1>2, <2>1, <2>2, MovedBytes
  <2>4. size - n \in 0..buffersize /\ size - n <= MaxContent
    BY <1>1, <1>2
  <2>5. BufferInv'
    BY <1>1, <2>1, <2>3, <2>4 DEF BufferInv
  <2>6. Content' = SubSeq(Content, n + 1, Len(Content))
    BY <1>1, <1>2, <2>1, <2>3, ContentMoved
  <2> QED BY <1>2, <2>5, <2>6
<1>3. CASE ~(n < size)
  <2>1. size' = 0 /\ block' = block
    BY <1>3 DEF AutomemErase, LeavesSome
  <2>2. 0 \in 0..buffersize /\ 0 <= MaxContent /\ 0 \in Nat /\ \A i \in 1..0 : FALSE
    BY <1>1
  <2>3. BufferInv'
    BY <1>1, <2>1, <2>2 DEF BufferInv
  <2>4. Content' = SubSeq(block, 1, 0)
    BY <1>1, <2>1 DEF Content
  <2>5. Content' = <<>>
    BY <2>4, SubSeqEmpty
  <2> QED BY <1>3, <2>3, <2>5
<1> QED BY <1>2, <1>3

\* automem_erase_ex does the same, whether it moves to a smaller block or not.
LEMMA EraseExStep ==
  ASSUME BufferInv, NEW n \in Nat, NEW limit \in Limits, AutomemEraseEx(n, limit)
  PROVE  BufferInv' /\ n < size /\ Content' = SubSeq(Content, n + 1, Len(Content))
<1>1. /\ size \in Nat /\ owner = "live" /\ owner' = "live" /\ size <= MaxContent
      /\ block \in Seq(Cell) /\ Len(block) = buffersize /\ size <= buffersize
      /\ buffersize \in 0..Words - 1 /\ buffersize # 0 /\ fault = "none"
      /\ MaxContent \in Nat /\ limit \in Nat /\ MaxContent + limit < Words
      /\ Words \in Nat /\ n < size /\ size' = size - n
  BY AutomemAssumption DEF BufferInv, AutomemEraseEx, LeavesSome
<1> DEFINE m == size - n + limit
<1>2. m \in 0..Words - 1 /\ m # 0 /\ m \in Nat /\ size - n <= m
  BY <1>1
<1>3. Word(size - n + limit) = m /\ ShrunkSize(size - n, limit) = m
  <2>1. Word(m) = m
    <3> HIDE DEF m
    <3> QED BY <1>2, WordOfWord
  <2> QED BY <2>1 DEF ShrunkSize
<1>4. IF buffersize > m
        THEN /\ buffersize' = m
             /\ block' = Copied(Fresh(m), 0, Remaining(n))
             /\ fault' = IF size - n > m THEN "overrun" ELSE "none"
        ELSE /\ block' = Copied(block, 0, Remaining(n))
             /\ UNCHANGED <<buffersize, fault>>
  <2>1. LET shrunk == ShrunkSize(size - n, limit)
        IN  IF buffersize > Word(size - n + limit)
              THEN /\ buffersize' = Word(size - n + limit)
                   /\ block' = Copied(Fresh(shrunk), 0, Remaining(n))
                   /\ fault' = IF size - n > shrunk THEN "overrun" ELSE "none"
              ELSE /\ block' = Copied(block, 0, Remaining(n))
                   /\ UNCHANGED <<buffersize, fault>>
    BY DEF AutomemEraseEx
  <2> HIDE DEF m
  <2> QED BY <1>3, <2>1
<1> HIDE DEF m
<1>5. /\ buffersize' \in 0..Words - 1 /\ buffersize' # 0 /\ fault' = "none"
      /\ block' \in Seq(Cell) /\ Len(block') = buffersize'
      /\ size - n <= buffersize'
      /\ \A i \in 1..size - n : block'[i] = block[n + i] /\ block'[i] \in Byte
  <2>1. CASE buffersize > m
    <3>1. Fresh(m) \in Seq(Cell) /\ Len(Fresh(m)) = m
      BY <1>2, FreshIsBlock
    <3>2. /\ block' = Copied(Fresh(m), 0, Remaining(n)) /\ buffersize' = m
          /\ fault' = "none"
      BY <1>1, <1>2, <1>4, <2>1
    <3>3. size - n <= Len(Fresh(m))
      BY <1>2, <3>1
    <3>4. /\ block' \in Seq(Cell) /\ Len(block') = Len(Fresh(m))
          /\ \A i \in 1..size - n : block'[i] = block[n + i] /\ block'[i] \in Byte
      BY <1>1, <3>1, <3>2, <3>3, MovedBytes
    <3> QED BY <1>2, <3>1, <3>2, <3>4
  <2>2. CASE ~(buffersize > m)
    <3>1. /\ block' = Copied(block, 0, Remaining(n)) /\ buffersize' = buffersize
          /\ fault' = "none"
      BY <1>1, <1>4, <2>2
    <3>2. size - n <= Len(block)
      BY <1>1
    <3>3. /\ block' \in Seq(Cell) /\ Len(block') = Len(block)
          /\ \A i \in 1..size - n : block'[i] = block[n + i] /\ block'[i] \in Byte
      BY <1>1, <3>1, <3>2, MovedBytes
    <3> QED BY <1>1, <3>1, <3>2, <3>3
  <2> QED BY <2>1, <2>2
<1>6. BufferInv'
  <2>1. size - n \in 0..buffersize' /\ size - n <= MaxContent
    BY <1>1, <1>5
  <2> QED BY <1>1, <1>5, <2>1 DEF BufferInv
<1>7. Content' = SubSeq(Content, n + 1, Len(Content))
  BY <1>1, <1>5, ContentMoved
<1> QED BY <1>1, <1>6, <1>7

\* A new block, which automem_init, automem_clean and automem_erase_ex take.
LEMMA NewBlock ==
  ASSUME BufferInv, NEW n \in 0..Words - 1, New(n), owner' = "live", fault' = fault
  PROVE  BufferInv' /\ Content' = <<>>
<1> DEFINE m == InitialSize(n)
<1>1. m \in 1..Words - 1 /\ m \in Nat /\ Words \in Nat /\ MaxContent \in Nat
  BY AutomemAssumption DEF InitialSize
<1>2. size' = 0 /\ buffersize' = m /\ block' = Fresh(m)
  BY DEF New
<1> HIDE DEF m
<1>3. block' \in Seq(Cell) /\ Len(block') = m
  BY <1>1, <1>2, FreshIsBlock
<1>4. 0 \in 0..m /\ 0 <= MaxContent /\ \A i \in 1..0 : FALSE
  BY <1>1
<1>5. BufferInv'
  BY <1>1, <1>2, <1>3, <1>4 DEF BufferInv
<1>6. Content' = SubSeq(block', 1, 0)
  BY <1>2 DEF Content
<1>7. Content' = <<>>
  BY <1>6, SubSeqEmpty
<1> QED BY <1>5, <1>7

\* The other operations drop everything.
LEMMA DropStep ==
  ASSUME BufferInv,
         \/ \E n \in InitSizes : AutomemInit(n)
         \/ AutomemUninit \/ AutomemClean \/ AutomemReset \/ AutomemDetach
         \/ \E n \in EraseSizes, limit \in Limits : AutomemEraseAll(n, limit)
  PROVE  BufferInv' /\ Content' = <<>>
<1>1. /\ InitSizes \subseteq 0..Words - 1 /\ Limits \subseteq 0..Words - 1
      /\ DefaultSize \in 0..Words - 1 /\ MaxContent \in Nat /\ Words \in Nat \ {0}
  BY AutomemAssumption
<1>2. 0 \in Nat /\ 0 <= MaxContent /\ 0 \in 0..Words - 1 /\ \A i \in 1..0 : FALSE
  BY <1>1
<1>3. \A n \in InitSizes : AutomemInit(n) => BufferInv' /\ Content' = <<>>
  BY <1>1, NewBlock DEF AutomemInit
<1>4. AutomemClean => BufferInv' /\ Content' = <<>>
  BY <1>1, NewBlock DEF AutomemClean
<1>5. ASSUME AutomemUninit PROVE BufferInv' /\ Content' = <<>>
  <2>1. /\ size' = 0 /\ buffersize' = 0 /\ block' = <<>> /\ owner' = "null"
        /\ fault' = fault
    BY <1>5 DEF AutomemUninit
  <2>2. <<>> \in Seq(Cell) /\ Len(<<>>) = 0 /\ 0 \in 0..0
    BY EmptySeq
  <2>3. BufferInv'
    BY <1>2, <2>1, <2>2 DEF BufferInv
  <2>4. Content' = <<>>
    BY <2>1 DEF Content
  <2> QED BY <2>3, <2>4
<1>6. ASSUME size' = 0, UNCHANGED <<buffersize, block, owner, fault>>, owner = "live"
      PROVE  BufferInv' /\ Content' = <<>>
  <2>1. 0 \in 0..buffersize
    BY <1>1 DEF BufferInv
  <2>2. BufferInv'
    BY <1>2, <1>6, <2>1 DEF BufferInv
  <2>3. Content' = SubSeq(block, 1, 0)
    BY <1>6 DEF Content
  <2>4. Content' = <<>>
    BY <2>3, SubSeqEmpty
  <2> QED BY <2>2, <2>4
<1>7. AutomemReset => BufferInv' /\ Content' = <<>>
  BY <1>6 DEF AutomemReset
<1>8. ASSUME AutomemDetach PROVE BufferInv' /\ Content' = <<>>
  <2>1. owner' = "detached" /\ UNCHANGED <<size, buffersize, block, fault>>
    BY <1>8 DEF AutomemDetach
  <2>2. BufferInv'
    BY <2>1 DEF BufferInv
  <2>3. Content' = <<>>
    BY <2>1 DEF Content
  <2> QED BY <2>2, <2>3
<1>9. ASSUME NEW n \in EraseSizes, NEW limit \in Limits, AutomemEraseAll(n, limit)
      PROVE  BufferInv' /\ Content' = <<>>
  <2>1. owner = "live" /\ UNCHANGED <<owner, fault>>
    BY <1>9 DEF AutomemEraseAll
  <2>2. CASE buffersize > limit
    <3>1. New(limit)
      BY <1>9, <2>2 DEF AutomemEraseAll
    <3> QED BY <1>1, <2>1, <3>1, NewBlock
  <2>3. CASE ~(buffersize > limit)
    <3>1. size' = 0 /\ UNCHANGED <<buffersize, block>>
      BY <1>9, <2>3 DEF AutomemEraseAll
    <3> QED BY <1>6, <2>1, <3>1
  <2> QED BY <2>2, <2>3
<1> QED BY <1>3, <1>4, <1>5, <1>7, <1>8, <1>9

-----------------------------------------------------------------------------
(* The specification.                                                      *)

\* Every operation keeps the invariant and pushes, replaces or erases.
LEMMA BufferStep ==
  ASSUME AttachesWhatFits, BufferInv, [Next]_vars
  PROVE  BufferInv' /\ [Queue!Next]_Content
<1>1. Content \in Seq(Byte) /\ Len(Content) \in Nat
  BY ContentBytes, LenProperties
<1>2. ASSUME Content' = <<>> PROVE [Queue!Next]_Content
  <2>1. CASE Len(Content) = 0
    <3>1. Content = <<>>
      BY <1>1, <2>1, EmptySeq
    <3> QED BY <1>2, <3>1
  <2>2. CASE Len(Content) # 0
    <3> DEFINE n == Len(Content)
    <3>1. n \in 1..Len(Content) /\ n + 1 \in Int /\ n \in Int /\ n < n + 1
      BY <1>1, <2>2
    <3>2. SubSeq(Content, n + 1, n) = <<>>
      <4> HIDE DEF n
      <4> QED BY <3>1, SubSeqEmpty
    <3>3. Queue!Erase(n)
      BY <1>2, <3>2 DEF Queue!Erase
    <3> QED BY <3>1, <3>3 DEF Queue!Next
  <2> QED BY <2>1, <2>2
<1>3. ASSUME NEW n \in Nat, Content' = SubSeq(Content, n + 1, Len(Content)),
             n <= Len(Content)
      PROVE  [Queue!Next]_Content
  <2>1. CASE n = 0
    <3>1. SubSeq(Content, 1, Len(Content)) = Content
      BY <1>1, SubSeqFull
    <3> QED BY <1>3, <2>1, <3>1
  <2>2. CASE n # 0
    <3>1. n \in 1..Len(Content)
      BY <1>1, <1>3, <2>2
    <3>2. Queue!Erase(n)
      BY <1>3 DEF Queue!Erase
    <3> QED BY <3>1, <3>2 DEF Queue!Next
  <2> QED BY <2>1, <2>2
<1>4. EraseSizes \subseteq Nat
  BY AutomemAssumption
<1>5. ASSUME NEW n \in EraseSizes, AutomemErase(n)
      PROVE  BufferInv' /\ [Queue!Next]_Content
  <2>1. BufferInv' /\ Content' = IF n < size THEN SubSeq(Content, n + 1, Len(Content))
                                            ELSE <<>>
    BY <1>4, <1>5, EraseStep
  <2>2. size = Len(Content) /\ size \in Nat
    BY <1>1, <1>5, ContentBytes DEF AutomemErase
  <2>3. CASE n < size
    <3>1. n \in Nat /\ n <= Len(Content)
      BY <1>4, <2>2, <2>3
    <3> QED BY <1>3, <2>1, <2>3, <3>1
  <2>4. CASE ~(n < size)
    BY <1>2, <2>1, <2>4
  <2> QED BY <2>3, <2>4
<1>6. ASSUME NEW n \in EraseSizes, NEW limit \in Limits, AutomemEraseEx(n, limit)
      PROVE  BufferInv' /\ [Queue!Next]_Content
  <2>1. BufferInv' /\ n < size /\ Content' = SubSeq(Content, n + 1, Len(Content))
    BY <1>4, <1>6, EraseExStep
  <2>2. size = Len(Content) /\ size \in Nat
    BY <1>1, <1>6, ContentBytes DEF AutomemEraseEx
  <2>3. n \in Nat /\ n <= Len(Content)
    BY <1>4, <2>1, <2>2
  <2> QED BY <1>3, <2>1, <2>3
<1>7. ASSUME NEW s \in Bytes, AutomemAppend(s)
      PROVE  BufferInv' /\ [Queue!Next]_Content
  BY <1>7, AppendStep DEF Queue!Next, Queue!Push
<1>8. ASSUME NEW s \in Bytes, AutomemAttach(s)
      PROVE  BufferInv' /\ [Queue!Next]_Content
  BY <1>8, AttachStep DEF Queue!Next, Queue!Replace
<1>9. CASE UNCHANGED vars
  <2>1. BufferInv'
    BY <1>9 DEF vars, BufferInv
  <2>2. Content' = Content
    BY <1>9 DEF vars, Content
  <2> QED BY <2>1, <2>2
<1> QED BY <1>2, <1>5, <1>6, <1>7, <1>8, <1>9, DropStep DEF Next

LEMMA BufferInit ==
  ASSUME Init
  PROVE  BufferInv /\ Content = <<>>
<1>1. /\ <<>> \in Seq(Cell) /\ Len(<<>>) = 0 /\ 0 \in 0..0 /\ \A i \in 1..0 : FALSE
  BY EmptySeq
<1>2. 0 \in 0..Words - 1 /\ 0 <= MaxContent
  BY AutomemAssumption
<1> QED BY <1>1, <1>2 DEF Init, BufferInv, Content

THEOREM BufferIsSound ==
  ASSUME AttachesWhatFits
  PROVE  Spec => []BufferInv
<1>1. Init => BufferInv
  BY BufferInit
<1>2. BufferInv /\ [Next]_vars => BufferInv'
  BY BufferStep
<1> QED BY <1>1, <1>2, PTL DEF Spec

\* The content is in the block, whose size buffersize is, and was written by
\* the application.
THEOREM ContentStaysInBlock ==
  ASSUME AttachesWhatFits
  PROVE  Spec => []ContentIsInBlock
<1>1. BufferInv => ContentIsInBlock
  <2> SUFFICES ASSUME BufferInv PROVE ContentIsInBlock
    OBVIOUS
  <2>1. /\ buffersize = Len(block) /\ size \in 0..buffersize /\ fault = "none"
        /\ buffersize \in 0..Words - 1 /\ Words \in Nat
        /\ owner \in {"none", "live", "null", "detached"}
    BY AutomemAssumption DEF BufferInv
  <2>2. size \in 0..Words - 1 /\ size <= buffersize
    BY <2>1
  <2>3. \A i \in 1..size : block[i] # Junk
    BY AutomemAssumption DEF BufferInv
  <2> QED BY <2>1, <2>2, <2>3 DEF ContentIsInBlock, TypeOK
<1> QED BY <1>1, BufferIsSound, PTL

\* No operation writes outside the block, and the doubling loop ends.
THEOREM NothingOverruns ==
  ASSUME AttachesWhatFits
  PROVE  Spec => []NeverOverruns
<1>1. BufferInv => NeverOverruns
  BY DEF BufferInv, NeverOverruns
<1> QED BY <1>1, BufferIsSound, PTL

\* Through growth, shrinking and moves the content is what was appended and
\* not erased.
THEOREM BytesAreKept ==
  ASSUME AttachesWhatFits
  PROVE  Spec => ImplementsByteQueue
<1>1. Init => Queue!Init
  BY BufferInit DEF Queue!Init
<1>2. BufferInv /\ [Next]_vars => [Queue!Next]_Content
  BY BufferStep
<1> QED BY <1>1, <1>2, BufferIsSound, PTL DEF Spec, ImplementsByteQueue, Queue!Spec
=============================================================================
