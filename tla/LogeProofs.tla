------------------------------ MODULE LogeProofs ------------------------------
(***************************************************************************)
(* Proofs about Loge, for all texts, paths, names and buffer sizes.        *)
(*                                                                         *)
(* The extra block only grows, and each of its texts is followed by the    *)
(* first NUL behind its start: what holds of a text when it is written     *)
(* still holds when the item is read.                                      *)
(***************************************************************************)
EXTENDS Loge, TableOpsTheorems

\* what the extra block is made of
Char == Byte \cup {Nul}

\* the text s is in the block x behind offset, ended by NUL
Holds(x, offset, s) ==
  /\ offset \in Nat
  /\ offset + Len(s) + 1 <= Len(x)
  /\ \A i \in 1..Len(s) : x[offset + i] = s[i]
  /\ x[offset + Len(s) + 1] = Nul

\* y is x, or x with more behind it
Grown(x, y) ==
  /\ Len(x) <= Len(y)
  /\ \A i \in 1..Len(x) : y[i] = x[i]

-----------------------------------------------------------------------------
(* Least and greatest elements.                                            *)

\* Min is the least element of a set that has one.
LEMMA MinIs ==
  ASSUME NEW S \in SUBSET Int, NEW m \in S, \A n \in S : m <= n
  PROVE  Min(S) = m
<1>1. Min(S) \in S /\ \A n \in S : Min(S) <= n
  BY DEF Min
<1>2. Min(S) <= m /\ m <= Min(S) /\ Min(S) \in Int /\ m \in Int
  BY <1>1
<1> QED BY <1>2

\* Max is the greatest element of a set that has one.
LEMMA MaxIs ==
  ASSUME NEW S \in SUBSET Int, NEW m \in S, \A n \in S : m >= n
  PROVE  Max(S) = m
<1>1. Max(S) \in S /\ \A n \in S : Max(S) >= n
  BY DEF Max
<1>2. Max(S) >= m /\ m >= Max(S) /\ Max(S) \in Int /\ m \in Int
  BY <1>1
<1> QED BY <1>2

\* The smaller of two numbers.
LEMMA MinOfTwo ==
  ASSUME NEW a \in Int, NEW b \in Int
  PROVE  Min({a, b}) = IF a <= b THEN a ELSE b
<1>1. CASE a <= b
  BY <1>1, MinIs
<1>2. CASE ~(a <= b)
  <2>1. Min({a, b}) = b
    BY <1>2, MinIs
  <2> QED BY <1>2, <2>1
<1> QED BY <1>1, <1>2

\* A set of numbers with a bound has a greatest one.
LEMMA MaxOfBounded ==
  ASSUME NEW S \in SUBSET Nat, S # {}, NEW b \in Nat, \A n \in S : n <= b
  PROVE  Max(S) \in S /\ \A n \in S : n <= Max(S)
<1> DEFINE T == {m \in Nat : \A n \in S : n <= m}
<1>1. PICK m \in T : \A n \in T : m <= n
  <2>1. T \in SUBSET Nat /\ b \in T
    OBVIOUS
  <2> HIDE DEF T
  <2> QED BY <2>1, LeastNumber
<1>2. m \in S
  <2> SUFFICES ASSUME m \notin S PROVE FALSE
    OBVIOUS
  <2>1. m # 0
    <3>1. PICK n \in S : n # m /\ n <= m
      BY <1>1
    <3> QED BY <3>1
  <2>2. m - 1 \in T
    BY <1>1, <2>1
  <2> QED BY <1>1, <2>2
<1>3. Max(S) = m
  BY <1>1, <1>2, MaxIs
<1> QED BY <1>1, <1>2, <1>3

-----------------------------------------------------------------------------
(* Texts in the block.                                                     *)

\* A text and its NUL behind what is there.
LEMMA TerminatedProperties ==
  ASSUME NEW x \in Seq(Char), NEW s \in Seq(Byte)
  PROVE  /\ Terminated(x, s) \in Seq(Char)
         /\ Len(Terminated(x, s)) = Len(x) + Len(s) + 1
         /\ Grown(x, Terminated(x, s))
         /\ Holds(Terminated(x, s), Len(x), s)
<1> DEFINE a == Append(s, Nul)
           t == x \o a
<1>1. s \in Seq(Char)
  BY SeqMonotonic DEF Char
<1>2. Nul \in Char
  BY DEF Char
<1>3. /\ a \in Seq(Char)
      /\ Len(a) = Len(s) + 1
      /\ \A i \in 1..Len(s) : a[i] = s[i]
      /\ a[Len(s) + 1] = Nul
  BY <1>1, <1>2, AppendProperties
<1>4. Len(s) \in Nat /\ Len(x) \in Nat
  BY LenProperties
<1> HIDE DEF a
<1>5. /\ t \in Seq(Char)
      /\ Len(t) = Len(x) + Len(a)
      /\ \A i \in 1..Len(x) + Len(a) : t[i] = IF i <= Len(x) THEN x[i] ELSE a[i - Len(x)]
  BY <1>3, ConcatProperties
<1> HIDE DEF t
<1>6. Grown(x, t)
  BY <1>3, <1>4, <1>5 DEF Grown
<1>7. Holds(t, Len(x), s)
  <2>1. ASSUME NEW i \in 1..Len(s) PROVE t[Len(x) + i] = s[i]
    <3>1. Len(x) + i \in 1..Len(x) + Len(a) /\ ~(Len(x) + i <= Len(x))
          /\ Len(x) + i - Len(x) = i
      BY <1>3, <1>4
    <3> QED BY <1>3, <1>5, <3>1
  <2>2. t[Len(x) + Len(s) + 1] = Nul
    <3>1. /\ Len(x) + Len(s) + 1 \in 1..Len(x) + Len(a)
          /\ ~(Len(x) + Len(s) + 1 <= Len(x))
          /\ Len(x) + Len(s) + 1 - Len(x) = Len(s) + 1
      BY <1>3, <1>4
    <3> QED BY <1>3, <1>5, <3>1
  <2>3. Len(x) + Len(s) + 1 <= Len(t)
    BY <1>3, <1>4, <1>5
  <2> QED BY <1>4, <2>1, <2>2, <2>3 DEF Holds
<1>8. Terminated(x, s) = t
  BY DEF Terminated, t, a
<1> QED BY <1>3, <1>4, <1>5, <1>6, <1>7, <1>8

\* What a block holds it still holds when it has grown.
LEMMA GrownHolds ==
  ASSUME NEW x \in Seq(Char), NEW y \in Seq(Char), Grown(x, y),
         NEW offset, NEW s \in Seq(Byte), Holds(x, offset, s)
  PROVE  Holds(y, offset, s)
<1>1. Len(x) \in Nat /\ Len(y) \in Nat /\ Len(s) \in Nat
  BY LenProperties
<1>2. offset \in Nat /\ offset + Len(s) + 1 <= Len(x) /\ Len(x) <= Len(y)
  BY DEF Holds, Grown
<1>3. ASSUME NEW i \in 1..Len(s) PROVE y[offset + i] = s[i]
  <2>1. offset + i \in 1..Len(x)
    BY <1>1, <1>2
  <2> QED BY <2>1 DEF Holds, Grown
<1>4. y[offset + Len(s) + 1] = Nul
  <2>1. offset + Len(s) + 1 \in 1..Len(x)
    BY <1>1, <1>2
  <2> QED BY <2>1 DEF Holds, Grown
<1> QED BY <1>1, <1>2, <1>3, <1>4 DEF Holds

\* Growing twice is growing.
LEMMA GrownTwice ==
  ASSUME NEW x \in Seq(Char), NEW y \in Seq(Char), NEW z \in Seq(Char),
         Grown(x, y), Grown(y, z)
  PROVE  Grown(x, z)
<1>1. Len(x) \in Nat /\ Len(y) \in Nat /\ Len(z) \in Nat
  BY LenProperties
<1> QED BY <1>1 DEF Grown

\* A block is itself grown by nothing.
LEMMA GrownSelf ==
  ASSUME NEW x \in Seq(Char)
  PROVE  Grown(x, x)
<1>1. Len(x) \in Nat
  BY LenProperties
<1> QED BY <1>1 DEF Grown

\* The reader finds the text that is there: no byte of it is NUL.
LEMMA HoldsReads ==
  ASSUME NEW x \in Seq(Char), NEW offset, NEW s \in Seq(Byte), Holds(x, offset, s)
  PROVE  /\ StringIn(x, offset) = s
         /\ SubSeq(x, offset + 1, offset + Len(s)) = s
<1>1. Nul \notin Byte
  BY LogeAssumption DEF ConstantsOK
<1>2. /\ Len(x) \in Nat /\ DOMAIN x = 1..Len(x)
      /\ Len(s) \in Nat /\ s \in [1..Len(s) -> Byte]
  BY LenProperties
<1>3. /\ offset \in Nat
      /\ offset + Len(s) + 1 <= Len(x)
      /\ \A i \in 1..Len(s) : x[offset + i] = s[i]
      /\ x[offset + Len(s) + 1] = Nul
  BY DEF Holds
<1> DEFINE nuls == {i \in DOMAIN x : i > offset /\ x[i] = Nul}
           nul == offset + Len(s) + 1
<1>4. nul \in nuls /\ nuls \in SUBSET Int
  BY <1>2, <1>3
<1>5. ASSUME NEW i \in nuls PROVE nul <= i
  <2> SUFFICES ASSUME i < nul PROVE FALSE
    BY <1>2, <1>3
  <2>1. i - offset \in 1..Len(s) /\ offset + (i - offset) = i
    BY <1>2, <1>3
  <2>2. x[i] = s[i - offset]
    BY <1>3, <2>1
  <2> QED BY <1>1, <1>2, <2>1, <2>2
<1>6. Min(nuls) = nul
  <2> HIDE DEF nuls, nul
  <2> QED BY <1>4, <1>5, MinIs
<1>7. StringIn(x, offset) = SubSeq(x, offset + 1, nul - 1)
  BY <1>6 DEF StringIn
<1>8. nul - 1 = offset + Len(s)
  BY <1>2, <1>3
<1> DEFINE read == SubSeq(x, offset + 1, offset + Len(s))
<1>9. /\ read \in Seq(Char)
      /\ Len(read) = Len(s)
      /\ \A i \in 1..Len(s) : read[i] = x[offset + i]
  <2>1. \A i \in offset + 1..offset + Len(s) : x[i] \in Char
    BY <1>2, <1>3, ElementOfSeq
  <2>2. offset + 1 \in Int /\ offset + Len(s) \in Int
        /\ (offset + Len(s)) - (offset + 1) + 1 = Len(s)
        /\ (~(offset + 1 <= offset + Len(s)) => Len(s) = 0)
    BY <1>2, <1>3
  <2>3. /\ read \in Seq(Char)
        /\ Len(read) = IF offset + 1 <= offset + Len(s)
                         THEN (offset + Len(s)) - (offset + 1) + 1 ELSE 0
        /\ \A i \in 1..(offset + Len(s)) - (offset + 1) + 1 :
             read[i] = x[offset + 1 + i - 1]
    BY <2>1, <2>2, SubSeqProperties
  <2>4. \A i \in 1..Len(s) : offset + 1 + i - 1 = offset + i
    BY <1>2, <1>3
  <2> HIDE DEF read
  <2> QED BY <2>2, <2>3, <2>4
<1>10. read = s
  <2>1. s \in Seq(Char)
    BY SeqMonotonic DEF Char
  <2> HIDE DEF read
  <2> QED BY <1>3, <1>9, <2>1, SeqEqual
<1> QED BY <1>7, <1>8, <1>10

-----------------------------------------------------------------------------
(* Writing a text.                                                         *)

\* what may be given as a text: no text, or bytes
MaybeText == Seq(Byte) \cup {NULL}

\* The text of a parameter.
LEMMA TextTyping ==
  ASSUME NEW t \in MaybeText
  PROVE  Text(t) \in Seq(Byte) /\ Len(Text(t)) \in Nat
<1>1. Text(t) \in Seq(Byte)
  BY EmptySeq DEF Text, MaybeText
<1> QED BY <1>1, LenProperties

\* A text that starts with the first byte of a character is cut between
\* two: s is the longest part of the bytes copied that ends there, and all
\* of the text when there is room for it and its NUL.
LEMMA CutProperties ==
  ASSUME NEW t \in Seq(Byte), NEW m \in 1..(Len(t) + 1)
  PROVE  LET copied == SubSeq(Append(t, Nul), 1, m)
             s      == SubSeq(copied, 1, Cut(copied) - 1)
         IN  /\ s \in Seq(Byte)
             /\ Len(s) < m
             /\ m = Len(t) + 1 => s = t
             /\ IsPrefix(s, t)
             /\ (t # <<>> => t[1] # Cont) => IsTruncated(s, t)
<1> DEFINE a == Append(t, Nul)
           copied == SubSeq(a, 1, m)
           starts == {i \in DOMAIN copied : copied[i] # Cont} \cup {1}
           k == Cut(copied)
           s == SubSeq(copied, 1, k - 1)
<1>1. Len(t) \in Nat /\ m \in Nat /\ 1 <= m /\ m <= Len(t) + 1
  BY LenProperties
<1>2. t \in Seq(Char) /\ Nul \in Char
  BY SeqMonotonic DEF Char
<1>3. /\ a \in Seq(Char)
      /\ Len(a) = Len(t) + 1
      /\ \A i \in 1..Len(t) : a[i] = t[i]
      /\ a[Len(t) + 1] = Nul
  BY <1>2, AppendProperties
<1>4. /\ copied \in Seq(Char)
      /\ Len(copied) = m
      /\ \A i \in 1..m : copied[i] = a[i]
  <2> HIDE DEF a
  <2>1. \A i \in 1..m : a[i] \in Char
    BY <1>1, <1>3, ElementOfSeq
  <2>2. /\ copied \in Seq(Char)
        /\ Len(copied) = IF 1 <= m THEN m - 1 + 1 ELSE 0
        /\ \A i \in 1..m - 1 + 1 : copied[i] = a[1 + i - 1]
    BY <2>1, <1>1, SubSeqProperties
  <2>3. m - 1 + 1 = m /\ \A i \in 1..m : 1 + i - 1 = i
    BY <1>1
  <2> HIDE DEF copied
  <2> QED BY <1>1, <2>2, <2>3
<1>5. DOMAIN copied = 1..m
  <2> HIDE DEF copied
  <2> QED BY <1>4, LenProperties
<1>6. k \in starts /\ k \in 1..m /\ \A i \in starts : i <= k
  <2>1. k = Max(starts)
    BY DEF Cut
  <2> HIDE DEF copied, k
  <2>2. starts \in SUBSET Nat /\ starts # {} /\ \A i \in starts : i \in 1..m
    BY <1>1, <1>5
  <2>3. \A i \in starts : i <= m
    BY <2>2
  <2> HIDE DEF starts
  <2> QED BY <1>1, <2>1, <2>2, <2>3, MaxOfBounded
<1> HIDE DEF a, copied, k
<1>7. \A i \in 1..k - 1 : copied[i] = t[i] /\ i \in 1..Len(t)
  <2> SUFFICES ASSUME NEW i \in 1..k - 1 PROVE copied[i] = t[i] /\ i \in 1..Len(t)
    OBVIOUS
  <2>1. i \in 1..m /\ i \in 1..Len(t)
    BY <1>1, <1>6
  <2> QED BY <1>3, <1>4, <2>1
<1>8. /\ s \in Seq(Byte)
      /\ Len(s) = k - 1
      /\ \A i \in 1..k - 1 : s[i] = t[i]
  <2>1. \A i \in 1..k - 1 : copied[i] \in Byte
    BY <1>7, ElementOfSeq
  <2>2. k - 1 \in Int /\ (k - 1) - 1 + 1 = k - 1 /\ (~(1 <= k - 1) => k - 1 = 0)
        /\ \A i \in 1..k - 1 : 1 + i - 1 = i
    BY <1>6
  <2>3. /\ s \in Seq(Byte)
        /\ Len(s) = IF 1 <= k - 1 THEN (k - 1) - 1 + 1 ELSE 0
        /\ \A i \in 1..(k - 1) - 1 + 1 : s[i] = copied[1 + i - 1]
    BY <2>1, <2>2, SubSeqProperties
  <2> HIDE DEF s
  <2> QED BY <1>7, <2>2, <2>3
<1> HIDE DEF s
<1>9. Len(s) < m
  BY <1>1, <1>6, <1>8
<1>10. ASSUME m = Len(t) + 1 PROVE s = t
  <2>1. m \in starts
    BY <1>1, <1>3, <1>4, <1>5, <1>10 DEF Nul, Cont
  <2>2. k = m
    BY <1>6, <2>1
  <2>3. Len(s) = Len(t) /\ \A i \in 1..Len(s) : s[i] = t[i]
    BY <1>1, <1>8, <1>10, <2>2
  <2> QED BY <1>8, <2>3, SeqEqual
<1>11. IsPrefix(s, t)
  <2>1. Len(s) <= Len(t)
    BY <1>1, <1>6, <1>8
  <2>2. SubSeq(s, 1, Len(s)) = SubSeq(t, 1, Len(s))
    <3>1. \A i \in 1..Len(s) : s[i] \in Byte /\ t[i] \in Byte
      BY <1>7, <1>8, ElementOfSeq
    <3>2. Len(s) \in Int /\ Len(s) - 1 + 1 = Len(s) /\ \A i \in 1..Len(s) : 1 + i - 1 = i
      BY <1>6, <1>8
    <3> DEFINE u == SubSeq(s, 1, Len(s))
               v == SubSeq(t, 1, Len(s))
    <3>3. /\ u \in Seq(Byte)
          /\ Len(u) = IF 1 <= Len(s) THEN Len(s) - 1 + 1 ELSE 0
          /\ \A i \in 1..Len(s) - 1 + 1 : u[i] = s[1 + i - 1]
      BY <3>1, <3>2, SubSeqProperties
    <3>4. /\ v \in Seq(Byte)
          /\ Len(v) = IF 1 <= Len(s) THEN Len(s) - 1 + 1 ELSE 0
          /\ \A i \in 1..Len(s) - 1 + 1 : v[i] = t[1 + i - 1]
      BY <3>1, <3>2, SubSeqProperties
    <3> HIDE DEF u, v
    <3>5. \A i \in 1..Len(s) : u[i] = v[i]
      BY <1>8, <3>2, <3>3, <3>4
    <3>6. Len(u) = Len(v) /\ \A i \in 1..Len(u) : i \in 1..Len(s)
      BY <3>2, <3>3, <3>4
    <3>7. u = v
      BY <3>3, <3>4, <3>5, <3>6, SeqEqual
    <3> QED BY <3>7 DEF u, v
  <2> QED BY <2>1, <2>2 DEF IsPrefix
<1>12. ASSUME t # <<>> => t[1] # Cont PROVE IsTruncated(s, t)
  <2>1. ASSUME s # t PROVE t[Len(s) + 1] # Cont
    <3>1. k <= Len(t)
      <4> SUFFICES ASSUME ~(k <= Len(t)) PROVE FALSE
        OBVIOUS
      <4>1. Len(s) = Len(t) /\ \A i \in 1..Len(s) : s[i] = t[i]
        BY <1>1, <1>6, <1>8
      <4> QED BY <1>8, <2>1, <4>1, SeqEqual
    <3>2. k \in 1..Len(t) /\ Len(s) + 1 = k
      BY <1>1, <1>6, <1>8, <3>1
    <3>3. copied[k] = t[k]
      BY <1>3, <1>4, <1>6, <3>2
    <3>4. CASE k = 1
      <4>1. t # <<>>
        BY <3>2, EmptySeq
      <4> QED BY <1>12, <3>2, <3>4, <4>1
    <3>5. CASE k # 1
      BY <1>6, <3>2, <3>3, <3>5
    <3> QED BY <3>4, <3>5
  <2> QED BY <1>11, <2>1 DEF IsTruncated
<1> QED BY <1>8, <1>9, <1>10, <1>11, <1>12 DEF s, k, copied, a

\* A text is itself cut by nothing.
LEMMA WholeIsTruncated ==
  ASSUME NEW s \in Seq(Byte)
  PROVE  IsTruncated(s, s)
<1>1. Len(s) <= Len(s)
  BY LenProperties
<1> QED BY <1>1 DEF IsTruncated, IsPrefix

\* write_str where there is room: it appends the text, or a part of it that
\* ends between two characters, and never passes the end.  A text that fits
\* is written whole.
LEMMA WriteStrProperties ==
  ASSUME NEW x \in Seq(Char), NEW end \in Nat, Len(x) < end, NEW t \in MaybeText
  PROVE  \E s \in Seq(Byte) :
           /\ WriteStr(x, end, t) = Terminated(x, s)
           /\ Len(x) + Len(s) + 1 <= end
           /\ IsPrefix(s, Text(t))
           /\ (t \in Texts \cup {NULL} => IsTruncated(s, Text(t)))
           /\ (Len(x) + Len(Text(t)) + 1 <= end => s = Text(t))
<1>1. Len(x) \in Nat
  BY LenProperties
<1>2. CASE t \in {NULL, <<>>}
  <2>1. <<>> \in Seq(Byte) /\ Len(<<>>) = 0
    BY EmptySeq
  <2>2. Text(t) = <<>>
    BY <1>2 DEF Text
  <2>3. WriteStr(x, end, t) = Terminated(x, <<>>)
    BY <1>1, <1>2 DEF WriteStr
  <2>4. Len(x) + 0 + 1 <= end
    BY <1>1
  <2> QED BY <2>1, <2>2, <2>3, <2>4, WholeIsTruncated DEF IsTruncated
<1>3. CASE t \notin {NULL, <<>>}
  <2>1. t \in Seq(Byte) /\ Text(t) = t /\ Len(t) \in Nat
    BY <1>3, LenProperties DEF MaybeText, Text
  <2> DEFINE m == Room(x, end, Len(t) + 1)
             copied == SubSeq(Append(t, Nul), 1, m)
             s == SubSeq(copied, 1, Cut(copied) - 1)
  <2>2. m = IF Len(t) + 1 <= end - Len(x) THEN Len(t) + 1 ELSE end - Len(x)
    BY <1>1, <2>1, MinOfTwo DEF Room
  <2>3. m \in 1..(Len(t) + 1) /\ m <= end - Len(x)
        /\ (Len(x) + Len(t) + 1 <= end => m = Len(t) + 1)
    BY <1>1, <2>1, <2>2
  <2>4. /\ s \in Seq(Byte)
        /\ Len(s) < m
        /\ m = Len(t) + 1 => s = t
        /\ IsPrefix(s, t)
        /\ (t # <<>> => t[1] # Cont) => IsTruncated(s, t)
    <3> HIDE DEF m
    <3> QED BY <2>1, <2>3, CutProperties
  <2>5. WriteStr(x, end, t) = Terminated(x, s)
    BY <1>1, <1>3 DEF WriteStr
  <2> HIDE DEF s, copied, m
  <2>6. Len(x) + Len(s) + 1 <= end
    <3>1. Len(s) \in Nat
      BY <2>4, LenProperties
    <3> QED BY <1>1, <2>3, <2>4, <3>1
  <2>7. t \in Texts \cup {NULL} => IsTruncated(s, t)
    BY <1>3, <2>4, LogeAssumption DEF ConstantsOK
  <2> QED BY <2>1, <2>3, <2>4, <2>5, <2>6, <2>7
<1> QED BY <1>2, <1>3

\* write_str, at the end or before it: it only appends, and never passes the
\* end.
LEMMA WriteStrGrows ==
  ASSUME NEW x \in Seq(Char), NEW end \in Nat, Len(x) <= end, NEW t \in MaybeText
  PROVE  /\ WriteStr(x, end, t) \in Seq(Char)
         /\ Len(WriteStr(x, end, t)) <= end
         /\ Grown(x, WriteStr(x, end, t))
<1>1. Len(x) \in Nat
  BY LenProperties
<1>2. CASE Len(x) = end
  BY <1>1, <1>2, GrownSelf DEF WriteStr
<1>3. CASE Len(x) < end
  <2>1. PICK s \in Seq(Byte) : /\ WriteStr(x, end, t) = Terminated(x, s)
                               /\ Len(x) + Len(s) + 1 <= end
    BY <1>3, WriteStrProperties
  <2> QED BY <2>1, TerminatedProperties
<1> QED BY <1>1, <1>2, <1>3

\* write_bin where there is room: all of the data, or nothing.
LEMMA WriteBinProperties ==
  ASSUME NEW x \in Seq(Char), NEW end \in Nat, Len(x) < end, NEW t \in MaybeText
  PROVE  IF Len(x) + Len(Text(t)) + 1 <= end
           THEN WriteBin(x, end, t) = Terminated(x, Text(t))
           ELSE WriteBin(x, end, t) = NULL
<1>1. Len(x) \in Nat
  BY LenProperties
<1>2. CASE t = NULL
  <2>1. Text(t) = <<>> /\ Len(<<>>) = 0
    BY <1>2, EmptySeq DEF Text
  <2>2. WriteBin(x, end, t) = Terminated(x, <<>>)
    BY <1>1, <1>2 DEF WriteBin
  <2> QED BY <1>1, <2>1, <2>2
<1>3. CASE t # NULL
  <2>1. t \in Seq(Byte) /\ Text(t) = t /\ Len(t) \in Nat
    BY <1>3, LenProperties DEF MaybeText, Text
  <2> DEFINE n == Room(x, end, Len(t) + 1)
  <2>2. n = IF Len(t) + 1 <= end - Len(x) THEN Len(t) + 1 ELSE end - Len(x)
    BY <1>1, <2>1, MinOfTwo DEF Room
  <2>3. WriteBin(x, end, t) = IF n < Len(t) + 1 THEN NULL
                              ELSE Terminated(x, SubSeq(t, 1, n - 1))
    BY <1>1, <1>3 DEF WriteBin
  <2> HIDE DEF n
  <2>4. CASE Len(x) + Len(t) + 1 <= end
    <3>1. ~(n < Len(t) + 1) /\ n - 1 = Len(t)
      BY <1>1, <2>1, <2>2, <2>4
    <3>2. SubSeq(t, 1, Len(t)) = t
      BY <2>1, SubSeqFull
    <3> QED BY <2>1, <2>3, <2>4, <3>1, <3>2
  <2>5. CASE ~(Len(x) + Len(t) + 1 <= end)
    <3>1. n < Len(t) + 1
      BY <1>1, <2>1, <2>2, <2>5
    <3> QED BY <2>1, <2>3, <2>5, <3>1
  <2> QED BY <2>4, <2>5
<1> QED BY <1>2, <1>3

\* A text takes no more than its length and its NUL.
LEMMA WriteStrAtMost ==
  ASSUME NEW x \in Seq(Char), NEW end \in Nat, Len(x) <= end, NEW t \in MaybeText
  PROVE  Len(WriteStr(x, end, t)) <= Len(x) + Len(Text(t)) + 1
<1>1. Len(x) \in Nat
  BY LenProperties
<1>2. Len(Text(t)) \in Nat
  BY TextTyping, LenProperties
<1>3. CASE Len(x) = end
  <2>1. WriteStr(x, end, t) = x
    BY <1>3 DEF WriteStr
  <2> QED BY <1>1, <1>2, <2>1
<1>4. CASE Len(x) < end
  <2>1. PICK s \in Seq(Byte) : /\ WriteStr(x, end, t) = Terminated(x, s)
                               /\ IsPrefix(s, Text(t))
    BY <1>4, WriteStrProperties
  <2>2. Len(s) \in Nat /\ Len(s) <= Len(Text(t))
    BY <2>1, LenProperties DEF IsPrefix
  <2>3. Len(WriteStr(x, end, t)) = Len(x) + Len(s) + 1
    BY <2>1, TerminatedProperties
  <2> QED BY <1>1, <1>2, <2>2, <2>3
<1> QED BY <1>1, <1>3, <1>4

\* A block that is beyond its end is written on, the whole text of it.
LEMMA WrittenBeyond ==
  ASSUME NEW x \in Seq(Char), NEW end \in Nat, Len(x) > end, NEW t \in MaybeText
  PROVE  /\ WriteStr(x, end, t) = Terminated(x, Text(t))
         /\ WriteBin(x, end, t) = Terminated(x, Text(t))
<1>1. Len(x) # end
  BY LenProperties
<1>2. CASE t = NULL
  BY <1>1, <1>2 DEF WriteStr, WriteBin, Text
<1>3. CASE t # NULL
  <2>1. t \in Seq(Byte) /\ Text(t) = t /\ Len(t) \in Nat
    BY <1>3, LenProperties DEF MaybeText, Text
  <2>2. Room(x, end, Len(t) + 1) = Len(t) + 1
    BY DEF Room
  <2>3. WriteBin(x, end, t) = Terminated(x, t)
    <3>1. SubSeq(t, 1, Len(t)) = t
      BY <2>1, SubSeqFull
    <3>2. ~(Len(t) + 1 < Len(t) + 1) /\ (Len(t) + 1) - 1 = Len(t)
      BY <2>1
    <3> QED BY <1>1, <1>3, <2>2, <3>1, <3>2, Zenon DEF WriteBin
  <2>4. WriteStr(x, end, t) = Terminated(x, t)
    <3>1. CASE t = <<>>
      BY <1>1, <3>1 DEF WriteStr
    <3>2. CASE t # <<>>
      <4> DEFINE copied == SubSeq(Append(t, Nul), 1, Len(t) + 1)
                 s == SubSeq(copied, 1, Cut(copied) - 1)
      <4>1. Len(t) + 1 \in 1..(Len(t) + 1)
        BY <2>1
      <4>2. s = t
        BY <2>1, <4>1, CutProperties
      <4>3. WriteStr(x, end, t) = Terminated(x, s)
        BY <1>1, <1>3, <2>2, <3>2, Zenon DEF WriteStr
      <4> QED BY <4>2, <4>3, Zenon
    <3> QED BY <3>1, <3>2
  <2> QED BY <2>1, <2>3, <2>4
<1> QED BY <1>2, <1>3

-----------------------------------------------------------------------------
(* The block of an item, as far as it is written.                          *)

NameBlock(name) == Terminated(<<>>, name)
TagsBlock(name, c) == WriteStr(NameBlock(name), TextLimit, c.tags)
FileBlock(name, c) == WriteStr(TagsBlock(name, c), TextLimit, ShortenPath(c.file))
MsgBlock(name, c) ==
  IF c.binary THEN WriteBin(FileBlock(name, c), ExtraEnd(c.bufsize), c.msg)
              ELSE WriteStr(FileBlock(name, c), ExtraEnd(c.bufsize), c.msg)

\* loge->name, which loge_name keeps within its room
FitName == {name \in Seq(Byte) : Len(name) < NameSize}

\* The sizes, as numbers.
LEMMA Sizes ==
  /\ NameSize \in Nat /\ HeaderSize \in Nat /\ TextLimit \in Nat /\ MaxBuf \in Nat
  /\ 0 < NameSize /\ NameSize < TextLimit
  /\ TextLimit < MaxBuf - HeaderSize
  /\ MaxBuf <= 65536
  /\ BufSizes \subseteq Nat
BY LogeAssumption DEF ConstantsOK

\* A number that fits a byte is not changed by its type.
LEMMA Uint8Identity ==
  ASSUME NEW n \in Nat, n <= TextLimit
  PROVE  Uint8(n) = n
<1>1. TextLimit + 1 \in Nat /\ 0 < TextLimit + 1 /\ n < TextLimit + 1
  BY Sizes
<1>2. ASSUME NEW d \in Nat, n < d PROVE n % d = n
  BY <1>2
<1> QED BY <1>1, <1>2 DEF Uint8

\* A number that fits two bytes is not changed by its type.
LEMMA Uint16Identity ==
  ASSUME NEW n \in Nat, n < 65536
  PROVE  Uint16(n) = n
BY DEF Uint16

\* The room for the block.
LEMMA ExtraEndProperties ==
  ASSUME NEW n \in BufSizes
  PROVE  /\ ExtraEnd(n) \in Nat
         /\ ExtraEnd(n) + HeaderSize <= n
         /\ ExtraEnd(n) + HeaderSize <= MaxBuf
         /\ NameSize < ExtraEnd(n)
         /\ ExtraEnd(n) + HeaderSize = Min({n, MaxBuf})
         /\ (n > HeaderSize + TextLimit => ExtraEnd(n) > TextLimit)
         /\ (n >= HeaderSize + TextLimit => ExtraEnd(n) >= TextLimit)
<1>1. n \in Nat /\ NameSize < n - HeaderSize
  BY LogeAssumption DEF ConstantsOK
<1>2. Min({n, MaxBuf}) = IF n <= MaxBuf THEN n ELSE MaxBuf
  BY <1>1, Sizes, MinOfTwo
<1>3. ExtraEnd(n) = (IF n <= MaxBuf THEN n ELSE MaxBuf) - HeaderSize
  BY <1>2 DEF ExtraEnd
<1> QED BY <1>1, <1>2, <1>3, Sizes

\* The end of a path is made of bytes, like the path.
LEMMA SubSeqTyping ==
  ASSUME NEW s \in Seq(Byte), NEW m \in Nat
  PROVE  SubSeq(s, m + 1, Len(s)) \in Seq(Byte)
<1>1. Len(s) \in Nat
  BY LenProperties
<1>2. \A i \in m + 1..Len(s) : s[i] \in Byte
  BY <1>1, ElementOfSeq
<1>3. m + 1 \in Int /\ Len(s) \in Int
  BY <1>1
<1> QED BY <1>2, <1>3, SubSeqProperties

\* The arguments of a call.
LEMMA CallTyping ==
  ASSUME NEW c \in Calls
  PROVE  /\ c.tags \in Texts \cup {NULL} /\ c.tags \in MaybeText
         /\ c.msg \in Texts \cup {NULL} /\ c.msg \in MaybeText
         /\ c.file \in MaybeText
         /\ c.binary \in BOOLEAN
         /\ c.bufsize \in BufSizes
BY LogeAssumption DEF ConstantsOK, Calls, MaybeText

\* The name of loge_name is cut to its room.
LEMMA NamedTyping ==
  ASSUME NEW name \in Names
  PROVE  Named(name) \in FitName
<1>1. name \in Seq(Byte) /\ Len(name) \in Nat
  BY LogeAssumption, LenProperties DEF ConstantsOK
<1> DEFINE n == Min({Len(name), NameRoom})
<1>2. n \in Nat /\ n <= Len(name) /\ n < NameSize
  BY <1>1, Sizes, MinOfTwo DEF NameRoom
<1> HIDE DEF n
<1>3. \A i \in 1..n : name[i] \in Byte
  BY <1>1, <1>2, ElementOfSeq
<1>4. /\ SubSeq(name, 1, n) \in Seq(Byte)
      /\ Len(SubSeq(name, 1, n)) = IF 1 <= n THEN n - 1 + 1 ELSE 0
  BY <1>2, <1>3, SubSeqProperties
<1>5. Len(SubSeq(name, 1, n)) < NameSize
  BY <1>2, <1>4, Sizes
<1> QED BY <1>4, <1>5 DEF Named, FitName, n

-----------------------------------------------------------------------------
(* The path.                                                               *)

\* the slashes of a path
Slashes(file) == IndicesOf(file, SlashOf(file))

\* The slash before a place, and none between them.
LEMMA SlashBeforeProperties ==
  ASSUME NEW file \in Seq(Byte), NEW p \in Nat
  PROVE  /\ SlashBefore(file, p) \in Nat
         /\ SlashBefore(file, p) = 0 \/ (SlashBefore(file, p) \in Slashes(file)
                                          /\ SlashBefore(file, p) < p)
         /\ \A i \in Slashes(file) : i < p => i <= SlashBefore(file, p)
         /\ Slashes(file) \subseteq 1..Len(file)
<1> DEFINE S == {i \in Slashes(file) : i < p} \cup {0}
<1>1. Slashes(file) \subseteq 1..Len(file) /\ Len(file) \in Nat
  BY LenProperties DEF Slashes, IndicesOf
<1>2. SlashBefore(file, p) = Max(S)
  BY DEF SlashBefore, Slashes
<1>3. S \in SUBSET Nat /\ S # {} /\ \A i \in S : i <= p
  BY <1>1
<1>4. Max(S) \in S /\ \A i \in S : i <= Max(S)
  <2> HIDE DEF S
  <2> QED BY <1>3, MaxOfBounded
<1>5. Max(S) \in Nat
  BY <1>3, <1>4
<1> HIDE DEF Slashes
<1> QED BY <1>1, <1>2, <1>4, <1>5

\* The loop of shorten_path, unrolled.
LEMMA LastKeptUnrolled ==
  ASSUME NEW file
  PROVE  LET s0 == SlashBefore(file, Len(file) + 1)
             s1 == IF s0 \in {0, 1} THEN s0 ELSE SlashBefore(file, s0)
             s2 == IF s1 \in {0, 1} THEN s1 ELSE SlashBefore(file, s1)
         IN  LastKept(file) = s2
<1> DEFINE s0 == SlashBefore(file, Len(file) + 1)
           s1 == IF s0 \in {0, 1} THEN s0 ELSE SlashBefore(file, s0)
           s2 == IF s1 \in {0, 1} THEN s1 ELSE SlashBefore(file, s1)
           IsAt(at) == at = [n \in 0..Directories |->
                               IF n = 0 THEN SlashBefore(file, Len(file) + 1)
                               ELSE IF at[n - 1] \in {0, 1} THEN at[n - 1]
                               ELSE SlashBefore(file, at[n - 1])]
           w == [n \in 0..Directories |-> IF n = 0 THEN s0 ELSE IF n = 1 THEN s1 ELSE s2]
           at == CHOOSE at : IsAt(at)
<1>1. LastKept(file) = at[Directories]
  BY DEF LastKept
<1>2. IsAt(w)
  <2>1. \A n \in 0..Directories : n = 0 \/ n = 1 \/ n = 2
    BY DEF Directories
  <2>2. w[0] = s0 /\ w[1] = s1 /\ w[2] = s2
    BY DEF Directories
  <2> DEFINE v == [n \in 0..Directories |->
                     IF n = 0 THEN SlashBefore(file, Len(file) + 1)
                     ELSE IF w[n - 1] \in {0, 1} THEN w[n - 1]
                     ELSE SlashBefore(file, w[n - 1])]
  <2>3. \A n \in 0..Directories : v[n] = w[n]
    <3>1. v[0] = s0
      BY DEF Directories
    <3>2. v[1] = s1
      BY <2>2 DEF Directories
    <3>3. v[2] = s2
      BY <2>2 DEF Directories
    <3> HIDE DEF v, w
    <3> QED BY <2>1, <2>2, <3>1, <3>2, <3>3
  <2>4. w = v
    BY <2>3
  <2> QED BY <2>4
<1>3. IsAt(at)
  <2> HIDE DEF IsAt, w
  <2> QED BY <1>2
<1> HIDE DEF at
<1>4. at[0] = s0
  BY <1>3 DEF Directories
<1>5. at[1] = s1
  BY <1>3, <1>4 DEF Directories
<1>6. at[2] = s2
  BY <1>3, <1>5 DEF Directories
<1> QED BY <1>1, <1>6 DEF Directories

\* What is left of a path is a text.
LEMMA ShortenPathTyping ==
  ASSUME NEW file \in MaybeText
  PROVE  ShortenPath(file) \in MaybeText
<1>1. CASE file = NULL
  BY <1>1 DEF ShortenPath
<1>2. CASE file # NULL
  <2> DEFINE s0 == SlashBefore(file, Len(file) + 1)
             s1 == IF s0 \in {0, 1} THEN s0 ELSE SlashBefore(file, s0)
             s2 == IF s1 \in {0, 1} THEN s1 ELSE SlashBefore(file, s1)
  <2>1. file \in Seq(Byte) /\ Len(file) + 1 \in Nat
    BY <1>2, LenProperties DEF MaybeText
  <2>2. s0 \in Nat
    BY <2>1, SlashBeforeProperties
  <2> HIDE DEF s0
  <2>3. s1 \in Nat
    BY <2>1, <2>2, SlashBeforeProperties
  <2> HIDE DEF s1
  <2>4. s2 \in Nat
    BY <2>1, <2>3, SlashBeforeProperties
  <2>5. LastKept(file) = s2
    BY LastKeptUnrolled DEF s0, s1
  <2>6. LastKept(file) \in Nat
    BY <2>4, <2>5
  <2> QED BY <1>2, <2>1, <2>6, SubSeqTyping DEF ShortenPath, MaybeText
<1> QED BY <1>1, <1>2

\* shorten_path keeps a path from the earliest of its start and the places
\* behind its slashes with no more than two slashes to follow, one at the
\* start not counted.
LEMMA TwoDirectoriesKept ==
  ASSUME NEW file \in Seq(Byte)
  PROVE  LET starts == {i \in {1} \cup {j + 1 : j \in Slashes(file)} :
                          Cardinality({j \in Slashes(file) : j >= i /\ j > 1}) <= 2}
         IN  ShortenPath(file) = SubSeq(file, Min(starts), Len(file))
<1> DEFINE S == Slashes(file)
           After(i) == {j \in S : j >= i /\ j > 1}
           places == {1} \cup {j + 1 : j \in S}
           starts == {i \in places : Cardinality(After(i)) <= 2}
           s0 == SlashBefore(file, Len(file) + 1)
           s1 == IF s0 \in {0, 1} THEN s0 ELSE SlashBefore(file, s0)
           s2 == IF s1 \in {0, 1} THEN s1 ELSE SlashBefore(file, s1)
<1>1. file # NULL
  BY LogeAssumption, SeqMonotonic DEF ConstantsOK
<1>2. Len(file) \in Nat /\ Len(file) + 1 \in Nat /\ S \subseteq 1..Len(file)
  BY LenProperties, SlashBeforeProperties
<1>3. LastKept(file) = s2
  BY LastKeptUnrolled
<1>4. /\ s0 \in Nat
      /\ s0 = 0 \/ s0 \in S
      /\ \A i \in S : i <= s0
  <2>1. \A i \in S : i < Len(file) + 1
    BY <1>2
  <2>2. /\ s0 \in Nat
        /\ s0 = 0 \/ s0 \in S
        /\ \A i \in S : i < Len(file) + 1 => i <= s0
    BY <1>2, SlashBeforeProperties
  <2> HIDE DEF S, s0
  <2> QED BY <2>1, <2>2
<1>5. s0 \notin {0, 1} => /\ s1 \in Nat
                          /\ s1 = 0 \/ (s1 \in S /\ s1 < s0)
                          /\ \A i \in S : i < s0 => i <= s1
  BY <1>4, SlashBeforeProperties
<1>6. s0 \in {0, 1} => s1 = s0
  OBVIOUS
<1>7. s1 \notin {0, 1} /\ s1 \in Nat
        => /\ s2 \in Nat
           /\ s2 = 0 \/ (s2 \in S /\ s2 < s1)
           /\ \A i \in S : i < s1 => i <= s2
  BY SlashBeforeProperties
<1>8. s1 \in {0, 1} => s2 = s1
  OBVIOUS
<1> HIDE DEF s0, s1, s2, S
<1>9. s1 \in Nat
  BY <1>4, <1>5, <1>6
<1>10. ASSUME NEW i PROVE IsFiniteSet(After(i))
  <2>1. IsFiniteSet(1..Len(file))
    BY <1>2, FS_Interval
  <2>2. After(i) \in SUBSET (1..Len(file))
    BY <1>2
  <2> QED BY <2>1, <2>2, FS_Subset
<1>11. IsFiniteSet({s0, s1}) /\ Cardinality({s0, s1}) <= 2
  <2>1. IsFiniteSet({s0}) /\ Cardinality({s0}) = 1
    BY FS_Singleton
  <2>2. /\ IsFiniteSet({s0} \cup {s1})
        /\ Cardinality({s0} \cup {s1}) = IF s1 \in {s0} THEN 1 ELSE 1 + 1
    BY <2>1, FS_AddElement
  <2>3. {s0, s1} = {s0} \cup {s1}
    OBVIOUS
  <2> DEFINE both == {s0} \cup {s1}
  <2>4. IsFiniteSet(both) /\ (Cardinality(both) = 1 \/ Cardinality(both) = 1 + 1)
    <3>1. CASE s1 \in {s0}
      BY <2>2, <3>1, Zenon
    <3>2. CASE s1 \notin {s0}
      BY <2>2, <3>2, Zenon
    <3> QED BY <3>1, <3>2, Zenon
  <2>5. both = {s0, s1}
    BY <2>3, Zenon
  <2> HIDE DEF both
  <2>6. Cardinality(both) <= 2
    BY <2>4
  <2> QED BY <2>4, <2>5, <2>6, Zenon
<1>12. places \in SUBSET Nat /\ 1 \in places /\ \A i \in places : 1 <= i
  BY <1>2
<1> HIDE DEF places
<1>13. starts \in SUBSET Int
  <2> HIDE DEF After
  <2>1. \A i \in starts : i \in places
    OBVIOUS
  <2> HIDE DEF starts
  <2>2. \A i \in places : i \in Int
    BY <1>12
  <2> QED BY <2>1, <2>2
<1>14. CASE s2 \in {0, 1}
  <2>1. After(1) \in SUBSET {s0, s1}
    <3> SUFFICES ASSUME NEW j \in S, j > 1, j # s0, j # s1 PROVE FALSE
      OBVIOUS
    <3>1. j \in Nat /\ j <= s0
      BY <1>2, <1>4
    <3>2. s0 \notin {0, 1} /\ j < s0
      BY <1>4, <3>1
    <3>3. j < s1
      BY <1>5, <1>9, <3>1, <3>2
    <3>4. s1 \notin {0, 1} /\ j <= s2
      BY <1>7, <1>9, <3>1, <3>3
    <3> QED BY <1>14, <3>1, <3>4
  <2>2. Cardinality(After(1)) <= 2
    <3>1. Cardinality(After(1)) <= Cardinality({s0, s1})
      BY <1>11, <2>1, FS_Subset
    <3>2. Cardinality(After(1)) \in Nat /\ Cardinality({s0, s1}) \in Nat
      BY <1>10, <1>11, FS_CardinalityType
    <3> HIDE DEF After
    <3> QED BY <1>11, <3>1, <3>2
  <2>3. Min(starts) = 1
    <3> HIDE DEF After
    <3>1. 1 \in starts /\ \A i \in starts : 1 <= i
      BY <1>12, <2>2
    <3> HIDE DEF starts
    <3> QED BY <1>13, <3>1, MinIs
  <2>4. ShortenPath(file) = file
    BY <1>3, <1>14 DEF ShortenPath
  <2>5. SubSeq(file, 1, Len(file)) = file
    BY SubSeqFull
  <2> QED BY <2>3, <2>4, <2>5 DEF S, places
<1>15. CASE s2 \notin {0, 1}
  <2>1. s1 \notin {0, 1} /\ s0 \notin {0, 1}
    BY <1>6, <1>8, <1>15
  <2>2. /\ s0 \in S /\ s1 \in S /\ s2 \in S
        /\ s0 \in Nat /\ s1 \in Nat /\ s2 \in Nat
        /\ s2 < s1 /\ s1 < s0 /\ 1 < s2
    BY <1>4, <1>5, <1>7, <1>9, <1>15, <2>1
  <2>3. After(s2 + 1) \in SUBSET {s0, s1}
    <3> SUFFICES ASSUME NEW j \in S, j >= s2 + 1, j # s0, j # s1 PROVE FALSE
      OBVIOUS
    <3>1. j \in Nat /\ j < s0
      BY <1>2, <1>4, <2>2
    <3>2. j < s1
      BY <1>5, <2>1, <2>2, <3>1
    <3>3. j <= s2
      BY <1>7, <2>1, <2>2, <3>2
    <3> QED BY <2>2, <3>1, <3>3
  <2>4. Cardinality(After(s2 + 1)) <= 2
    <3>1. Cardinality(After(s2 + 1)) <= Cardinality({s0, s1})
      BY <1>11, <2>3, FS_Subset
    <3>2. Cardinality(After(s2 + 1)) \in Nat /\ Cardinality({s0, s1}) \in Nat
      BY <1>10, <1>11, FS_CardinalityType
    <3> HIDE DEF After
    <3> QED BY <1>11, <3>1, <3>2
  <2>5. ASSUME NEW i \in starts PROVE s2 + 1 <= i
    <3> SUFFICES ASSUME i < s2 + 1 PROVE FALSE
      BY <1>12, <2>2
    <3>1. i \in Nat /\ i <= s2 /\ i <= s1 /\ i <= s0
      BY <1>12, <2>2
    <3>2. {s0, s1, s2} \in SUBSET After(i)
      BY <2>2, <3>1
    <3>3. IsFiniteSet({s0, s1, s2}) /\ Cardinality({s0, s1, s2}) = 3
      <4>1. IsFiniteSet({s0}) /\ Cardinality({s0}) = 1
        BY FS_Singleton
      <4>2. s1 \notin {s0} /\ s2 \notin {s0} \cup {s1}
        BY <2>2
      <4>3. IsFiniteSet({s0} \cup {s1}) /\ Cardinality({s0} \cup {s1}) = 1 + 1
        BY <4>1, <4>2, FS_AddElement
      <4>4. /\ IsFiniteSet(({s0} \cup {s1}) \cup {s2})
            /\ Cardinality(({s0} \cup {s1}) \cup {s2}) = (1 + 1) + 1
        BY <4>2, <4>3, FS_AddElement
      <4>5. (1 + 1) + 1 = 3 /\ ({s0} \cup {s1}) \cup {s2} = {s0, s1, s2}
        OBVIOUS
      <4> QED BY <4>4, <4>5, Zenon
    <3>4. 3 <= Cardinality(After(i))
      BY <1>10, <3>2, <3>3, FS_Subset
    <3>5. Cardinality(After(i)) <= 2 /\ Cardinality(After(i)) \in Nat
      BY <1>10, FS_CardinalityType
    <3> HIDE DEF After
    <3> QED BY <3>4, <3>5
  <2>6. s2 + 1 \in starts
    BY <2>2, <2>4 DEF places
  <2>7. Min(starts) = s2 + 1
    <3> HIDE DEF starts
    <3> QED BY <1>13, <2>5, <2>6, MinIs
  <2>8. ShortenPath(file) = SubSeq(file, s2 + 1, Len(file))
    BY <1>1, <1>3, <1>15 DEF ShortenPath
  <2> QED BY <2>7, <2>8 DEF S, places
<1> QED BY <1>14, <1>15

-----------------------------------------------------------------------------
(* The parts of an item.                                                   *)

\* The first three texts stay within the reach of their offsets, in any
\* buffer, and each block grows from the one before.
LEMMA BlockTyping ==
  ASSUME NEW name \in FitName, NEW c \in Calls
  PROVE  /\ NameBlock(name) \in Seq(Char)
         /\ Len(NameBlock(name)) = Len(name) + 1
         /\ Len(NameBlock(name)) < TextLimit
         /\ Holds(NameBlock(name), 0, name)
         /\ TagsBlock(name, c) \in Seq(Char)
         /\ Len(TagsBlock(name, c)) <= TextLimit
         /\ Grown(NameBlock(name), TagsBlock(name, c))
         /\ FileBlock(name, c) \in Seq(Char)
         /\ Len(FileBlock(name, c)) <= TextLimit
         /\ Grown(TagsBlock(name, c), FileBlock(name, c))
<1>1. name \in Seq(Byte) /\ Len(name) < NameSize /\ Len(name) \in Nat
  BY LenProperties DEF FitName
<1>2. <<>> \in Seq(Char) /\ Len(<<>>) = 0
  BY EmptySeq
<1>3. /\ NameBlock(name) \in Seq(Char)
      /\ Len(NameBlock(name)) = 0 + Len(name) + 1
      /\ Holds(NameBlock(name), 0, name)
  BY <1>1, <1>2, TerminatedProperties DEF NameBlock
<1>4. Len(NameBlock(name)) = Len(name) + 1 /\ Len(NameBlock(name)) < TextLimit
      /\ Len(NameBlock(name)) <= TextLimit
  BY <1>1, <1>3, Sizes
<1>5. /\ TagsBlock(name, c) \in Seq(Char)
      /\ Len(TagsBlock(name, c)) <= TextLimit
      /\ Grown(NameBlock(name), TagsBlock(name, c))
  BY <1>3, <1>4, Sizes, CallTyping, WriteStrGrows DEF TagsBlock
<1>6. /\ FileBlock(name, c) \in Seq(Char)
      /\ Len(FileBlock(name, c)) <= TextLimit
      /\ Grown(TagsBlock(name, c), FileBlock(name, c))
  <2>1. ShortenPath(c.file) \in MaybeText
    BY CallTyping, ShortenPathTyping
  <2> QED BY <1>5, <2>1, Sizes, WriteStrGrows DEF FileBlock
<1> QED BY <1>3, <1>4, <1>5, <1>6

\* The tags are there behind the name, perhaps cut between characters.
LEMMA TagsHeld ==
  ASSUME NEW name \in FitName, NEW c \in Calls
  PROVE  \E s \in Seq(Byte) :
           /\ TagsBlock(name, c) = Terminated(NameBlock(name), s)
           /\ Holds(TagsBlock(name, c), Len(NameBlock(name)), s)
           /\ IsTruncated(s, Text(c.tags))
           /\ (Len(NameBlock(name)) + Len(Text(c.tags)) + 1 <= TextLimit
                 => s = Text(c.tags))
<1>1. /\ NameBlock(name) \in Seq(Char)
      /\ Len(NameBlock(name)) < TextLimit
  BY BlockTyping
<1>2. PICK s \in Seq(Byte) :
        /\ TagsBlock(name, c) = Terminated(NameBlock(name), s)
        /\ IsTruncated(s, Text(c.tags))
        /\ (Len(NameBlock(name)) + Len(Text(c.tags)) + 1 <= TextLimit
              => s = Text(c.tags))
  <2> DEFINE x == NameBlock(name)
             t == c.tags
  <2>1. TagsBlock(name, c) = WriteStr(x, TextLimit, t)
    BY DEF TagsBlock
  <2>2. t \in MaybeText /\ t \in Texts \cup {NULL}
    BY CallTyping
  <2>3. x \in Seq(Char) /\ Len(x) < TextLimit
    BY <1>1
  <2> HIDE DEF x, t
  <2>4. TextLimit \in Nat
    BY Sizes
  <2>5. \E s \in Seq(Byte) :
          /\ WriteStr(x, TextLimit, t) = Terminated(x, s)
          /\ IsTruncated(s, Text(t))
          /\ (Len(x) + Len(Text(t)) + 1 <= TextLimit => s = Text(t))
    BY <2>2, <2>3, <2>4, WriteStrProperties
  <2> QED BY <2>1, <2>5 DEF x, t
<1> QED BY <1>1, <1>2, TerminatedProperties

\* Where there is room behind the first three texts, a text is there as a
\* message, perhaps cut between characters, and binary data is there whole
\* or not at all.
LEMMA MsgHeld ==
  ASSUME NEW name \in FitName, NEW c \in Calls,
         Len(FileBlock(name, c)) < ExtraEnd(c.bufsize)
  PROVE  \/ /\ MsgBlock(name, c) = NULL
            /\ ~(Len(FileBlock(name, c)) + Len(Text(c.msg)) + 1 <= ExtraEnd(c.bufsize))
         \/ \E s \in Seq(Byte) :
              /\ MsgBlock(name, c) = Terminated(FileBlock(name, c), s)
              /\ Len(FileBlock(name, c)) + Len(s) + 1 <= ExtraEnd(c.bufsize)
              /\ IsTruncated(s, Text(c.msg))
              /\ (c.binary => s = Text(c.msg))
              /\ (Len(FileBlock(name, c)) + Len(Text(c.msg)) + 1 <= ExtraEnd(c.bufsize)
                    => s = Text(c.msg))
<1> DEFINE file == FileBlock(name, c)
           end == ExtraEnd(c.bufsize)
<1>1. file \in Seq(Char) /\ end \in Nat
  BY BlockTyping, CallTyping, ExtraEndProperties
<1>2. c.msg \in MaybeText /\ c.msg \in Texts \cup {NULL} /\ c.binary \in BOOLEAN
  BY CallTyping
<1>3. Text(c.msg) \in Seq(Byte)
  BY <1>2, TextTyping
<1>4. CASE c.binary
  <2>1. MsgBlock(name, c) = WriteBin(file, end, c.msg)
    BY <1>4 DEF MsgBlock
  <2>2. IF Len(file) + Len(Text(c.msg)) + 1 <= end
          THEN MsgBlock(name, c) = Terminated(file, Text(c.msg))
          ELSE MsgBlock(name, c) = NULL
    <3> HIDE DEF file, end
    <3> QED BY <1>1, <1>2, <2>1, WriteBinProperties DEF file, end
  <2> QED BY <1>3, <2>2, WholeIsTruncated
<1>5. CASE ~c.binary
  <2>1. MsgBlock(name, c) = WriteStr(file, end, c.msg)
    BY <1>5 DEF MsgBlock
  <2>2. \E s \in Seq(Byte) :
          /\ WriteStr(file, end, c.msg) = Terminated(file, s)
          /\ Len(file) + Len(s) + 1 <= end
          /\ IsTruncated(s, Text(c.msg))
          /\ (Len(file) + Len(Text(c.msg)) + 1 <= end => s = Text(c.msg))
    <3> HIDE DEF file, end
    <3> QED BY <1>1, <1>2, WriteStrProperties DEF file, end
  <2> QED BY <1>5, <2>1, <2>2
<1> QED BY <1>2, <1>4, <1>5

\* The header of an item.
LEMMA SerializedFields ==
  ASSUME NEW name \in FitName, NEW c \in Calls
  PROVE  LET b == Serialized(name, c)
         IN  /\ (MsgBlock(name, c) = NULL => b = None)
             /\ (MsgBlock(name, c) # NULL =>
                   /\ b.extra = MsgBlock(name, c)
                   /\ b.name_offset = 0
                   /\ b.tags_offset = Len(NameBlock(name))
                   /\ b.file_offset = Len(TagsBlock(name, c))
                   /\ b.msg_offset = Len(FileBlock(name, c))
                   /\ b.msg_len = Uint16(Len(MsgBlock(name, c)) - Len(FileBlock(name, c)) - 1)
                   /\ b.size = HeaderSize + Len(MsgBlock(name, c)))
<1> DEFINE b == Serialized(name, c)
           fields == [extra |-> MsgBlock(name, c),
                      name_offset |-> 0,
                      tags_offset |-> Uint8(Len(NameBlock(name))),
                      file_offset |-> Uint8(Len(TagsBlock(name, c))),
                      msg_offset |-> Uint8(Len(FileBlock(name, c))),
                      msg_len |-> Uint16(Len(MsgBlock(name, c)) - Len(FileBlock(name, c)) - 1),
                      size |-> HeaderSize + Len(MsgBlock(name, c))]
<1>1. b = IF MsgBlock(name, c) = NULL THEN None ELSE fields
  BY DEF Serialized, MsgBlock, FileBlock, TagsBlock, NameBlock
<1>2. /\ Len(NameBlock(name)) \in Nat /\ Len(NameBlock(name)) <= TextLimit
      /\ Len(TagsBlock(name, c)) \in Nat /\ Len(TagsBlock(name, c)) <= TextLimit
      /\ Len(FileBlock(name, c)) \in Nat /\ Len(FileBlock(name, c)) <= TextLimit
  BY BlockTyping, LenProperties, Sizes
<1>3. /\ Uint8(Len(NameBlock(name))) = Len(NameBlock(name))
      /\ Uint8(Len(TagsBlock(name, c))) = Len(TagsBlock(name, c))
      /\ Uint8(Len(FileBlock(name, c))) = Len(FileBlock(name, c))
  BY <1>2, Uint8Identity
<1> QED BY <1>1, <1>3

\* A message that is there is found by both ways to read it, and the item is
\* no bigger than the buffer.
LEMMA MsgReads ==
  ASSUME NEW name \in FitName, NEW c \in Calls,
         Len(FileBlock(name, c)) < ExtraEnd(c.bufsize),
         NEW s \in Seq(Byte),
         MsgBlock(name, c) = Terminated(FileBlock(name, c), s),
         Len(FileBlock(name, c)) + Len(s) + 1 <= ExtraEnd(c.bufsize)
  PROVE  LET b == Serialized(name, c)
         IN  /\ b # None
             /\ b.extra = MsgBlock(name, c)
             /\ b.extra \in Seq(Char)
             /\ Grown(FileBlock(name, c), b.extra)
             /\ b.name_offset = 0
             /\ b.tags_offset = Len(NameBlock(name))
             /\ b.file_offset = Len(TagsBlock(name, c))
             /\ StringIn(b.extra, b.msg_offset) = s
             /\ MessageOf(b) = s
<1> DEFINE b == Serialized(name, c)
           file == FileBlock(name, c)
           msg == MsgBlock(name, c)
<1>1. file \in Seq(Char) /\ Len(file) \in Nat /\ Len(s) \in Nat
  BY BlockTyping, LenProperties
<1>2. /\ msg \in Seq(Char)
      /\ Len(msg) = Len(file) + Len(s) + 1
      /\ Grown(file, msg)
      /\ Holds(msg, Len(file), s)
  BY <1>1, TerminatedProperties
<1>3. msg # NULL
  BY <1>2, LogeAssumption DEF ConstantsOK, Char
<1>4. /\ b.extra = msg
      /\ b.name_offset = 0
      /\ b.tags_offset = Len(NameBlock(name))
      /\ b.file_offset = Len(TagsBlock(name, c))
      /\ b.msg_offset = Len(file)
      /\ b.msg_len = Uint16(Len(msg) - Len(file) - 1)
      /\ b.size = HeaderSize + Len(msg)
  BY <1>3, SerializedFields
<1>5. b # None
  <2>1. b.size > 0
    BY <1>1, <1>2, <1>4, Sizes
  <2>2. None.size = 0
    BY DEF None
  <2> HIDE DEF b
  <2> QED BY <2>1, <2>2
<1>6. b.msg_len = Len(s)
  <2>1. Len(msg) - Len(file) - 1 = Len(s)
    BY <1>1, <1>2
  <2>2. Len(s) < 65536
    <3>1. /\ ExtraEnd(c.bufsize) \in Nat
          /\ ExtraEnd(c.bufsize) + HeaderSize <= MaxBuf
      BY CallTyping, ExtraEndProperties
    <3> HIDE DEF file
    <3>2. Len(s) + 1 <= ExtraEnd(c.bufsize)
      BY <1>1, <3>1 DEF file
    <3> QED BY <1>1, <3>1, <3>2, Sizes
  <2> QED BY <1>1, <1>4, <2>1, <2>2, Uint16Identity
<1>7. /\ StringIn(msg, Len(file)) = s
      /\ SubSeq(msg, Len(file) + 1, Len(file) + Len(s)) = s
  BY <1>2, HoldsReads
<1>8. MessageOf(b) = s
  BY <1>4, <1>6, <1>7 DEF MessageOf
<1> QED BY <1>2, <1>4, <1>5, <1>7, <1>8

\* What a reader finds in an item that was made in a buffer with room for
\* the texts before the message.
LEMMA ItemReadsBack ==
  ASSUME NEW name \in FitName, NEW c \in Calls,
         c.bufsize > HeaderSize + TextLimit, Serialized(name, c) # None
  PROVE  LET b == Serialized(name, c)
         IN  /\ StringIn(b.extra, b.name_offset) = name
             /\ IsTruncated(StringIn(b.extra, b.tags_offset), Text(c.tags))
             /\ IsTruncated(MessageOf(b), Text(c.msg))
             /\ (c.binary => MessageOf(b) = Text(c.msg))
             /\ MessageOf(b) = StringIn(b.extra, b.msg_offset)
<1> DEFINE b == Serialized(name, c)
<1>1. Len(FileBlock(name, c)) < ExtraEnd(c.bufsize)
  <2>1. Len(FileBlock(name, c)) <= TextLimit /\ Len(FileBlock(name, c)) \in Nat
    BY BlockTyping, LenProperties
  <2>2. ExtraEnd(c.bufsize) \in Nat /\ ExtraEnd(c.bufsize) > TextLimit
    BY CallTyping, ExtraEndProperties
  <2> QED BY <2>1, <2>2, Sizes
<1>2. MsgBlock(name, c) # NULL
  BY SerializedFields
<1>3. PICK s \in Seq(Byte) :
        /\ MsgBlock(name, c) = Terminated(FileBlock(name, c), s)
        /\ Len(FileBlock(name, c)) + Len(s) + 1 <= ExtraEnd(c.bufsize)
        /\ IsTruncated(s, Text(c.msg))
        /\ (c.binary => s = Text(c.msg))
  BY <1>1, <1>2, MsgHeld
<1>4. /\ b.extra = MsgBlock(name, c)
      /\ b.extra \in Seq(Char)
      /\ Grown(FileBlock(name, c), b.extra)
      /\ b.name_offset = 0
      /\ b.tags_offset = Len(NameBlock(name))
      /\ StringIn(b.extra, b.msg_offset) = s
      /\ MessageOf(b) = s
  BY <1>1, <1>3, MsgReads
<1> HIDE DEF b
<1>5. Grown(TagsBlock(name, c), b.extra) /\ Grown(NameBlock(name), b.extra)
  BY <1>4, BlockTyping, GrownTwice
<1>6. StringIn(b.extra, b.name_offset) = name
  <2>1. name \in Seq(Byte)
    BY DEF FitName
  <2>2. Holds(b.extra, 0, name)
    BY <1>4, <1>5, <2>1, BlockTyping, GrownHolds
  <2> QED BY <1>4, <2>1, <2>2, HoldsReads
<1>7. IsTruncated(StringIn(b.extra, b.tags_offset), Text(c.tags))
  <2>1. PICK t \in Seq(Byte) : /\ Holds(TagsBlock(name, c), Len(NameBlock(name)), t)
                               /\ IsTruncated(t, Text(c.tags))
    BY TagsHeld
  <2>2. Holds(b.extra, Len(NameBlock(name)), t)
    BY <1>4, <1>5, <2>1, BlockTyping, GrownHolds
  <2>3. StringIn(b.extra, Len(NameBlock(name))) = t
    BY <1>4, <2>2, HoldsReads
  <2> QED BY <1>4, <2>1, <2>3
<1> QED BY <1>3, <1>4, <1>6, <1>7 DEF b

\* Texts that fit are in the item, and whole.
LEMMA ItemIsWhole ==
  ASSUME NEW name \in FitName, NEW c \in Calls,
         Len(name) + Len(Text(c.tags)) + Len(Text(ShortenPath(c.file))) + 3 <= TextLimit,
         Len(name) + Len(Text(c.tags)) + Len(Text(ShortenPath(c.file))) + 3
           + Len(Text(c.msg)) + 1 <= ExtraEnd(c.bufsize)
  PROVE  LET b == Serialized(name, c)
         IN  /\ b # None
             /\ StringIn(b.extra, b.tags_offset) = Text(c.tags)
             /\ StringIn(b.extra, b.file_offset) = Text(ShortenPath(c.file))
             /\ MessageOf(b) = Text(c.msg)
<1> DEFINE b == Serialized(name, c)
           path == ShortenPath(c.file)
           named == NameBlock(name)
           tags == TagsBlock(name, c)
           file == FileBlock(name, c)
           end == ExtraEnd(c.bufsize)
<1>1. path \in MaybeText /\ c.tags \in MaybeText /\ c.msg \in MaybeText
  BY CallTyping, ShortenPathTyping
<1>2. /\ Text(path) \in Seq(Byte) /\ Text(c.tags) \in Seq(Byte) /\ Text(c.msg) \in Seq(Byte)
      /\ Len(Text(path)) \in Nat /\ Len(Text(c.tags)) \in Nat /\ Len(Text(c.msg)) \in Nat
  BY <1>1, TextTyping
<1>3. Len(name) \in Nat /\ TextLimit \in Nat /\ end \in Nat
  <2>1. Len(name) \in Nat
    BY LenProperties DEF FitName
  <2>2. end \in Nat
    BY CallTyping, ExtraEndProperties
  <2> QED BY <2>1, <2>2, Sizes
<1>4. /\ named \in Seq(Char) /\ Len(named) = Len(name) + 1
      /\ tags \in Seq(Char)
      /\ file \in Seq(Char) /\ Grown(tags, file)
  BY BlockTyping
<1>5. /\ tags = Terminated(named, Text(c.tags))
      /\ Holds(tags, Len(named), Text(c.tags))
  <2>1. Len(named) + Len(Text(c.tags)) + 1 <= TextLimit
    BY <1>2, <1>3, <1>4
  <2> QED BY <2>1, TagsHeld
<1>6. Len(tags) = Len(name) + 1 + Len(Text(c.tags)) + 1
  <2>1. Len(tags) = Len(named) + Len(Text(c.tags)) + 1
    BY <1>2, <1>4, <1>5, TerminatedProperties
  <2> QED BY <1>2, <1>3, <1>4, <2>1
<1>7. file = Terminated(tags, Text(path))
  <2>1. Len(tags) < TextLimit /\ Len(tags) + Len(Text(path)) + 1 <= TextLimit
    BY <1>2, <1>3, <1>6
  <2>2. file = WriteStr(tags, TextLimit, path)
    BY DEF FileBlock
  <2> HIDE DEF file, tags, path
  <2>3. \E s \in Seq(Byte) : file = Terminated(tags, s) /\ s = Text(path)
    BY <1>1, <1>3, <1>4, <2>1, <2>2, WriteStrProperties
  <2> QED BY <2>3
<1>8. Len(file) = Len(tags) + Len(Text(path)) + 1 /\ Holds(file, Len(tags), Text(path))
  BY <1>2, <1>4, <1>7, TerminatedProperties
<1>9. Len(file) < end /\ Len(file) + Len(Text(c.msg)) + 1 <= end
  BY <1>2, <1>3, <1>6, <1>8
<1>10. MsgBlock(name, c) = Terminated(file, Text(c.msg))
  BY <1>9, MsgHeld
<1>11. /\ b # None
       /\ b.extra = MsgBlock(name, c)
       /\ b.extra \in Seq(Char)
       /\ Grown(file, b.extra)
       /\ b.tags_offset = Len(named)
       /\ b.file_offset = Len(tags)
       /\ MessageOf(b) = Text(c.msg)
  BY <1>2, <1>9, <1>10, MsgReads
<1> HIDE DEF b
<1>12. Grown(tags, b.extra)
  BY <1>4, <1>11, GrownTwice
<1>13. StringIn(b.extra, b.tags_offset) = Text(c.tags)
  <2>1. Holds(b.extra, Len(named), Text(c.tags))
    BY <1>2, <1>4, <1>5, <1>11, <1>12, GrownHolds
  <2> QED BY <1>2, <1>11, <2>1, HoldsReads
<1>14. StringIn(b.extra, b.file_offset) = Text(path)
  <2>1. Holds(b.extra, Len(tags), Text(path))
    BY <1>2, <1>4, <1>8, <1>11, GrownHolds
  <2> QED BY <1>2, <1>11, <2>1, HoldsReads
<1> QED BY <1>11, <1>13, <1>14 DEF b

\* The texts before the message take no more room than they have, nor than
\* their lengths.
LEMMA FileBlockAtMost ==
  ASSUME NEW name \in FitName, NEW c \in Calls
  PROVE  Len(FileBlock(name, c))
           <= Min({Len(name) + Len(Text(c.tags)) + Len(Text(ShortenPath(c.file))) + 3,
                   TextLimit})
<1> DEFINE tags == Text(c.tags)
           path == Text(ShortenPath(c.file))
<1>1. c.tags \in MaybeText /\ ShortenPath(c.file) \in MaybeText
  BY CallTyping, ShortenPathTyping
<1>2. /\ Len(name) \in Nat /\ Len(tags) \in Nat /\ Len(path) \in Nat
      /\ Len(TagsBlock(name, c)) \in Nat /\ Len(FileBlock(name, c)) \in Nat
  BY <1>1, BlockTyping, TextTyping, LenProperties DEF FitName
<1>3. Len(NameBlock(name)) = Len(name) + 1 /\ Len(NameBlock(name)) <= TextLimit
  BY <1>2, Sizes, BlockTyping
<1>4. Len(TagsBlock(name, c)) <= Len(NameBlock(name)) + Len(tags) + 1
  BY <1>1, <1>3, Sizes, BlockTyping, WriteStrAtMost DEF TagsBlock
<1>5. Len(FileBlock(name, c)) <= Len(TagsBlock(name, c)) + Len(path) + 1
  BY <1>1, Sizes, BlockTyping, WriteStrAtMost DEF FileBlock
<1>6. Len(FileBlock(name, c)) <= TextLimit
  BY BlockTyping
<1> HIDE DEF tags, path
<1>7. Len(FileBlock(name, c)) <= Len(name) + Len(tags) + Len(path) + 3
  BY <1>2, <1>3, <1>4, <1>5
<1>8. Len(name) + Len(tags) + Len(path) + 3 \in Int /\ TextLimit \in Int
  BY <1>2, Sizes
<1>9. Len(FileBlock(name, c)) <= Min({Len(name) + Len(tags) + Len(path) + 3, TextLimit})
  BY <1>6, <1>7, <1>8, MinOfTwo
<1> QED BY <1>9 DEF tags, path

\* An item is no bigger than its buffer and LOGE_MAXBUF exactly when the
\* texts before the message leave it there.
LEMMA ItemFitsBuffer ==
  ASSUME NEW name \in FitName, NEW c \in Calls, Serialized(name, c) # None
  PROVE  Serialized(name, c).size <= Min({c.bufsize, MaxBuf})
           <=> HeaderSize + Serialized(name, c).msg_offset <= Min({c.bufsize, MaxBuf})
<1> DEFINE file == FileBlock(name, c)
           end == ExtraEnd(c.bufsize)
           msg == MsgBlock(name, c)
<1>1. /\ file \in Seq(Char) /\ Len(file) \in Nat
  BY BlockTyping, LenProperties
<1>2. /\ end \in Nat
      /\ end + HeaderSize = Min({c.bufsize, MaxBuf})
  BY CallTyping, ExtraEndProperties
<1>3. /\ msg # NULL
      /\ Serialized(name, c).size = HeaderSize + Len(msg)
      /\ Serialized(name, c).msg_offset = Len(file)
  BY SerializedFields
<1>4. Len(msg) \in Nat /\ (Len(msg) <= end <=> Len(file) <= end)
  <2>1. CASE Len(file) < end
    <3>1. PICK s \in Seq(Byte) : /\ msg = Terminated(file, s)
                                 /\ Len(file) + Len(s) + 1 <= end
      BY <1>3, <2>1, MsgHeld
    <3>2. msg \in Seq(Char) /\ Len(msg) = Len(file) + Len(s) + 1
      BY <1>1, <3>1, TerminatedProperties
    <3>3. Len(s) \in Nat
      BY LenProperties
    <3> QED BY <1>1, <1>2, <2>1, <3>1, <3>2, <3>3
  <2>2. CASE Len(file) = end
    <3>1. msg = file
      BY <2>2 DEF MsgBlock, WriteBin, WriteStr
    <3> QED BY <1>1, <1>2, <2>2, <3>1
  <2>3. CASE Len(file) > end
    <3> DEFINE t == c.msg
    <3>1. t \in MaybeText /\ Text(t) \in Seq(Byte)
      BY CallTyping, TextTyping
    <3>2. msg = Terminated(file, Text(t))
      <4>1. /\ WriteStr(file, end, t) = Terminated(file, Text(t))
            /\ WriteBin(file, end, t) = Terminated(file, Text(t))
        <5> HIDE DEF file, end, t
        <5> QED BY <1>1, <1>2, <2>3, <3>1, WrittenBeyond
      <4> QED BY <4>1 DEF MsgBlock
    <3> HIDE DEF file, msg, end, t
    <3>3. Len(msg) = Len(file) + Len(Text(t)) + 1 /\ Len(Text(t)) \in Nat
      BY <1>1, <3>1, <3>2, TerminatedProperties, LenProperties
    <3> QED BY <1>1, <1>2, <2>3, <3>3
  <2> QED BY <1>1, <1>2, <2>1, <2>2, <2>3
<1> HIDE DEF file, end, msg
<1> QED BY <1>1, <1>2, <1>3, <1>4, Sizes

-----------------------------------------------------------------------------
(* The specification.                                                      *)

\* The name fits, and the item is what the last call makes of the name and
\* of the switch as they are.
ItemIsOfCall ==
  /\ loge \in [name : FitName, enabled : BOOLEAN]
  /\ \E name \in Names : loge.name = Named(name)
  /\ call # None \/ item # None => call \in Calls /\ item = ItemOf(call)

\* The item is always that of the last call.
LEMMA ItemIsOfCallInvariant == Spec => []ItemIsOfCall
<1>1. Init => ItemIsOfCall
  BY NamedTyping DEF Init, ItemIsOfCall
<1>2. ItemIsOfCall /\ [Next]_vars => ItemIsOfCall'
  <2> SUFFICES ASSUME ItemIsOfCall, [Next]_vars PROVE ItemIsOfCall'
    OBVIOUS
  <2>1. ASSUME NEW name \in Names, LogeName(name) PROVE ItemIsOfCall'
    BY <2>1, NamedTyping DEF ItemIsOfCall, LogeName
  <2>2. ASSUME NEW on \in BOOLEAN, LogeEnable(on) PROVE ItemIsOfCall'
    BY <2>2 DEF ItemIsOfCall, LogeEnable
  <2>3. ASSUME NEW c \in Calls, LogeItem(c) PROVE ItemIsOfCall'
    BY <2>3 DEF ItemIsOfCall, LogeItem, ItemOf
  <2>4. CASE UNCHANGED vars
    BY <2>4 DEF ItemIsOfCall, vars, ItemOf
  <2> QED BY <2>1, <2>2, <2>3, <2>4 DEF Next
<1> QED BY <1>1, <1>2, PTL DEF Spec

\* What an item was made of.
LEMMA ItemMadeOf ==
  ASSUME ItemIsOfCall, item # None
  PROVE  /\ call \in Calls
         /\ loge.name \in FitName
         /\ item = Serialized(loge.name, call)
BY DEF ItemIsOfCall, ItemOf

\* The name and the tags of every item read as they were given or as a part
\* of them cut between characters, a text message as well, and binary data
\* is never sent in part: for all texts, names and buffers that have room
\* for the texts before the message.
THEOREM ItemsReadBack == Spec => []TextsReadBack
<1>1. ItemIsOfCall => TextsReadBack
  <2> SUFFICES ASSUME ItemIsOfCall, item # None, call.bufsize > HeaderSize + TextLimit
               PROVE  /\ StringAt(item.name_offset) = loge.name
                      /\ IsTruncated(StringAt(item.tags_offset), Text(call.tags))
                      /\ IF call.binary THEN Message = Text(call.msg)
                         ELSE /\ IsTruncated(StringAt(item.msg_offset), Text(call.msg))
                              /\ Message = StringAt(item.msg_offset)
    BY DEF TextsReadBack
  <2>1. /\ call \in Calls
        /\ loge.name \in FitName
        /\ item = Serialized(loge.name, call)
    BY ItemMadeOf
  <2>2. /\ StringIn(item.extra, item.name_offset) = loge.name
        /\ IsTruncated(StringIn(item.extra, item.tags_offset), Text(call.tags))
        /\ IsTruncated(MessageOf(item), Text(call.msg))
        /\ (call.binary => MessageOf(item) = Text(call.msg))
        /\ MessageOf(item) = StringIn(item.extra, item.msg_offset)
    BY <2>1, ItemReadsBack
  <2> QED BY <2>2 DEF StringAt, Message
<1> QED BY <1>1, ItemIsOfCallInvariant, PTL

\* No text is cut that fits, to the last byte of its room, in any buffer.
THEOREM FittingTextsAreWhole == Spec => []TextsThatFitAreWhole
<1>1. ItemIsOfCall => TextsThatFitAreWhole
  <2> DEFINE head == Len(loge.name) + Len(Text(call.tags))
                       + Len(Text(ShortenPath(call.file))) + 3
             body == head + Len(Text(call.msg)) + 1
  <2> SUFFICES ASSUME ItemIsOfCall, call # None, loge.enabled,
                      head <= TextLimit, body <= ExtraEnd(call.bufsize)
               PROVE  /\ item # None
                      /\ StringAt(item.tags_offset) = Text(call.tags)
                      /\ StringAt(item.file_offset) = Text(ShortenPath(call.file))
                      /\ Message = Text(call.msg)
    BY DEF TextsThatFitAreWhole
  <2>1. /\ call \in Calls
        /\ loge.name \in FitName
        /\ item = Serialized(loge.name, call)
    BY DEF ItemIsOfCall, ItemOf
  <2>2. /\ item # None
        /\ StringIn(item.extra, item.tags_offset) = Text(call.tags)
        /\ StringIn(item.extra, item.file_offset) = Text(ShortenPath(call.file))
        /\ MessageOf(item) = Text(call.msg)
    BY <2>1, ItemIsWhole
  <2> QED BY <2>2 DEF StringAt, Message
<1> QED BY <1>1, ItemIsOfCallInvariant, PTL

\* The size that is returned is that of what is written.  In every buffer it
\* is no more than the buffer and LOGE_MAXBUF exactly when the texts before
\* the message end there; these take no more than 255 bytes, nor than their
\* lengths.  So a buffer of 283 bytes, or of the size of its texts, is never
\* exceeded, and a smaller one may be.
THEOREM ItemsFitBuffer == Spec => []SizeWithinBuffer
<1>1. ItemIsOfCall => TypeOK
  <2> SUFFICES ASSUME ItemIsOfCall PROVE TypeOK
    OBVIOUS
  <2>1. loge.enabled \in BOOLEAN /\ Len(loge.name) < NameSize
        /\ (call # None => call \in Calls)
    BY DEF ItemIsOfCall, FitName
  <2>2. ASSUME item # None PROVE item.size = HeaderSize + Len(item.extra)
    <3>1. /\ call \in Calls
          /\ loge.name \in FitName
          /\ item = Serialized(loge.name, call)
      BY <2>2, ItemMadeOf
    <3>2. MsgBlock(loge.name, call) # NULL
      BY <2>2, <3>1, SerializedFields
    <3> QED BY <3>1, <3>2, SerializedFields
  <2> QED BY <2>1, <2>2 DEF TypeOK
<1>2. ItemIsOfCall => SizeWithinBuffer
  <2> SUFFICES ASSUME ItemIsOfCall, item # None
               PROVE  /\ item.size <= Min({call.bufsize, MaxBuf})
                           <=> HeaderSize + item.msg_offset <= Min({call.bufsize, MaxBuf})
                      /\ item.msg_offset
                           <= Min({Len(loge.name) + Len(Text(call.tags))
                                     + Len(Text(ShortenPath(call.file))) + 3, TextLimit})
    BY <1>1 DEF SizeWithinBuffer
  <2>1. /\ call \in Calls
        /\ loge.name \in FitName
        /\ item = Serialized(loge.name, call)
    BY ItemMadeOf
  <2>2. item.msg_offset = Len(FileBlock(loge.name, call))
    BY <2>1, SerializedFields
  <2> QED BY <2>1, <2>2, ItemFitsBuffer, FileBlockAtMost
<1> QED BY <1>2, ItemIsOfCallInvariant, PTL

\* Of every path no more than the last two directories are kept, and no
\* less.
THEOREM PathsAreShortened == Spec => []KeepsTwoDirectories
<1>1. ItemIsOfCall => KeepsTwoDirectories
  <2> SUFFICES ASSUME ItemIsOfCall, call # None, call.file # NULL
               PROVE  LET slashes == IndicesOf(call.file, SlashOf(call.file))
                          starts  == {i \in {1} \cup {j + 1 : j \in slashes} :
                                       Cardinality({j \in slashes : j >= i /\ j > 1}) <= 2}
                      IN  ShortenPath(call.file)
                            = SubSeq(call.file, Min(starts), Len(call.file))
    BY DEF KeepsTwoDirectories
  <2>1. call.file \in Seq(Byte)
    BY CallTyping DEF ItemIsOfCall, MaybeText
  <2> QED BY <2>1, TwoDirectoriesKept DEF Slashes
<1> QED BY <1>1, ItemIsOfCallInvariant, PTL

\* the offsets of the header, whose types are of one and two bytes, are those
\* of the texts: the name starts the block and the message ends it
OffsetsStayInBlock ==
  item # None =>
    /\ 0 = item.name_offset /\ item.name_offset < item.tags_offset
    /\ item.tags_offset <= item.file_offset /\ item.file_offset <= item.msg_offset
    /\ item.msg_offset <= TextLimit
    /\ call.bufsize > HeaderSize + TextLimit =>
         item.msg_offset + item.msg_len + 1 = Len(item.extra)

\* A reader that goes by the header never leaves the block: "the length of
\* first three strings can't exceed 255, to make sure the last offset is
\* valid uint8_t value".  In a smaller buffer msg_len may be 65535.
THEOREM OffsetsAreValid == Spec => []OffsetsStayInBlock
<1>1. ItemIsOfCall => OffsetsStayInBlock
  <2> SUFFICES ASSUME ItemIsOfCall, item # None
               PROVE  /\ 0 = item.name_offset /\ item.name_offset < item.tags_offset
                      /\ item.tags_offset <= item.file_offset
                      /\ item.file_offset <= item.msg_offset
                      /\ item.msg_offset <= TextLimit
                      /\ call.bufsize > HeaderSize + TextLimit =>
                           item.msg_offset + item.msg_len + 1 = Len(item.extra)
    BY DEF OffsetsStayInBlock
  <2>1. /\ call \in Calls
        /\ loge.name \in FitName
        /\ item = Serialized(loge.name, call)
    BY ItemMadeOf
  <2> DEFINE named == NameBlock(loge.name)
             tags  == TagsBlock(loge.name, call)
             file  == FileBlock(loge.name, call)
             msg   == MsgBlock(loge.name, call)
  <2>2. msg # NULL
    BY <2>1, SerializedFields
  <2>3. /\ item.extra = msg
        /\ item.name_offset = 0
        /\ item.tags_offset = Len(named)
        /\ item.file_offset = Len(tags)
        /\ item.msg_offset = Len(file)
        /\ item.msg_len = Uint16(Len(msg) - Len(file) - 1)
    BY <2>1, <2>2, SerializedFields
  <2>4. /\ named \in Seq(Char) /\ tags \in Seq(Char) /\ file \in Seq(Char)
        /\ Len(named) = Len(loge.name) + 1
        /\ Len(file) <= TextLimit
        /\ Grown(named, tags) /\ Grown(tags, file)
    BY <2>1, BlockTyping
  <2>5. Len(named) \in Nat /\ Len(tags) \in Nat /\ Len(file) \in Nat
        /\ Len(loge.name) \in Nat
    BY <2>1, <2>4, LenProperties DEF FitName
  <2>6. /\ 0 < Len(named) /\ Len(named) <= Len(tags) /\ Len(tags) <= Len(file)
    BY <2>4, <2>5 DEF Grown
  <2>7. ASSUME call.bufsize > HeaderSize + TextLimit
        PROVE  Len(file) + item.msg_len + 1 = Len(msg)
    <3>1. /\ ExtraEnd(call.bufsize) \in Nat
          /\ ExtraEnd(call.bufsize) > TextLimit
          /\ ExtraEnd(call.bufsize) + HeaderSize <= MaxBuf
      BY <2>1, <2>7, CallTyping, ExtraEndProperties
    <3>2. Len(file) < ExtraEnd(call.bufsize)
      BY <2>4, <2>5, <3>1, Sizes
    <3>3. PICK s \in Seq(Byte) : /\ msg = Terminated(file, s)
                                 /\ Len(file) + Len(s) + 1 <= ExtraEnd(call.bufsize)
      BY <2>1, <2>2, <3>2, MsgHeld
    <3>4. Len(msg) = Len(file) + Len(s) + 1 /\ Len(s) \in Nat
      BY <2>4, <3>3, TerminatedProperties, LenProperties
    <3> HIDE DEF msg, file
    <3>5. Len(s) < 65536 /\ Len(msg) - Len(file) - 1 = Len(s)
      BY <2>5, <3>1, <3>3, <3>4, Sizes
    <3>6. item.msg_len = Len(s)
      BY <2>3, <3>4, <3>5, Uint16Identity
    <3> QED BY <3>4, <3>6
  <2> HIDE DEF named, tags, file, msg
  <2> QED BY <2>3, <2>4, <2>6, <2>7
<1> QED BY <1>1, ItemIsOfCallInvariant, PTL

\* What a reader finds of the file is the shortened path or the start of it,
\* where the name and the tags leave a byte of their room.
FileReadsBackWithRoom ==
  item # None /\ call.bufsize > HeaderSize + TextLimit /\ item.file_offset < TextLimit =>
    IsPrefix(StringAt(item.file_offset), Text(ShortenPath(call.file)))

\* The one way for a reader to find something else in the place of the file,
\* as the run loge_file_is_message does, is that the room is full before it.
THEOREM FilesReadBack == Spec => []FileReadsBackWithRoom
<1>1. ItemIsOfCall => FileReadsBackWithRoom
  <2> SUFFICES ASSUME ItemIsOfCall, item # None,
                      call.bufsize > HeaderSize + TextLimit,
                      item.file_offset < TextLimit
               PROVE  IsPrefix(StringAt(item.file_offset), Text(ShortenPath(call.file)))
    BY DEF FileReadsBackWithRoom
  <2> DEFINE tags == TagsBlock(loge.name, call)
             file == FileBlock(loge.name, call)
             path == ShortenPath(call.file)
  <2>1. /\ call \in Calls
        /\ loge.name \in FitName
        /\ item = Serialized(loge.name, call)
    BY ItemMadeOf
  <2>2. MsgBlock(loge.name, call) # NULL
    BY <2>1, SerializedFields
  <2>3. Len(file) < ExtraEnd(call.bufsize)
    <3>1. Len(file) <= TextLimit /\ Len(file) \in Nat
      BY <2>1, BlockTyping, LenProperties
    <3>2. ExtraEnd(call.bufsize) \in Nat /\ ExtraEnd(call.bufsize) > TextLimit
      BY <2>1, CallTyping, ExtraEndProperties
    <3> QED BY <3>1, <3>2, Sizes
  <2>4. PICK s \in Seq(Byte) :
          /\ MsgBlock(loge.name, call) = Terminated(file, s)
          /\ Len(file) + Len(s) + 1 <= ExtraEnd(call.bufsize)
    BY <2>1, <2>2, <2>3, MsgHeld
  <2>5. /\ item.extra \in Seq(Char)
        /\ Grown(file, item.extra)
        /\ item.file_offset = Len(tags)
    BY <2>1, <2>3, <2>4, MsgReads
  <2>6. tags \in Seq(Char) /\ file \in Seq(Char)
    BY <2>1, BlockTyping
  <2>7. path \in MaybeText
    BY <2>1, CallTyping, ShortenPathTyping
  <2>8. PICK t \in Seq(Byte) : file = Terminated(tags, t) /\ IsPrefix(t, Text(path))
    <3>1. file = WriteStr(tags, TextLimit, path)
      BY DEF FileBlock
    <3> HIDE DEF file, tags, path
    <3> QED BY <2>5, <2>6, <2>7, <3>1, Sizes, WriteStrProperties
  <2>9. Holds(item.extra, Len(tags), t)
    <3> HIDE DEF tags, file, path
    <3>1. Holds(file, Len(tags), t)
      BY <2>6, <2>8, TerminatedProperties
    <3> DEFINE extra == item.extra
               at == Len(tags)
    <3>2. extra \in Seq(Char) /\ Grown(file, extra)
      BY <2>5
    <3> HIDE DEF extra, at
    <3>3. Holds(file, at, t)
      BY <3>1 DEF at
    <3>4. Holds(extra, at, t)
      BY <2>6, <3>2, <3>3, GrownHolds
    <3> QED BY <3>4 DEF extra, at
  <2>10. StringIn(item.extra, Len(tags)) = t
    BY <2>5, <2>9, HoldsReads
  <2> QED BY <2>5, <2>8, <2>10 DEF StringAt
<1> QED BY <1>1, ItemIsOfCallInvariant, PTL
=============================================================================
