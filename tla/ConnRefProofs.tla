---------------------------- MODULE ConnRefProofs ----------------------------
(***************************************************************************)
(* Proofs about ConnRef, for every set of threads and every finite set of  *)
(* references: no update of the count is lost, and who destroys the mutex  *)
(* and frees the connection is alone with it.                              *)
(***************************************************************************)
EXTENDS ConnRef, FiniteSetTheorems, TLAPS

Critical == {"read", "write", "test", "unlock", "unlockLast"}
Last == {"unlockLast", "destroy", "free"}

\* the lock is held by the thread that is between its lock and its unlock
LockIsExclusive == \A t \in Thread : lock = t <=> pc[t] \in Critical

\* a call is about a reference of its own
TokensApart ==
  \A t \in Thread :
    /\ pc[t] = "idle" <=> token[t] = Nobody
    /\ \A u \in Thread \ {t} : token[t] # Nobody => token[t] # token[u]

\* A reference in a call belongs to no other thread.  Until it is counted,
\* the caller holds the one it drops, or another than the one it takes.
CallersHold ==
  \A t \in Thread :
    /\ pc[t] # "idle" => holder[token[t]] \in {t, Nobody}
    /\ pc[t] \in {"lock", "read", "write"} =>
         /\ ref[t] = 1 => holder[token[t]] = Nobody /\ \E own \in Ref : holder[own] = t
         /\ ref[t] = -1 => holder[token[t]] = t

\* the count is exact at every step, and so is what was read to be added to
CountExact ==
  /\ refcount = Cardinality(Held)
  /\ \A t \in Thread : pc[t] = "write" => seen[t] = refcount

\* who found the count at zero is alone, and so is nobody at the end
LastIsAlone ==
  /\ \A t \in Thread :
       pc[t] \in Last => Held = {} /\ \A u \in Thread \ {t} : pc[u] = "idle"
  /\ ~mem => Held = {} /\ \A t \in Thread : pc[t] = "idle"

IInv ==
  TypeOK /\ LockIsExclusive /\ TokensApart /\ CallersHold /\ CountExact /\ LastIsAlone

-----------------------------------------------------------------------------
(* Counting.                                                               *)

\* There are finitely many references held; one more counts one more, one
\* less one less.
LEMMA HeldCounts ==
  /\ IsFiniteSet(Held) /\ Cardinality(Held) \in Nat
  /\ Cardinality(Held) = 0 <=> Held = {}
  /\ \A r \in Ref \ Held : Cardinality(Held \cup {r}) = Cardinality(Held) + 1
  /\ \A r \in Held : Cardinality(Held \ {r}) = Cardinality(Held) - 1
<1>1. IsFiniteSet(Held)
  BY ConnRefAssumption, FS_Subset DEF Held
<1> QED
  BY <1>1, FS_CardinalityType, FS_EmptySet, FS_AddElement, FS_RemoveElement

-----------------------------------------------------------------------------
(* The steps.                                                              *)

\* A thread that enters the call with a reference takes it from nobody.
LEMMA CallStep ==
  ASSUME IInv, NEW t \in Thread, NEW r \in Ref, CallRef(t, r) \/ CallUnref(t, r)
  PROVE  IInv'
<1> USE ConnRefAssumption DEF IInv, TypeOK
<1>0. pc[t] = "idle" /\ pc' = [pc EXCEPT ![t] = "lock"]
      /\ token' = [token EXCEPT ![t] = r]
      /\ ref' = [ref EXCEPT ![t] = IF CallRef(t, r) THEN 1 ELSE -1]
      /\ UNCHANGED <<holder, refcount, lock, mutex, mem, seen>>
  BY DEF CallRef, CallUnref
<1>1. Held # {} /\ Held' = Held
  BY <1>0 DEF CallRef, CallUnref, Held
<1>2. \A u \in Thread \ {t} : token[u] # r
  BY DEF CallRef, CallUnref, Free, CallersHold, TokensApart
<1>3. TypeOK'
  BY <1>0
<1>4. LockIsExclusive'
  BY <1>0 DEF LockIsExclusive, Critical
<1>5. TokensApart'
  BY <1>0, <1>2 DEF TokensApart
<1>6. CallersHold'
  BY <1>0 DEF CallersHold, CallRef, CallUnref, Free
<1>7. CountExact'
  BY <1>0, <1>1 DEF CountExact
<1>8. LastIsAlone'
  BY <1>0, <1>1 DEF LastIsAlone, Last
<1> QED BY <1>3, <1>4, <1>5, <1>6, <1>7, <1>8

\* A reference that is handed over is held as before, and in no call.
LEMMA HandOverStep ==
  ASSUME IInv, NEW t \in Thread, NEW u \in Thread, NEW r \in Ref, HandOver(t, u, r)
  PROVE  IInv'
<1> USE ConnRefAssumption DEF IInv, TypeOK, HandOver, threadVars
<1>1. Held' = Held /\ Held # {}
  BY DEF Held
<1>2. TypeOK' /\ LockIsExclusive' /\ TokensApart'
  BY DEF LockIsExclusive, TokensApart
<1>3. CallersHold'
  BY DEF CallersHold, TokensApart
<1>4. CountExact' /\ LastIsAlone'
  BY <1>1 DEF CountExact, LastIsAlone
<1> QED BY <1>2, <1>3, <1>4

\* The lock is granted to one thread, and the count read under it stays.
LEMMA LockedStep ==
  ASSUME IInv, NEW t \in Thread, Lock(t) \/ Read(t)
  PROVE  IInv'
<1> USE ConnRefAssumption DEF IInv, TypeOK, Lock, Read, Goto, Acquires
<1>1. Held' = Held /\ holder' = holder /\ mem' = mem /\ refcount' = refcount
  BY DEF Held
<1>2. TypeOK'
  OBVIOUS
<1>3. LockIsExclusive'
  BY DEF LockIsExclusive, Critical
<1>4. TokensApart' /\ CallersHold'
  BY DEF TokensApart, CallersHold
<1>5. CountExact'
  BY <1>1 DEF CountExact
<1>6. LastIsAlone'
  BY <1>1 DEF LastIsAlone, Last
<1> QED BY <1>2, <1>3, <1>4, <1>5, <1>6

\* The sum is written: what is held changes by the one reference.
LEMMA WriteStep ==
  ASSUME IInv, NEW t \in Thread, Write(t)
  PROVE  IInv'
<1> USE ConnRefAssumption DEF IInv, TypeOK
<1>0. pc[t] = "write" /\ pc' = [pc EXCEPT ![t] = "test"] /\ token[t] \in Ref
  BY DEF Write, Goto, TokensApart
<1>1. refcount' = refcount + ref[t] /\ ref[t] \in {1, -1}
  BY <1>0 DEF Write, Sum, CountExact
<1>2. \/ /\ ref[t] = 1
         /\ token[t] \in Ref \ Held /\ Held' = Held \cup {token[t]}
      \/ /\ ref[t] = -1
         /\ token[t] \in Held /\ Held' = Held \ {token[t]}
  BY <1>0, <1>1 DEF Write, Held, CallersHold
<1>3. refcount' = Cardinality(Held') /\ refcount' \in Nat
  BY <1>1, <1>2, HeldCounts, FS_RemoveElement, FS_CardinalityType DEF CountExact
<1>4. TypeOK'
  BY <1>0, <1>3 DEF Write
<1>5. LockIsExclusive' /\ TokensApart'
  BY <1>0 DEF Write, LockIsExclusive, TokensApart, Critical
<1>6. CallersHold'
  BY <1>0 DEF Write, CallersHold, TokensApart
<1>7. CountExact'
  BY <1>0, <1>3 DEF Write, CountExact, LockIsExclusive, Critical
<1>8. LastIsAlone'
  BY <1>0 DEF Write, LastIsAlone, Last
<1> QED BY <1>4, <1>5, <1>6, <1>7, <1>8

\* Who finds the count at zero is alone: another thread inside the call
\* would hold a reference, or would be the last itself.
LEMMA TestStep ==
  ASSUME IInv, NEW t \in Thread, Test(t)
  PROVE  IInv'
<1> USE ConnRefAssumption DEF IInv, TypeOK
<1>0. pc[t] = "test" /\ pc' = [pc EXCEPT ![t] = Branch(t)]
      /\ Branch(t) \in {"unlock", "unlockLast"}
      /\ UNCHANGED <<holder, refcount, lock, mutex, mem, token, ref, seen>>
  BY DEF Test, Goto, Branch
<1>1. Held' = Held
  BY <1>0 DEF Held
<1>2. TypeOK' /\ LockIsExclusive' /\ TokensApart' /\ CallersHold' /\ CountExact'
  BY <1>0, <1>1 DEF LockIsExclusive, Critical, TokensApart, CallersHold, CountExact
<1>3. ASSUME Branch(t) = "unlockLast" PROVE Held = {}
  BY <1>3, HeldCounts DEF Branch, CountExact
<1>4. ASSUME Held = {}, NEW u \in Thread \ {t} PROVE pc[u] = "idle"
  <2>1. pc[u] \notin Last
    BY <1>0 DEF LastIsAlone
  <2>2. pc[u] \notin Critical
    BY <1>0 DEF LockIsExclusive, Critical
  <2>3. pc[u] # "lock"
    <3> SUFFICES ASSUME pc[u] = "lock" PROVE FALSE
      OBVIOUS
    <3>1. \E own \in Ref : holder[own] = u
      BY DEF CallersHold, TokensApart
    <3> QED BY <1>4, <3>1 DEF Held
  <2> QED BY <2>1, <2>2, <2>3 DEF Last, Critical
<1>5. LastIsAlone'
  BY <1>0, <1>1, <1>3, <1>4 DEF LastIsAlone, Last
<1> QED BY <1>2, <1>5

\* The way out: no reference changes hands any more.
LEMMA LeaveStep ==
  ASSUME IInv, NEW t \in Thread,
         Unlock(t) \/ UnlockLast(t) \/ Destroy(t) \/ FreeConn(t)
  PROVE  IInv'
<1> USE ConnRefAssumption
    DEF IInv, TypeOK, Unlock, UnlockLast, Destroy, FreeConn, Goto, Return
<1>1. Held' = Held /\ holder' = holder /\ refcount' = refcount
  BY DEF Held
<1>2. TypeOK'
  <2>1. CASE Unlock(t)
    BY <2>1
  <2>2. CASE UnlockLast(t)
    BY <2>2
  <2>3. CASE Destroy(t)
    BY <2>3
  <2>4. CASE FreeConn(t)
    BY <2>4
  <2> QED BY <2>1, <2>2, <2>3, <2>4
<1>3. LockIsExclusive'
  BY DEF LockIsExclusive, Critical
<1>4. TokensApart'
  BY DEF TokensApart
<1>5. CallersHold'
  BY DEF CallersHold
<1>6. CountExact'
  BY <1>1 DEF CountExact
<1>7. LastIsAlone'
  BY <1>1 DEF LastIsAlone, Last
<1> QED BY <1>2, <1>3, <1>4, <1>5, <1>6, <1>7

-----------------------------------------------------------------------------
(* The theorems.                                                           *)

LEMMA Inductive == IInv /\ [Next]_vars => IInv'
<1> SUFFICES ASSUME IInv, [Next]_vars PROVE IInv'
  OBVIOUS
<1>1. CASE UNCHANGED vars
  BY <1>1 DEF vars, threadVars, IInv, TypeOK, LockIsExclusive, TokensApart,
              CallersHold, CountExact, LastIsAlone, Held
<1>2. CASE Next
  BY <1>2, CallStep, HandOverStep, LockedStep, WriteStep, TestStep, LeaveStep
     DEF Next, Inside
<1> QED BY <1>1, <1>2

LEMMA Initially == Init => IInv
<1> SUFFICES ASSUME Init PROVE IInv
  OBVIOUS
<1> USE ConnRefAssumption DEF Init
<1>1. PICK t \in Thread, r \in Ref :
        holder = [q \in Ref |-> IF q = r THEN t ELSE Nobody]
  OBVIOUS
<1>2. Held = {r}
  BY <1>1 DEF Held
<1>3. TypeOK
  BY <1>1 DEF TypeOK
<1>4. LockIsExclusive /\ TokensApart /\ CallersHold /\ LastIsAlone
  BY DEF LockIsExclusive, TokensApart, CallersHold, LastIsAlone, Critical, Last
<1>5. CountExact
  BY <1>2, FS_Singleton DEF CountExact
<1> QED BY <1>3, <1>4, <1>5 DEF IInv

\* The types hold; the count never goes below zero.
THEOREM TypeCorrect == Spec => []TypeOK
<1>1. IInv => TypeOK
  BY DEF IInv
<1> QED BY <1>1, Initially, Inductive, PTL DEF Spec

\* The count is the number of references held, however the calls of any
\* number of threads interleave.
THEOREM CountCorrect == Spec => []CountIsReferencesHeld
<1>1. IInv => CountIsReferencesHeld
  BY DEF IInv, CountExact, CountIsReferencesHeld
<1> QED BY <1>1, Initially, Inductive, PTL DEF Spec

\* Who destroys the mutex and frees the connection holds no lock, and is the
\* only one in the call; nobody has a reference then or later.
THEOREM FreeingIsSafe == Spec => []FreedAlone
<1>1. IInv => FreedAlone
  BY DEF IInv, TypeOK, LastIsAlone, LockIsExclusive, Last, Critical, FreedAlone
<1> QED BY <1>1, Initially, Inductive, PTL DEF Spec
=============================================================================
