------------------------------- MODULE ConnRef -------------------------------
(***************************************************************************)
(* uvx_server_conn_ref of uvx_server.c, line by line, called by several    *)
(* threads: the only operation of uvx that is documented as thread-safe.   *)
(* UvxServer takes each call as one step; here the steps of the calls      *)
(* interleave.                                                             *)
(*                                                                         *)
(* A reference is named, so that it can be said which thread holds it.     *)
(* The connection starts with one, the server's, which its thread drops    *)
(* in _uv_after_close_connection.                                          *)
(***************************************************************************)
EXTENDS Integers, FiniteSets

CONSTANTS
  Thread,
  Ref,    \* bound: the references there can be at a time
  Nobody

ASSUME ConnRefAssumption ==
  /\ IsFiniteSet(Ref)
  /\ Nobody \notin Thread
  /\ Nobody \notin Ref

VARIABLES
  holder,    \* the thread that holds each reference
  refcount,  \* conn->refcount
  lock,      \* the thread that has locked conn->refmutex
  mutex,     \* FALSE when uv_mutex_destroy has been called
  mem,       \* FALSE when the connection has been freed
  pc,        \* what a thread does next in uvx_server_conn_ref
  token,     \* the reference the call takes or drops
  ref,       \* the argument: 1 or -1
  seen       \* the count it read, before it writes the sum

threadVars == <<pc, token, ref, seen>>
vars == <<holder, refcount, lock, mutex, mem, threadVars>>

TypeOK ==
  /\ holder \in [Ref -> Thread \cup {Nobody}]
  /\ refcount \in Nat
  /\ lock \in Thread \cup {Nobody}
  /\ mutex \in BOOLEAN
  /\ mem \in BOOLEAN
  /\ pc \in [Thread -> {"idle", "lock", "read", "write", "test",
                        "unlock", "unlockLast", "destroy", "free"}]
  /\ token \in [Thread -> Ref \cup {Nobody}]
  /\ ref \in [Thread -> {1, -1}]
  /\ seen \in [Thread -> Nat]

Held == {r \in Ref : holder[r] # Nobody}

\* uvx__on_connection
Init ==
  /\ \E t \in Thread, r \in Ref :
       holder = [q \in Ref |-> IF q = r THEN t ELSE Nobody]
  /\ refcount = 1
  /\ lock = Nobody
  /\ mutex = TRUE
  /\ mem = TRUE
  /\ pc = [t \in Thread |-> "idle"]
  /\ token = [t \in Thread |-> Nobody]
  /\ ref = [t \in Thread |-> 1]
  /\ seen = [t \in Thread |-> 0]

-----------------------------------------------------------------------------
(* Slips a maintainer could make, used only to test the properties.        *)

LocksBlindly(t) == TRUE
FreesBelowTwo(t) == IF refcount <= 1 THEN "unlockLast" ELSE "unlock"
NeverFrees(t) == "unlock"
WritesOnlyDrops(t) == IF ref[t] = -1 THEN seen[t] - 1 ELSE seen[t]

-----------------------------------------------------------------------------
(* The callers.  A thread that holds a reference may drop it, take another *)
(* one, or hand it to a thread that had none.                              *)

Free(r) == holder[r] = Nobody /\ \A t \in Thread : token[t] # r

CallRef(t, r) ==
  /\ pc[t] = "idle"
  /\ \E own \in Ref : holder[own] = t
  /\ Free(r)
  /\ pc' = [pc EXCEPT ![t] = "lock"]
  /\ token' = [token EXCEPT ![t] = r]
  /\ ref' = [ref EXCEPT ![t] = 1]
  /\ UNCHANGED <<holder, refcount, lock, mutex, mem, seen>>

CallUnref(t, r) ==
  /\ pc[t] = "idle"
  /\ holder[r] = t
  /\ pc' = [pc EXCEPT ![t] = "lock"]
  /\ token' = [token EXCEPT ![t] = r]
  /\ ref' = [ref EXCEPT ![t] = -1]
  /\ UNCHANGED <<holder, refcount, lock, mutex, mem, seen>>

HandOver(t, u, r) ==
  /\ pc[t] = "idle"
  /\ holder[r] = t
  /\ u # t
  /\ holder' = [holder EXCEPT ![r] = u]
  /\ UNCHANGED <<refcount, lock, mutex, mem, threadVars>>

-----------------------------------------------------------------------------
(* The call.                                                               *)

Goto(t, from, to) ==
  /\ pc[t] = from
  /\ pc' = [pc EXCEPT ![t] = to]

Return(t, from) ==
  /\ Goto(t, from, "idle")
  /\ token' = [token EXCEPT ![t] = Nobody]
  /\ ref' = [ref EXCEPT ![t] = 1]
  /\ seen' = [seen EXCEPT ![t] = 0]

\* when uv_mutex_lock returns
Acquires(t) == lock = Nobody

Lock(t) ==
  /\ Goto(t, "lock", "read")
  /\ Acquires(t)
  /\ lock' = t
  /\ UNCHANGED <<holder, refcount, mutex, mem, token, ref, seen>>

\* conn->refcount += ref is a read and a write
Read(t) ==
  /\ Goto(t, "read", "write")
  /\ seen' = [seen EXCEPT ![t] = refcount]
  /\ UNCHANGED <<holder, refcount, lock, mutex, mem, token, ref>>

Sum(t) == seen[t] + ref[t]

\* from here on the reference is taken, or gone
Write(t) ==
  /\ Goto(t, "write", "test")
  /\ refcount' = Sum(t)
  /\ holder' = [holder EXCEPT ![token[t]] = IF ref[t] = 1 THEN t ELSE Nobody]
  /\ UNCHANGED <<lock, mutex, mem, token, ref, seen>>

\* if(conn->refcount == 0), still under the lock
Branch(t) == IF refcount = 0 THEN "unlockLast" ELSE "unlock"

Test(t) ==
  /\ Goto(t, "test", Branch(t))
  /\ UNCHANGED <<holder, refcount, lock, mutex, mem, token, ref, seen>>

Unlock(t) ==
  /\ Return(t, "unlock")
  /\ lock' = Nobody
  /\ UNCHANGED <<holder, refcount, mutex, mem>>

UnlockLast(t) ==
  /\ Goto(t, "unlockLast", "destroy")
  /\ lock' = Nobody
  /\ UNCHANGED <<holder, refcount, mutex, mem, token, ref, seen>>

Destroy(t) ==
  /\ Goto(t, "destroy", "free")
  /\ mutex' = FALSE
  /\ UNCHANGED <<holder, refcount, lock, mem, token, ref, seen>>

FreeConn(t) ==
  /\ Return(t, "free")
  /\ mem' = FALSE
  /\ UNCHANGED <<holder, refcount, lock, mutex>>

-----------------------------------------------------------------------------
Inside(t) ==
  \/ Lock(t) \/ Read(t) \/ Write(t) \/ Test(t)
  \/ Unlock(t) \/ UnlockLast(t) \/ Destroy(t) \/ FreeConn(t)

Next ==
  \E t \in Thread :
    \/ \E r \in Ref : CallRef(t, r) \/ CallUnref(t, r)
    \/ \E u \in Thread, r \in Ref : HandOver(t, u, r)
    \/ Inside(t)

Spec == Init /\ [][Next]_vars

\* every thread gets on with its call, and a mutex is granted in the end
Fairness == \A t \in Thread : WF_vars(Inside(t)) /\ SF_vars(Lock(t))

FairSpec == Spec /\ Fairness

-----------------------------------------------------------------------------
(* Properties.                                                             *)

\* No update is lost: between the critical sections the count is the number
\* of references held.
CountIsReferencesHeld == lock = Nobody => refcount = Cardinality(Held)

\* The thread that destroys the mutex and frees the memory is alone with
\* them: uv_mutex_destroy needs a mutex nobody holds or waits for, and neither
\* a holder of a reference nor a thread that lost the race to drop the last
\* one ever meets a freed connection.
FreedAlone ==
  /\ \A t \in Thread :
       pc[t] \in {"destroy", "free"} =>
         /\ Held = {}
         /\ lock = Nobody
         /\ \A u \in Thread \ {t} : pc[u] = "idle"
  /\ ~mem => Held = {} /\ \A t \in Thread : pc[t] = "idle"

\* "free conn when refcount == 0": when the last reference is dropped the
\* connection is freed.
LastDropFrees == Held = {} ~> ~mem
=============================================================================
