--------------------------- MODULE UvxSessionProofs ---------------------------
(***************************************************************************)
(* First, what holds of UvxServer alone, with any clients, for every set   *)
(* of addresses, every timeout and every bound on the application's        *)
(* references.  RefcountExact and TableMatchesHandles support each other:  *)
(* an entry of the table is a handle libuv knows, so its connection is     *)
(* allocated, so the address calloc returns to uvx__on_connection is not   *)
(* in the table.  SilenceOrder and the phases of uv_run then give the two  *)
(* results about the heartbeat.                                            *)
(*                                                                         *)
(* Then, what holds of UvxSession, for every set of buffers and every      *)
(* backlog as well, and however often either program dies.  The proof      *)
(* composes those of the two components.  A step of the session is a step  *)
(* of UvxServer, a step of UvxClient, the death of one of the programs or  *)
(* the loss of the link; so each component keeps its own inductive         *)
(* invariant, and what is new is that neither breaks a contract with libuv *)
(* in this company, that the two ends agree about the connection between   *)
(* them, and that no reply outlives its connection.                        *)
(***************************************************************************)
EXTENDS UvxSession, TableOpsTheorems

-----------------------------------------------------------------------------
(* The server.                                                             *)

\* the timer and the listening handle run only while the table is live
ServerRuns ==
  timer = "active" \/ listener = "listening" => table = "live"

\* before uvx_server_start there are no connections
NotStarted ==
  table = "none" => \A c \in Conn : handle[c] = "none"

\* uv_run delivers every close callback before it reaches the timers again
NothingClosingAtTimers ==
  phase = "timers" => \A c \in Conn : handle[c] # "closing"

IInv ==
  /\ TypeOK
  /\ RefcountExact
  /\ TableMatchesHandles
  /\ ServerRuns
  /\ NotStarted
  /\ NothingClosingAtTimers
  /\ SilenceOrder
  /\ NoDoubleClose

-----------------------------------------------------------------------------
\* The initial states satisfy the invariant.
LEMMA InitIInv == Init => IInv
PROOF
<1> SUFFICES ASSUME Init PROVE IInv
  OBVIOUS
<1>1. TypeOK
  BY ServerAssumption DEF Init, TypeOK, MaxAge
<1> QED
  BY <1>1 DEF Init, IInv, RefcountExact, TableMatchesHandles, ServerRuns,
    NotStarted, NothingClosingAtTimers, SilenceOrder, NoDoubleClose

\* The entries the heartbeat closes are open, so uv_close takes them.
LEMMA SilentPrefixOpen ==
  ASSUME IInv, phase = "timers", timer = "active"
  PROVE  /\ \A i \in DOMAIN conns : handle[conns[i]] = "open"
         /\ \A c \in SilentPrefix : handle[c] = "open"
         /\ \A n \in DOMAIN conns :
              {conns[i] : i \in 1..n} \subseteq {c \in Conn : handle[c] = "open"}
PROOF
<1>1. table = "live"
  BY DEF IInv, ServerRuns
<1>2. Len(conns) \in Nat /\ DOMAIN conns = 1..Len(conns)
  BY LenProperties DEF IInv, TypeOK
<1>3. ASSUME NEW i \in DOMAIN conns
      PROVE  conns[i] \in Conn /\ handle[conns[i]] = "open"
  <2>1. conns[i] \in Conn
    BY <1>2, ElementOfSeq DEF IInv, TypeOK
  <2>2. handle[conns[i]] # "none"
    BY <1>1, <2>1 DEF IInv, TableMatchesHandles, Present
  <2> QED BY <2>1, <2>2 DEF IInv, TypeOK, NothingClosingAtTimers
<1>4. \A c \in SilentPrefix : handle[c] = "open"
  BY <1>3 DEF SilentPrefix
<1>5. ASSUME NEW n \in DOMAIN conns, NEW i \in 1..n
      PROVE  i \in DOMAIN conns
  BY <1>2
<1> QED BY <1>3, <1>4, <1>5

\* The two ways a table is changed, as the connection lemmas need them.
LEMMA TouchProperties ==
  ASSUME NEW s \in Seq(Conn), NEW c \in Conn, Distinct(s)
  PROVE  /\ Touch(s, c) = Append(Delete(s, c), c)
         /\ Delete(s, c) \in Seq(Conn)
         /\ Distinct(Delete(s, c))
         /\ ~Present(Delete(s, c), c)
         /\ \A x : Present(Delete(s, c), x) <=> Present(s, x) /\ x # c
         /\ Touch(s, c) \in Seq(Conn)
         /\ Distinct(Touch(s, c))
         /\ \A x : Present(Touch(s, c), x) <=> Present(s, x) \/ x = c
PROOF
<1> DEFINE d == Delete(s, c)
<1>1. d \in Seq(Conn) /\ Distinct(d) /\ \A x : Present(d, x) <=> Present(s, x) /\ x # c
  BY DeleteDistinct
<1>2. ~Present(d, c)
  BY <1>1
<1>3. Touch(s, c) = Append(Delete(d, c), c)
  BY DEF Touch, Insert
<1> HIDE DEF d
<1>4. Delete(d, c) = d
  BY <1>2, DeleteAbsent
<1>5. /\ Append(d, c) \in Seq(Conn)
      /\ Distinct(Append(d, c))
      /\ \A x : Present(Append(d, c), x) <=> Present(d, x) \/ x = c
  BY <1>1, <1>2, AppendAbsent
<1> QED BY <1>1, <1>2, <1>3, <1>4, <1>5 DEF d

LEMMA InsertProperties ==
  ASSUME NEW s \in Seq(Conn), NEW c \in Conn, Distinct(s), ~Present(s, c)
  PROVE  /\ Insert(s, c) = Append(s, c)
         /\ Insert(s, c) \in Seq(Conn)
         /\ Distinct(Insert(s, c))
         /\ \A x : Present(Insert(s, c), x) <=> Present(s, x) \/ x = c
PROOF
<1>1. Insert(s, c) = Append(s, c)
  BY DeleteAbsent DEF Insert
<1> QED BY <1>1, AppendAbsent

\* uvx__on_connection is given an address that is not in the table.
LEMMA FreshAddress ==
  ASSUME IInv, NEW c \in Conn, ~mem[c]
  PROVE  /\ refcount[c] = 0 /\ held[c] = 0 /\ handle[c] = "none"
         /\ table = "live" => ~Present(conns, c)
PROOF
<1>1. refcount[c] = 0
  BY DEF IInv, TypeOK, RefcountExact
<1>2. held[c] \in Nat /\ refcount[c] = held[c] + (IF handle[c] = "none" THEN 0 ELSE 1)
  BY DEF IInv, TypeOK, RefcountExact
<1>3. held[c] = 0 /\ handle[c] = "none"
  BY <1>1, <1>2
<1> QED BY <1>1, <1>3 DEF IInv, TableMatchesHandles

\* A connection an action takes from the table, or has references to, has a
\* positive count.
LEMMA AllocatedWhenReached ==
  ASSUME IInv, NEW c \in Conn,
         held[c] > 0 \/ handle[c] # "none" \/ (table = "live" /\ Present(conns, c))
  PROVE  mem[c] /\ refcount[c] > 0
PROOF
<1>1. held[c] > 0 \/ handle[c] # "none"
  BY DEF IInv, TableMatchesHandles
<1>2. held[c] \in Nat /\ refcount[c] = held[c] + (IF handle[c] = "none" THEN 0 ELSE 1)
  BY DEF IInv, TypeOK, RefcountExact
<1>3. refcount[c] > 0
  BY <1>1, <1>2
<1> QED BY <1>3 DEF IInv, RefcountExact

-----------------------------------------------------------------------------
\* Every step keeps the types: above all, no count goes below zero.
LEMMA TypeStep == IInv /\ Next => TypeOK'
PROOF
<1> SUFFICES ASSUME IInv, Next PROVE TypeOK'
  OBVIOUS
<1> USE ServerAssumption DEF TypeOK, MaxAge, connVars, serverVars
<1>0. TypeOK /\ fault = "none"
  BY DEF IInv, Next
<1>1. ASSUME NEW ok \in BOOLEAN, Start(ok) PROVE TypeOK'
  BY <1>0, <1>1, EmptySeq DEF Start
<1>2. CASE CallShutdown \/ IterConnsShutdown
  BY <1>0, <1>2 DEF CallShutdown, IterConnsShutdown, Shutdown
<1>3. ASSUME NEW c \in Conn, AppRef(c) PROVE TypeOK'
  BY <1>0, <1>3 DEF AppRef, ConnRef
<1>4. ASSUME NEW c \in Conn, AppUnref(c) PROVE TypeOK'
  <2>1. refcount[c] > 0
    BY <1>4, AllocatedWhenReached DEF AppUnref
  <2> QED BY <1>0, <1>4, <2>1 DEF AppUnref, ConnRef
<1>5. ASSUME NEW c \in Conn, NEW accepted \in BOOLEAN, OnConnection(c, accepted)
      PROVE TypeOK'
  <2>1. table = "live" /\ ~Present(conns, c) /\ Distinct(conns)
    BY <1>5, FreshAddress DEF OnConnection, IInv, ServerRuns, TableMatchesHandles
  <2>2. conns' \in Seq(Conn)
    BY <1>0, <1>5, <2>1, InsertProperties DEF OnConnection
  <2> QED BY <1>0, <1>5, <2>2
    DEF OnConnection, Callback, Shutdown, InitialRefcount
<1>6. ASSUME NEW c \in Conn, OnReadData(c) PROVE TypeOK'
  <2>1. conns' \in Seq(Conn)
    BY <1>0, <1>6, TouchProperties DEF OnReadData, IInv, TableMatchesHandles
  <2> QED BY <1>0, <1>6, <2>1 DEF OnReadData, Callback, Shutdown
<1>7. ASSUME NEW c \in Conn, OnReadError(c) PROVE TypeOK'
  BY <1>0, <1>7 DEF OnReadError, Callback, Shutdown
<1>8. ASSUME NEW c \in Conn, AfterClose(c) PROVE TypeOK'
  <2>1. refcount[c] > 0
    BY <1>8, AllocatedWhenReached DEF AfterClose
  <2>2. table' = "live" => table = "live"
    BY <1>8 DEF AfterClose, Callback, Shutdown
  <2>3. conns' \in Seq(Conn)
    BY <1>0, <1>8, <2>2, DeleteDistinct
      DEF AfterClose, Unlist, IInv, TableMatchesHandles
  <2> QED BY <1>0, <1>8, <2>1, <2>3 DEF AfterClose, Callback, Shutdown, ConnRef
<1>9. CASE Heartbeat
  BY <1>0, <1>9 DEF Heartbeat, CloseFault
<1>10. CASE HeartbeatShutdown
  BY <1>0, <1>10 DEF HeartbeatShutdown, Shutdown
<1>11. ASSUME NEW n \in DOMAIN conns, HeartbeatClosingShutdown(n) PROVE TypeOK'
  BY <1>0, <1>11 DEF HeartbeatClosingShutdown, Shutdown, CloseFault
<1>12. CASE Loop
  BY <1>0, <1>12 DEF Loop, Tick, NoTimerDue, EndPoll, EndClosing
<1> QED
  BY <1>1, <1>2, <1>3, <1>4, <1>5, <1>6, <1>7, <1>8, <1>9, <1>10, <1>11, <1>12
  DEF Next, App, Handlers

\* The handlers of the heartbeat turn open handles into closing ones and do
\* nothing else to a connection.
LEMMA HeartbeatSteps ==
  ASSUME IInv,
         \/ Heartbeat
         \/ HeartbeatShutdown
         \/ \E n \in DOMAIN conns : HeartbeatClosingShutdown(n)
  PROVE  /\ UNCHANGED <<conns, mem, age, refcount, held>>
         /\ phase' = "poll"
         /\ \A c \in Conn :
              handle'[c] = handle[c]
                \/ (handle[c] = "open" /\ handle'[c] = "closing")
         /\ fault' # "close"
PROOF
<1> USE DEF connVars
<1>0. TypeOK /\ fault # "close"
  BY DEF IInv, NoDoubleClose
<1>1. CASE Heartbeat
  <2>1. \A c \in SilentPrefix : handle[c] = "open"
    BY <1>1, SilentPrefixOpen DEF Heartbeat
  <2>2. fault' # "close"
    BY <1>0, <1>1, <2>1 DEF Heartbeat, CloseFault
  <2> QED BY <1>0, <1>1, <2>1, <2>2 DEF Heartbeat, TypeOK
<1>2. CASE HeartbeatShutdown
  BY <1>0, <1>2 DEF HeartbeatShutdown
<1>3. ASSUME NEW n \in DOMAIN conns, HeartbeatClosingShutdown(n)
      PROVE  /\ UNCHANGED <<conns, mem, age, refcount, held>>
             /\ phase' = "poll"
             /\ \A c \in Conn :
                  handle'[c] = handle[c]
                    \/ (handle[c] = "open" /\ handle'[c] = "closing")
             /\ fault' # "close"
  <2> DEFINE closed == {conns[i] : i \in 1..n}
  <2>1. closed \subseteq {c \in Conn : handle[c] = "open"}
    BY <1>3, SilentPrefixOpen DEF HeartbeatClosingShutdown
  <2>2. /\ UNCHANGED <<conns, mem, age, refcount, held>>
        /\ phase' = "poll"
        /\ handle' = [c \in Conn |-> IF c \in closed THEN "closing" ELSE handle[c]]
        /\ fault' = IF n < Len(conns) THEN "table" ELSE CloseFault(closed)
    BY <1>3 DEF HeartbeatClosingShutdown
  <2> HIDE DEF closed
  <2>3. fault' # "close"
    BY <1>0, <2>1, <2>2 DEF CloseFault
  <2> QED BY <2>1, <2>2, <2>3
<1> QED BY <1>1, <1>2, <1>3

\* Every step keeps the counts exact.
LEMMA RefcountStep == IInv /\ Next => RefcountExact'
PROOF
<1> SUFFICES ASSUME IInv, Next PROVE RefcountExact'
  OBVIOUS
<1> USE DEF RefcountExact, connVars
<1>0. TypeOK /\ RefcountExact
  BY DEF IInv
<1>1. ASSUME NEW ok \in BOOLEAN, Start(ok) PROVE RefcountExact'
  BY <1>0, <1>1 DEF Start
<1>2. CASE CallShutdown \/ IterConnsShutdown
  BY <1>0, <1>2 DEF CallShutdown, IterConnsShutdown
<1>3. ASSUME NEW c \in Conn, AppRef(c) PROVE RefcountExact'
  <2>1. refcount[c] > 0
    BY <1>3, AllocatedWhenReached DEF AppRef
  <2> QED BY <1>0, <1>3, <2>1 DEF AppRef, ConnRef, LastRef, TypeOK
<1>4. ASSUME NEW c \in Conn, AppUnref(c) PROVE RefcountExact'
  <2>1. refcount[c] > 0
    BY <1>4, AllocatedWhenReached DEF AppUnref
  <2>2. \A x \in Conn :
          refcount'[x] = held'[x] + (IF handle'[x] = "none" THEN 0 ELSE 1)
    BY <1>0, <1>4, <2>1 DEF AppUnref, ConnRef, TypeOK
  <2>3. \A x \in Conn \ {c} : mem'[x] = mem[x] /\ refcount'[x] = refcount[x]
    BY <1>0, <1>4 DEF AppUnref, ConnRef, TypeOK
  <2>4. refcount'[c] = refcount[c] + -1 /\ refcount[c] \in Nat
    BY <1>0, <1>4 DEF AppUnref, ConnRef, TypeOK
  <2>5. mem'[c] = ~(refcount'[c] = 0)
    BY <1>0, <1>4, <2>4 DEF AppUnref, ConnRef, LastRef, TypeOK
  <2>6. ~(refcount'[c] = 0) <=> refcount'[c] > 0
    BY <2>1, <2>4
  <2>7. mem'[c] <=> refcount'[c] > 0
    BY <2>5, <2>6, Zenon
  <2> QED BY <1>0, <2>2, <2>3, <2>7
<1>5. ASSUME NEW c \in Conn, NEW accepted \in BOOLEAN, OnConnection(c, accepted)
      PROVE RefcountExact'
  <2>1. held[c] = 0
    BY <1>5, FreshAddress DEF OnConnection
  <2> QED BY <1>0, <1>5, <2>1 DEF OnConnection, InitialRefcount, TypeOK
<1>6. ASSUME NEW c \in Conn, OnReadData(c) PROVE RefcountExact'
  BY <1>0, <1>6 DEF OnReadData
<1>7. ASSUME NEW c \in Conn, OnReadError(c) PROVE RefcountExact'
  BY <1>0, <1>7 DEF OnReadError, TypeOK
<1>8. ASSUME NEW c \in Conn, AfterClose(c) PROVE RefcountExact'
  <2>1. refcount[c] > 0
    BY <1>8, AllocatedWhenReached DEF AfterClose
  <2>2. \A x \in Conn :
          refcount'[x] = held'[x] + (IF handle'[x] = "none" THEN 0 ELSE 1)
    BY <1>0, <1>8, <2>1 DEF AfterClose, ConnRef, TypeOK
  <2>3. \A x \in Conn \ {c} : mem'[x] = mem[x] /\ refcount'[x] = refcount[x]
    BY <1>0, <1>8 DEF AfterClose, ConnRef, TypeOK
  <2>4. refcount'[c] = refcount[c] + -1 /\ refcount[c] \in Nat
    BY <1>0, <1>8 DEF AfterClose, ConnRef, TypeOK
  <2>5. mem'[c] = ~(refcount'[c] = 0)
    BY <1>0, <1>8, <2>4 DEF AfterClose, ConnRef, LastRef, TypeOK
  <2>6. ~(refcount'[c] = 0) <=> refcount'[c] > 0
    BY <2>1, <2>4
  <2>7. mem'[c] <=> refcount'[c] > 0
    BY <2>5, <2>6, Zenon
  <2> QED BY <1>0, <2>2, <2>3, <2>7
<1>9. CASE Heartbeat \/ HeartbeatShutdown
             \/ \E n \in DOMAIN conns : HeartbeatClosingShutdown(n)
  <2>1. /\ UNCHANGED <<mem, refcount, held>>
        /\ \A c \in Conn : handle'[c] = "none" <=> handle[c] = "none"
    BY <1>9, HeartbeatSteps
  <2> QED BY <1>0, <2>1
<1>10. CASE Loop
  BY <1>0, <1>10 DEF Loop, Tick, NoTimerDue, EndPoll, EndClosing
<1> QED
  BY <1>1, <1>2, <1>3, <1>4, <1>5, <1>6, <1>7, <1>8, <1>9, <1>10
  DEF Next, App, Handlers

\* Every step keeps the table equal to the handles libuv knows.
LEMMA TableStep == IInv /\ Next => TableMatchesHandles'
PROOF
<1> SUFFICES ASSUME IInv, Next, table' = "live" PROVE TableMatchesHandles'
  BY DEF TableMatchesHandles
<1> USE DEF TableMatchesHandles, connVars, serverVars
<1>0. TypeOK /\ TableMatchesHandles
  BY DEF IInv
<1>1. ASSUME NEW ok \in BOOLEAN, Start(ok) PROVE TableMatchesHandles'
  <2>1. \A c \in Conn : handle[c] = "none"
    BY <1>1 DEF Start, IInv, NotStarted
  <2> QED BY <1>1, <2>1 DEF Start, Present, Distinct
<1>2. CASE CallShutdown \/ IterConnsShutdown
  BY <1>2 DEF CallShutdown, IterConnsShutdown, Shutdown
<1>3. ASSUME NEW c \in Conn, AppRef(c) \/ AppUnref(c) PROVE TableMatchesHandles'
  BY <1>0, <1>3 DEF AppRef, AppUnref
<1>5. ASSUME NEW c \in Conn, NEW accepted \in BOOLEAN, OnConnection(c, accepted)
      PROVE TableMatchesHandles'
  <2>1. table = "live" /\ ~Present(conns, c) /\ Distinct(conns)
    BY <1>0, <1>5, FreshAddress DEF OnConnection, IInv, ServerRuns
  <2>2. /\ Distinct(conns')
        /\ \A x : Present(conns', x) <=> Present(conns, x) \/ x = c
    BY <1>0, <1>5, <2>1, InsertProperties DEF OnConnection, TypeOK
  <2> QED BY <1>0, <1>5, <2>1, <2>2 DEF OnConnection, TypeOK
<1>6. ASSUME NEW c \in Conn, OnReadData(c) PROVE TableMatchesHandles'
  <2>1. table = "live"
    BY <1>6 DEF OnReadData, Callback, Shutdown
  <2>2. conns' = Touch(conns, c) /\ conns \in Seq(Conn) /\ Distinct(conns)
    BY <1>0, <1>6, <2>1 DEF OnReadData, TypeOK
  <2>3. /\ Distinct(conns')
        /\ \A x : Present(conns', x) <=> Present(conns, x) \/ x = c
    BY <2>2, TouchProperties
  <2> QED BY <1>0, <1>6, <2>1, <2>3 DEF OnReadData
<1>7. ASSUME NEW c \in Conn, OnReadError(c) PROVE TableMatchesHandles'
  <2>1. table = "live"
    BY <1>7 DEF OnReadError, Callback, Shutdown
  <2> QED BY <1>0, <1>7, <2>1 DEF OnReadError, TypeOK
<1>8. ASSUME NEW c \in Conn, AfterClose(c) PROVE TableMatchesHandles'
  <2>1. table = "live"
    BY <1>8 DEF AfterClose, Callback, Shutdown
  <2>2. conns' = Delete(conns, c)
    BY <1>8 DEF AfterClose, Unlist
  <2>3. /\ Distinct(conns')
        /\ \A x : Present(conns', x) <=> Present(conns, x) /\ x # c
    BY <1>0, <2>1, <2>2, DeleteDistinct DEF TypeOK
  <2> QED BY <1>0, <1>8, <2>1, <2>3 DEF AfterClose, TypeOK
<1>9. CASE Heartbeat \/ HeartbeatShutdown
             \/ \E n \in DOMAIN conns : HeartbeatClosingShutdown(n)
  <2>1. /\ conns' = conns
        /\ \A c \in Conn : handle'[c] = "none" <=> handle[c] = "none"
    BY <1>9, HeartbeatSteps
  <2>2. table = "live"
    BY <1>9 DEF Heartbeat, HeartbeatShutdown, HeartbeatClosingShutdown, Shutdown
  <2> QED BY <1>0, <2>1, <2>2
<1>10. CASE Loop
  BY <1>0, <1>10 DEF Loop, Tick, NoTimerDue, EndPoll, EndClosing
<1> QED
  BY <1>1, <1>2, <1>3, <1>5, <1>6, <1>7, <1>8, <1>9, <1>10
  DEF Next, App, Handlers

\* The parts of the invariant that tie the phases of uv_run and the server's
\* own handles to the rest.
LEMMA PhaseStep ==
  IInv /\ Next => ServerRuns' /\ NotStarted' /\ NothingClosingAtTimers'
                    /\ NoDoubleClose'
PROOF
<1> DEFINE Goal == ServerRuns /\ NotStarted /\ NothingClosingAtTimers /\ NoDoubleClose
<1> SUFFICES ASSUME IInv, Next PROVE Goal'
  OBVIOUS
<1> USE DEF ServerRuns, NotStarted, NothingClosingAtTimers, NoDoubleClose,
            connVars, serverVars
<1>0. TypeOK /\ Goal
  BY DEF IInv
<1>1. ASSUME NEW ok \in BOOLEAN, Start(ok) PROVE Goal'
  BY <1>0, <1>1 DEF Start
<1>2. CASE CallShutdown \/ IterConnsShutdown
  BY <1>0, <1>2 DEF CallShutdown, IterConnsShutdown, Shutdown
<1>3. ASSUME NEW c \in Conn, AppRef(c) \/ AppUnref(c) PROVE Goal'
  BY <1>0, <1>3 DEF AppRef, AppUnref
<1>4. ASSUME NEW c \in Conn, NEW accepted \in BOOLEAN, OnConnection(c, accepted)
      PROVE Goal'
  BY <1>0, <1>4 DEF OnConnection, Callback, Shutdown
<1>5. ASSUME NEW c \in Conn, OnReadData(c) PROVE Goal'
  BY <1>0, <1>5 DEF OnReadData, Callback, Shutdown
<1>6. ASSUME NEW c \in Conn, OnReadError(c) PROVE Goal'
  BY <1>0, <1>6 DEF OnReadError, Callback, Shutdown
<1>7. ASSUME NEW c \in Conn, AfterClose(c) PROVE Goal'
  BY <1>0, <1>7 DEF AfterClose, Callback, Shutdown, TypeOK
<1>8. CASE Heartbeat \/ HeartbeatShutdown
             \/ \E n \in DOMAIN conns : HeartbeatClosingShutdown(n)
  <2>1. phase' = "poll" /\ fault' # "close"
    BY <1>8, HeartbeatSteps
  <2>2. table = "live" /\ ServerRuns' /\ table' # "none"
    BY <1>0, <1>8
      DEF Heartbeat, HeartbeatShutdown, HeartbeatClosingShutdown, Shutdown
  <2> QED BY <2>1, <2>2
<1>9. CASE Loop
  BY <1>0, <1>9 DEF Loop, Tick, NoTimerDue, EndPoll, EndClosing
<1> QED
  BY <1>1, <1>2, <1>3, <1>4, <1>5, <1>6, <1>7, <1>8, <1>9
  DEF Next, App, Handlers

\* Every step keeps the order the timeout scan relies on.
LEMMA SilenceStep == IInv /\ Next => SilenceOrder'
PROOF
<1> SUFFICES ASSUME IInv, Next, table' = "live",
                    NEW i \in DOMAIN conns', NEW j \in DOMAIN conns', i < j,
                    handle'[conns'[j]] = "open"
             PROVE  age'[conns'[i]] >= age'[conns'[j]]
  BY DEF SilenceOrder
<1> DEFINE Goal == age'[conns'[i]] >= age'[conns'[j]]
<1> USE DEF connVars, serverVars
<1>0. /\ TypeOK /\ TypeOK' /\ SilenceOrder
      /\ Len(conns) \in Nat /\ DOMAIN conns = 1..Len(conns)
      /\ Len(conns') \in Nat /\ DOMAIN conns' = 1..Len(conns')
      /\ \A q \in DOMAIN conns : conns[q] \in Conn
      /\ \A q \in DOMAIN conns' : conns'[q] \in Conn
  <2>1. TypeOK /\ TypeOK' /\ SilenceOrder
    BY TypeStep DEF IInv
  <2> QED BY <2>1, LenProperties, ElementOfSeq DEF TypeOK
<1>1. ASSUME NEW ok \in BOOLEAN, Start(ok) PROVE Goal
  BY <1>0, <1>1 DEF Start
<1>2. ASSUME /\ UNCHANGED <<conns, age, table>>
             /\ \A c \in Conn : handle'[c] = "open" => handle[c] = "open"
      PROVE Goal
  BY <1>0, <1>2 DEF SilenceOrder
<1>3. CASE CallShutdown \/ IterConnsShutdown \/ \E c \in Conn : AppRef(c) \/ AppUnref(c)
  BY <1>2, <1>3 DEF CallShutdown, IterConnsShutdown, Shutdown, AppRef, AppUnref
<1>4. ASSUME NEW c \in Conn, NEW accepted \in BOOLEAN, OnConnection(c, accepted)
      PROVE Goal
  <2>1. table = "live" /\ ~Present(conns, c) /\ Distinct(conns)
    BY <1>4, FreshAddress DEF OnConnection, IInv, ServerRuns, TableMatchesHandles
  <2>2. conns' = Append(conns, c)
    BY <1>0, <1>4, <2>1, InsertProperties DEF OnConnection, TypeOK
  <2>3. /\ Len(conns') = Len(conns) + 1
        /\ \A q \in 1..Len(conns) : conns'[q] = conns[q]
        /\ conns'[Len(conns) + 1] = c
    BY <1>0, <2>2, AppendProperties DEF TypeOK
  <2>4. \A q \in 1..Len(conns) : conns[q] # c
    BY <1>0, <2>1 DEF Present
  <2>5. CASE j = Len(conns) + 1
    <3>1. age'[c] = 0
      BY <1>0, <1>4, <2>3, <2>5 DEF OnConnection, TypeOK
    <3>2. age'[conns'[i]] \in Nat
      BY <1>0, ServerAssumption DEF TypeOK, MaxAge
    <3> QED BY <2>3, <2>5, <3>1, <3>2
  <2>6. CASE j \in 1..Len(conns)
    <3>1. /\ i \in 1..Len(conns)
          /\ conns'[i] = conns[i] /\ conns'[j] = conns[j]
          /\ conns[i] # c /\ conns[j] # c
      BY <1>0, <2>3, <2>4, <2>6
    <3>2. /\ age'[conns[i]] = age[conns[i]] /\ age'[conns[j]] = age[conns[j]]
          /\ handle'[conns[j]] = handle[conns[j]]
      BY <1>0, <1>4, <2>6, <3>1 DEF OnConnection, TypeOK
    <3> QED BY <1>0, <2>1, <2>6, <3>1, <3>2 DEF SilenceOrder
  <2> QED BY <1>0, <2>3, <2>5, <2>6
<1>5. ASSUME NEW c \in Conn, OnReadData(c) PROVE Goal
  <2> DEFINE d == Delete(conns, c)
  <2>1. table = "live"
    BY <1>5 DEF OnReadData, Callback, Shutdown
  <2>2. Distinct(conns) /\ conns \in Seq(Conn) /\ conns' = Touch(conns, c)
    BY <1>0, <1>5, <2>1 DEF OnReadData, IInv, TableMatchesHandles, TypeOK
  <2>3. conns' = Append(d, c) /\ d \in Seq(Conn) /\ ~Present(d, c)
    BY <2>2, TouchProperties
  <2>4. /\ Len(d) \in Nat /\ DOMAIN d = 1..Len(d)
        /\ Len(conns') = Len(d) + 1
        /\ \A q \in 1..Len(d) : conns'[q] = d[q]
        /\ conns'[Len(d) + 1] = c
    <3> HIDE DEF d
    <3> QED BY <2>3, AppendProperties, LenProperties
  <2>5. CASE j = Len(d) + 1
    <3>1. age'[c] = 0
      BY <1>0, <1>5 DEF OnReadData, TypeOK
    <3>2. age'[conns'[i]] \in Nat
      BY <1>0, ServerAssumption DEF TypeOK, MaxAge
    <3> QED BY <2>4, <2>5, <3>1, <3>2
  <2>6. CASE j \in 1..Len(d)
    <3>1. i \in DOMAIN d /\ j \in DOMAIN d /\ conns'[i] = d[i] /\ conns'[j] = d[j]
      BY <1>0, <2>4, <2>6
    <3>2. PICK m \in DOMAIN conns, n \in DOMAIN conns :
            m < n /\ d[i] = conns[m] /\ d[j] = conns[n]
      BY <2>2, <3>1, DeleteKeepsOrder
    <3>3. d[i] # c /\ d[j] # c
      BY <2>3, <3>1 DEF Present
    <3>4. /\ age'[conns[m]] = age[conns[m]] /\ age'[conns[n]] = age[conns[n]]
          /\ handle'[conns[n]] = handle[conns[n]]
      BY <1>0, <1>5, <3>2, <3>3 DEF OnReadData, TypeOK
    <3> QED BY <1>0, <2>1, <3>1, <3>2, <3>4 DEF SilenceOrder
  <2> QED BY <1>0, <2>4, <2>5, <2>6
<1>6. CASE \E c \in Conn : OnReadError(c)
  <2>1. PICK c \in Conn : OnReadError(c)
    BY <1>6
  <2>2. /\ UNCHANGED <<conns, age>> /\ table = "live"
        /\ handle' = [handle EXCEPT ![c] = "closing"]
    BY <2>1 DEF OnReadError, Callback, Shutdown
  <2>3. \A x \in Conn : handle'[x] = "open" => handle[x] = "open"
    BY <1>0, <2>2 DEF TypeOK
  <2> QED BY <1>2, <2>2, <2>3
<1>7. ASSUME NEW c \in Conn, AfterClose(c) PROVE Goal
  <2>1. table = "live" /\ conns' = Delete(conns, c) /\ conns \in Seq(Conn)
    BY <1>0, <1>7 DEF AfterClose, Callback, Shutdown, Unlist, TypeOK
  <2>2. PICK m \in DOMAIN conns, n \in DOMAIN conns :
          m < n /\ conns'[i] = conns[m] /\ conns'[j] = conns[n]
    BY <2>1, DeleteKeepsOrder
  <2>3. age' = age /\ handle[conns[n]] = "open"
    BY <1>0, <1>7, <2>2 DEF AfterClose, TypeOK
  <2> QED BY <1>0, <2>1, <2>2, <2>3 DEF SilenceOrder
<1>8. CASE Heartbeat \/ HeartbeatShutdown
             \/ \E n \in DOMAIN conns : HeartbeatClosingShutdown(n)
  <2>1. /\ UNCHANGED <<conns, age>>
        /\ \A c \in Conn : handle'[c] = "open" => handle[c] = "open"
    BY <1>8, HeartbeatSteps
  <2>2. table = "live"
    BY <1>8 DEF Heartbeat, HeartbeatShutdown, HeartbeatClosingShutdown, Shutdown
  <2> QED BY <1>2, <2>1, <2>2
<1>9. CASE Tick
  <2>1. /\ conns' = conns /\ handle' = handle /\ table = "live"
        /\ conns[i] \in Conn /\ conns[j] \in Conn
    BY <1>0, <1>9 DEF Tick
  <2>2. Present(conns, conns[i]) /\ Present(conns, conns[j])
    BY <2>1 DEF Present
  <2>3. mem[conns[i]] /\ mem[conns[j]]
    BY <2>1, <2>2, AllocatedWhenReached
  <2>4. age[conns[i]] \in Nat /\ age[conns[j]] \in Nat /\ MaxAge \in Nat
    BY <1>0, <2>1, ServerAssumption DEF TypeOK, MaxAge
  <2>5. age[conns[i]] >= age[conns[j]]
    BY <1>0, <2>1 DEF SilenceOrder
  <2>6. /\ age'[conns[i]] = IF age[conns[i]] < MaxAge THEN age[conns[i]] + 1
                                                     ELSE age[conns[i]]
        /\ age'[conns[j]] = IF age[conns[j]] < MaxAge THEN age[conns[j]] + 1
                                                     ELSE age[conns[j]]
    BY <1>9, <2>1, <2>3 DEF Tick
  <2>7. age[conns[i]] <= MaxAge
    BY <1>0, <2>1, ServerAssumption DEF TypeOK, MaxAge
  <2> QED BY <2>1, <2>4, <2>5, <2>6, <2>7
<1>10. CASE NoTimerDue \/ EndPoll \/ EndClosing
  BY <1>2, <1>10 DEF NoTimerDue, EndPoll, EndClosing
<1> QED
  BY <1>1, <1>3, <1>4, <1>5, <1>6, <1>7, <1>8, <1>9, <1>10
  DEF Next, App, Handlers, Loop

-----------------------------------------------------------------------------
\* IInv is inductive.
LEMMA Invariance == Spec => []IInv
PROOF
<1>1. IInv /\ [Next]_vars => IInv'
  <2>1. ASSUME IInv, Next PROVE IInv'
    BY <2>1, TypeStep, RefcountStep, TableStep, PhaseStep, SilenceStep DEF IInv
  <2>2. ASSUME IInv, UNCHANGED vars PROVE IInv'
    BY <2>2 DEF IInv, vars, connVars, serverVars, TypeOK, RefcountExact,
      TableMatchesHandles, ServerRuns, NotStarted, NothingClosingAtTimers,
      SilenceOrder, NoDoubleClose
  <2> QED BY <2>1, <2>2
<1> QED BY InitIInv, <1>1, PTL DEF Spec

\* Every variable keeps its type; no reference count goes below zero.
THEOREM TypeCorrect == Spec => []TypeOK
PROOF
<1>1. IInv => TypeOK
  BY DEF IInv
<1> QED BY Invariance, <1>1, PTL

\* uvx_server_conn_ref frees a connection exactly when libuv and the
\* application are both done with it.
THEOREM RefcountsAreExact == Spec => []RefcountExact
PROOF
<1>1. IInv => RefcountExact
  BY DEF IInv
<1> QED BY Invariance, <1>1, PTL

\* privates.conns lists exactly the connections libuv knows.
THEOREM TableIsExact == Spec => []TableMatchesHandles
PROOF
<1>1. IInv => TableMatchesHandles
  BY DEF IInv
<1> QED BY Invariance, <1>1, PTL

\* the connections stand in the table in the order they fell silent
THEOREM TableIsOrdered == Spec => []SilenceOrder
PROOF
<1>1. IInv => SilenceOrder
  BY DEF IInv
<1> QED BY Invariance, <1>1, PTL

\* the server never closes a connection's handle twice
THEOREM ClosesOnce == Spec => []NoDoubleClose
PROOF
<1>1. IInv => NoDoubleClose
  BY DEF IInv
<1> QED BY Invariance, <1>1, PTL

\* The early break of _uvx_check_timeout_clients misses no silent connection.
THEOREM HeartbeatIsExact == Spec => HeartbeatClosesExactlyTheSilent
PROOF
<1> DEFINE Exact == Heartbeat /\ ConnTimeout > 0 =>
              {c \in Conn : handle'[c] # handle[c]}
                = {c \in Conn : handle[c] = "open" /\ age[c] > ConnTimeout}
<1>1. ASSUME IInv, Heartbeat, ConnTimeout > 0
      PROVE  {c \in Conn : handle'[c] # handle[c]}
               = {c \in Conn : handle[c] = "open" /\ age[c] > ConnTimeout}
  <2>1. table = "live"
    BY <1>1 DEF Heartbeat, IInv, ServerRuns
  <2>2. Len(conns) \in Nat /\ DOMAIN conns = 1..Len(conns)
    BY <1>1, LenProperties DEF IInv, TypeOK
  <2>3. \A c \in SilentPrefix : handle[c] = "open"
    BY <1>1, SilentPrefixOpen DEF Heartbeat
  <2>4. ASSUME NEW c \in SilentPrefix PROVE age[c] > ConnTimeout
    BY <2>2 DEF SilentPrefix, Silent
  <2>5. ASSUME NEW c \in Conn, handle[c] = "open", age[c] > ConnTimeout
        PROVE  c \in SilentPrefix
    <3>1. PICK i \in DOMAIN conns : conns[i] = c
      BY <1>1, <2>1, <2>5 DEF IInv, TableMatchesHandles, Present
    <3>2. ASSUME NEW j \in 1..i PROVE Silent(conns[j])
      <4>1. CASE j = i
        BY <2>5, <3>1, <4>1 DEF Silent
      <4>2. CASE j # i
        <5>1. j \in DOMAIN conns /\ j < i
          BY <2>2, <4>2
        <5>2. age[conns[j]] >= age[c]
          BY <1>1, <2>1, <2>5, <3>1, <5>1 DEF IInv, SilenceOrder
        <5>3. conns[j] \in Conn
          BY <1>1, <2>2, <5>1, ElementOfSeq DEF IInv, TypeOK
        <5>4. age[conns[j]] \in Int /\ age[c] \in Int /\ ConnTimeout \in Int
          BY <1>1, <5>3, ServerAssumption DEF IInv, TypeOK, MaxAge
        <5> QED BY <2>5, <5>2, <5>4 DEF Silent
      <4> QED BY <4>1, <4>2
    <3> QED BY <3>1, <3>2 DEF SilentPrefix
  <2>6. SilentPrefix = {c \in Conn : handle[c] = "open" /\ age[c] > ConnTimeout}
    BY <2>3, <2>4, <2>5 DEF SilentPrefix
  <2>7. handle' = [c \in Conn |-> IF c \in SilentPrefix THEN "closing"
                                                       ELSE handle[c]]
    BY <1>1 DEF Heartbeat
  <2> QED BY <2>3, <2>6, <2>7
<1>2. IInv => Exact
  BY <1>1
<1>3. IInv /\ [Next]_vars => [Exact]_vars
  BY <1>2
<1> QED BY Invariance, <1>3, PTL DEF Spec, HeartbeatClosesExactlyTheSilent

-----------------------------------------------------------------------------
(* The session.                                                            *)

ClientP == INSTANCE UvxClientProofs WITH
  phase <- cphase, timer <- ctimer, fault <- cfault,
  Repeats <- TRUE, FailsAtOnce <- TRUE, AppWaits <- TRUE

\* the server is not shut down, and no contract is broken
ServerSound == IInv /\ table # "freed" /\ fault = "none"

ClientSound == ClientP!IInv /\ cfault = "none"

TcpTypeOK ==
  /\ end \in {"none", "backlog", "up", "reset", "gone"}
  /\ peer \in [Conn -> {"none", "here"} \cup GivenUp]
  /\ backlog \in 0..ConnBacklog
  /\ sent \in BOOLEAN

\* The two ends of a connection agree: at most one connection of the server
\* is the client's, there is one exactly while the client's socket is
\* connected to one, and what waits in the backlog waits for a listener.
EndsAgree ==
  /\ \A c \in Conn : peer[c] # "none" <=> handle[c] = "open"
  /\ \A c, d \in Conn : peer[c] = "here" /\ peer[d] = "here" => c = d
  /\ end = "up" <=> \E c \in Conn : peer[c] = "here"
  /\ end # "none" <=> sock = "connected"
  /\ end = "backlog" => backlog > 0
  /\ backlog > 0 => listener = "listening"
  /\ sent => end # "none"

ReplyOK == reply \in Conn \cup {None} /\ RepliesEndWithConnection

SInv == ServerSound /\ ClientSound /\ TcpTypeOK /\ EndsAgree /\ ReplyOK

-----------------------------------------------------------------------------
\* The initial states satisfy the invariant.
LEMMA InitSInv == SessionInit => SInv
PROOF
<1> SUFFICES ASSUME SessionInit PROVE SInv
  OBVIOUS
<1>1. ServerSound
  BY InitIInv DEF SessionInit, ServerSound, Init
<1>2. ClientP!Init
  BY DEF SessionInit, Client!Init, ClientP!Init
<1>3. ClientSound
  BY <1>2, ClientP!InitIInv DEF ClientSound, ClientP!Init
<1>4. TcpTypeOK
  <2>1. peer = [c \in Conn |-> "none"] /\ backlog = 0 /\ end = "none" /\ sent = FALSE
    BY DEF SessionInit, TcpInit
  <2>2. backlog \in 0..ConnBacklog
    BY <2>1, SessionAssumption
  <2>3. "none" \in {"none", "here"} \cup GivenUp
    OBVIOUS
  <2> QED BY <2>1, <2>2, <2>3 DEF TcpTypeOK
<1>5. EndsAgree
  BY DEF SessionInit, TcpInit, EndsAgree, Init, Client!Init
<1>6. ReplyOK
  BY DEF SessionInit, ReplyOK, RepliesEndWithConnection
<1> QED BY <1>1, <1>3, <1>4, <1>5, <1>6 DEF SInv

-----------------------------------------------------------------------------
(* The server.                                                             *)

\* While nobody shuts the server down, no handler uses a freed table or
\* closes a handle twice.
LEMMA NoFault ==
  ASSUME ServerSound, Next, table' # "freed"
  PROVE  fault' = "none"
PROOF
<1> USE DEF ServerSound
<1>1. fault' # "close"
  BY PhaseStep DEF NoDoubleClose
<1>2. fault' \in {"none", "table", "close"}
  BY TypeStep DEF TypeOK
<1>3. ASSUME NEW c \in Conn, OnReadData(c) PROVE fault' = "none"
  <2>1. table = "live"
    BY <1>3 DEF OnReadData, IInv, TypeOK, NotStarted
  <2> QED BY <1>3, <2>1 DEF OnReadData
<1>4. ASSUME NEW c \in Conn, AfterClose(c) PROVE fault' = "none"
  <2>1. table = "live"
    BY <1>4 DEF AfterClose, IInv, TypeOK, NotStarted
  <2>2. table' = "live"
    BY <1>4, <2>1 DEF AfterClose, Callback, Shutdown, serverVars
  <2> QED BY <1>4, <2>2 DEF AfterClose
<1>5. CASE Heartbeat
  <2>1. fault' \in {"close", "none"}
    BY <1>5 DEF Heartbeat, CloseFault
  <2> QED BY <1>1, <2>1
<1>6. ~HeartbeatShutdown /\ ~CallShutdown /\ ~IterConnsShutdown
        /\ \A n \in DOMAIN conns : ~HeartbeatClosingShutdown(n)
  BY DEF HeartbeatShutdown, CallShutdown, IterConnsShutdown,
    HeartbeatClosingShutdown, Shutdown
<1>7. ASSUME NEW c \in Conn,
             \/ \E accepted \in BOOLEAN : OnConnection(c, accepted)
             \/ OnReadError(c) \/ AppRef(c) \/ AppUnref(c)
      PROVE fault' = "none"
  BY <1>7 DEF OnConnection, OnReadError, AppRef, AppUnref
<1>8. ASSUME NEW ok \in BOOLEAN, Start(ok) PROVE fault' = "none"
  BY <1>8 DEF Start
<1>9. CASE Loop
  BY <1>9 DEF Loop, Tick, NoTimerDue, EndPoll, EndClosing
<1> QED
  BY <1>3, <1>4, <1>5, <1>6, <1>7, <1>8, <1>9 DEF Next, App, Handlers

\* A step of the session's server is a step of UvxServer, none of it, or the
\* program's death.
LEMMA ServerMoves ==
  ASSUME ServerSound, ServerNext
  PROVE  Next \/ UNCHANGED vars \/ ServerDies
PROOF
<1> USE DEF ServerSound, Next, App, Handlers, Loop
<1>1. ASSUME NEW c \in Conn, NEW seen \in GivenUp, Accept(c, seen)
      PROVE  Next
  BY <1>1 DEF Accept
<1>2. ASSUME NEW c \in Conn, ServerRead(c) \/ ServerReadEnd(c) \/ ServerAfterClose(c)
      PROVE  Next
  BY <1>2 DEF ServerRead, ServerReadEnd, ServerAfterClose
<1>3. ASSUME NEW c \in Conn, ServerSend(c) \/ ServerAfterSend(c)
      PROVE  UNCHANGED vars
  BY <1>3 DEF ServerSend, ServerAfterSend
<1>4. CASE ServerStart \/ ServerTick \/ ServerHeartbeat \/ ServerLoop
  BY <1>4 DEF ServerStart, ServerTick, ServerHeartbeat, ServerLoop
<1> QED BY <1>1, <1>2, <1>3, <1>4 DEF ServerNext

\* The server's invariant says nothing of the other variables.
LEMMA ServerStutters == ServerSound /\ UNCHANGED vars => ServerSound'
PROOF
<1> SUFFICES ASSUME ServerSound, UNCHANGED vars PROVE ServerSound'
  OBVIOUS
<1> QED
  BY DEF ServerSound, IInv, vars, connVars, serverVars, TypeOK, RefcountExact,
    TableMatchesHandles, ServerRuns, NotStarted, NothingClosingAtTimers,
    SilenceOrder, NoDoubleClose

\* A server whose program died is as it was before it was started.
LEMMA DeadServer == ServerSound /\ ServerDies => ServerSound'
PROOF
<1> SUFFICES ASSUME ServerSound, ServerDies PROVE ServerSound'
  OBVIOUS
<1>0. fault' = "none" /\ table' = "none"
  BY DEF ServerSound, ServerDies
<1>1. TypeOK'
  BY <1>0, ServerAssumption, EmptySeq DEF ServerDies, TypeOK, MaxAge
<1>2. RefcountExact'
  BY DEF ServerDies, RefcountExact
<1>3. /\ TableMatchesHandles' /\ ServerRuns' /\ NotStarted' /\ SilenceOrder'
      /\ NothingClosingAtTimers' /\ NoDoubleClose'
  BY <1>0 DEF ServerDies, TableMatchesHandles, ServerRuns, NotStarted, SilenceOrder,
    NothingClosingAtTimers, NoDoubleClose
<1> QED BY <1>0, <1>1, <1>2, <1>3 DEF ServerSound, IInv

LEMMA ServerKeepsSound ==
  ASSUME ServerSound, ServerStep(ServerNext)
  PROVE  ServerSound'
PROOF
<1>0. ServerNext /\ table' # "freed"
  BY DEF ServerStep
<1>1. CASE Next
  <2>1. fault' = "none"
    BY <1>0, <1>1, NoFault
  <2> QED
    BY <1>0, <1>1, <2>1, TypeStep, RefcountStep, TableStep, PhaseStep, SilenceStep
    DEF ServerSound, IInv
<1>2. CASE UNCHANGED vars
  BY <1>2, ServerStutters
<1>3. CASE ServerDies
  BY <1>3, DeadServer
<1> QED BY <1>0, <1>1, <1>2, <1>3, ServerMoves

-----------------------------------------------------------------------------
(* The client.                                                             *)

\* A step of the session's client is a step of UvxClient, the program's
\* death, or none of it.
LEMMA ClientMoves ==
  ASSUME ClientSound, ClientNext
  PROVE  \/ ClientP!Next \/ UNCHANGED clientVars
         \/ \E seen \in GivenUp : ClientDies(seen)
PROOF
<1> USE DEF ClientSound
<1> USE DEF ClientP!Next, ClientP!App, ClientP!Socket, ClientP!Reactions
<1>1. CASE ClientConnect
  <2>1. ASSUME NEW failed \in BOOLEAN, Client!Connect(failed)
        PROVE  ClientP!Connect(failed)
    BY <2>1 DEF Client!Connect, ClientP!Connect, Client!Reconnect,
      ClientP!Reconnect, Client!FlagAfterDial, ClientP!FlagAfterDial,
      Client!InitFault, ClientP!InitFault
  <2> QED BY <1>1, <2>1 DEF ClientConnect
<1>2. CASE Connected \/ ConnectFails
  <2> USE DEF Client!React, ClientP!React, Client!LeavesTimer, ClientP!LeavesTimer
  <2>1. ClientP!OnConnectOk("nothing") \/ ClientP!OnConnectFail("nothing")
    BY <1>2 DEF Connected, ConnectFails, Client!OnConnectOk, Client!OnConnectFail,
      ClientP!OnConnectOk, ClientP!OnConnectFail
  <2> QED BY <2>1
<1>3. CASE ClientRead \/ ClientReadError \/ ClientAfterClose
  <2> USE DEF Client!React, ClientP!React, Client!LeavesTimer, ClientP!LeavesTimer
  <2>1. \/ ClientP!OnReadData("nothing") \/ ClientP!OnReadError("nothing")
        \/ ClientP!AfterClose("nothing")
    BY <1>3 DEF ClientRead, ClientReadError, ClientAfterClose, Client!OnReadData,
      ClientP!OnReadData, Client!OnReadError, ClientP!OnReadError,
      Client!AfterClose, ClientP!AfterClose, Client!Disconnected,
      ClientP!Disconnected, Client!CloseFault, ClientP!CloseFault,
      Client!ServerAfterClose, ClientP!ServerAfterClose, Client!FlagAfterClose,
      ClientP!FlagAfterClose, Client!CanceledWrites, ClientP!CanceledWrites
  <2> QED BY <2>1
<1>4. CASE ClientSend \/ \E d \in Data : ClientAfterSend(d)
  <2>1. \E d \in Data : ClientP!Send(d) \/ ClientP!AfterSend(d)
    BY <1>4 DEF ClientSend, ClientAfterSend, Client!Send, ClientP!Send,
      Client!AfterSend, ClientP!AfterSend, Client!SendWrites, ClientP!SendWrites,
      Client!Written, ClientP!Written, Client!sockVars, ClientP!sockVars
  <2> QED BY <2>1
<1>5. CASE ClientShutdown
  <2>1. ClientP!CallDisconnect("shutdown")
    BY <1>5 DEF ClientShutdown, Client!CallDisconnect, ClientP!CallDisconnect,
      Client!React, ClientP!React, Client!LeavesTimer, ClientP!LeavesTimer,
      Client!Disconnected, ClientP!Disconnected, Client!DisconnectCloses,
      ClientP!DisconnectCloses, Client!CloseFault, ClientP!CloseFault
  <2> QED BY <2>1
<1>6. CASE ClientHeartbeat
  <2> USE DEF Client!Fires, ClientP!Fires, Client!Rearmed, ClientP!Rearmed
  <2>1. ASSUME NEW r \in ClientP!Reactions, Client!HeartbeatBeat(r)
        PROVE  ClientP!HeartbeatBeat(r)
    BY <2>1 DEF Client!HeartbeatBeat, ClientP!HeartbeatBeat, Client!React,
      ClientP!React, Client!LeavesTimer, ClientP!LeavesTimer,
      Client!Disconnected, ClientP!Disconnected, Client!DisconnectCloses,
      ClientP!DisconnectCloses, Client!CloseFault, ClientP!CloseFault
  <2>2. ASSUME NEW failed \in BOOLEAN, Client!HeartbeatRedial(failed)
        PROVE  ClientP!HeartbeatRedial(failed)
    BY <2>2 DEF Client!HeartbeatRedial, ClientP!HeartbeatRedial,
      Client!RedialDue, ClientP!RedialDue, Client!Reconnect, ClientP!Reconnect,
      Client!FlagAfterDial, ClientP!FlagAfterDial, Client!InitFault,
      ClientP!InitFault
  <2>3. Client!HeartbeatIdle => ClientP!HeartbeatIdle
    BY DEF Client!HeartbeatIdle, ClientP!HeartbeatIdle, Client!RedialDue,
      ClientP!RedialDue, Client!sockVars, ClientP!sockVars
  <2>4. ClientP!Heartbeat
    BY <1>6, <2>1, <2>2, <2>3
      DEF ClientHeartbeat, Client!Heartbeat, ClientP!Heartbeat, Client!Reactions
  <2> QED BY <2>4
<1>7. CASE ClientLoop
  <2>1. ClientP!Loop
    BY <1>7 DEF ClientLoop, ClientP!Loop, Client!NoTimerDue, ClientP!NoTimerDue,
      Client!EndPoll, ClientP!EndPoll, Client!EndClosing, ClientP!EndClosing,
      Client!sockVars, ClientP!sockVars
  <2> QED BY <2>1
<1>8. CASE LinkLost
  BY <1>8 DEF LinkLost
<1> QED BY <1>1, <1>2, <1>3, <1>4, <1>5, <1>6, <1>7, <1>8 DEF ClientNext

\* The client's invariant says nothing of the other variables.
LEMMA ClientStutters == ClientSound /\ UNCHANGED clientVars => ClientSound'
PROOF
<1> SUFFICES ASSUME ClientSound, UNCHANGED clientVars PROVE ClientSound'
  OBVIOUS
<1> QED
  BY DEF ClientSound, clientVars, ClientP!IInv, ClientP!TypeOK,
    ClientP!FieldsTrackSocket, ClientP!TimerFollowsRun,
    ClientP!NeverReinitsLiveHandle, ClientP!WritesEndWithConnection,
    ClientP!PatientApp, ClientP!NoDoubleClose, ClientP!NothingLeaks

\* A client whose program died is as it was before it connected.
LEMMA DeadClient ==
  ASSUME ClientSound, NEW seen \in GivenUp, ClientDies(seen)
  PROVE  ClientSound'
PROOF
<1>0. cfault' = "none"
  BY DEF ClientSound, ClientDies
<1>1. ClientP!TypeOK'
  BY <1>0 DEF ClientDies, ClientP!TypeOK
<1>2. /\ ClientP!FieldsTrackSocket' /\ ClientP!TimerFollowsRun'
      /\ ClientP!NeverReinitsLiveHandle'
  BY <1>0 DEF ClientDies, ClientP!FieldsTrackSocket, ClientP!TimerFollowsRun,
    ClientP!NeverReinitsLiveHandle
<1>3. \A d \in Data : data'[d] = "none"
  BY DEF ClientDies
<1>4. ClientP!WritesEndWithConnection' /\ ClientP!PatientApp'
  BY <1>0, <1>3 DEF ClientP!WritesEndWithConnection, ClientP!PatientApp,
    ClientP!NoDoubleClose, ClientP!NothingLeaks
<1> QED BY <1>0, <1>1, <1>2, <1>4 DEF ClientSound, ClientP!IInv

LEMMA ClientKeepsSound ==
  ASSUME ClientSound, ClientNext
  PROVE  ClientSound'
PROOF
<1>1. CASE ClientP!Next
  <2>1. ClientP!IInv'
    BY <1>1, ClientP!TypeStep, ClientP!SocketStep, ClientP!PatientStep
    DEF ClientSound, ClientP!IInv
  <2>2. cfault' = "none"
    BY <2>1 DEF ClientP!IInv, ClientP!TypeOK, ClientP!NeverReinitsLiveHandle,
      ClientP!PatientApp, ClientP!NoDoubleClose
  <2> QED BY <2>1, <2>2 DEF ClientSound
<1>2. CASE UNCHANGED clientVars
  BY <1>2, ClientStutters
<1>3. CASE \E seen \in GivenUp : ClientDies(seen)
  BY <1>3, DeadClient
<1> QED BY <1>1, <1>2, <1>3, ClientMoves

-----------------------------------------------------------------------------
(* The connection between them.                                            *)

Tcp == TcpTypeOK /\ EndsAgree

\* A callback that does not shut the server down leaves it as it is.
LEMMA QuietCallback == Callback /\ table' # "freed" => UNCHANGED serverVars
  BY DEF Callback, Shutdown

\* Handles the server closes are reset at the other end, no other is.
LEMMA ClosingAgrees ==
  ASSUME Tcp, ClosesPeers,
         \A c \in Conn : handle'[c] = "open" => handle[c] = "open",
         UNCHANGED <<listener, sock, backlog, sent>>
  PROVE  Tcp'
PROOF
<1> USE DEF Tcp, ClosesPeers
<1>1. TcpTypeOK'
  <2>1. peer' \in [Conn -> {"none", "here"} \cup GivenUp]
    BY DEF TcpTypeOK
  <2> QED BY <2>1 DEF TcpTypeOK
<1>2. \A c \in Conn : peer'[c] = IF handle'[c] = "open" THEN peer[c] ELSE "none"
  OBVIOUS
<1>3. CASE \E c \in Conn : peer[c] = "here" /\ handle'[c] # "open"
  <2>1. end = "up" /\ end' = "reset"
    BY <1>3 DEF EndsAgree
  <2>2. ~ \E c \in Conn : peer'[c] = "here"
    BY <1>2, <1>3 DEF EndsAgree
  <2> QED BY <1>1, <1>2, <2>1, <2>2 DEF EndsAgree
<1>4. CASE ~ \E c \in Conn : peer[c] = "here" /\ handle'[c] # "open"
  <2>1. end' = end
    BY <1>4
  <2>2. \A c \in Conn : peer'[c] = "here" <=> peer[c] = "here"
    BY <1>2, <1>4
  <2> QED BY <1>1, <1>2, <2>1, <2>2 DEF EndsAgree
<1> QED BY <1>3, <1>4

\* A socket the client closes is given up by the server's end.
LEMMA HangingUpAgrees ==
  ASSUME Tcp, NEW seen \in GivenUp, HangUp(seen), sock' # "connected",
         UNCHANGED <<handle, listener>>
  PROVE  Tcp'
PROOF
<1> USE DEF Tcp, HangUp
<1>0. seen # "none" /\ seen # "here"
  BY DEF GivenUp
<1>1. TcpTypeOK'
  <2>1. peer' \in [Conn -> {"none", "here"} \cup GivenUp]
    BY DEF TcpTypeOK
  <2> QED BY <2>1 DEF TcpTypeOK
<1>2. \A c \in Conn : /\ peer'[c] # "here"
                      /\ peer'[c] = "none" <=> peer[c] = "none"
  BY <1>0
<1>3. end' = "none" /\ sent' = FALSE /\ backlog' = backlog
  OBVIOUS
<1>4. EndsAgree'
  <2> HIDE DEF HangUp
  <2>1. \A c \in Conn : peer'[c] # "none" <=> handle'[c] = "open"
    BY <1>2 DEF EndsAgree
  <2>2. ~ \E c \in Conn : peer'[c] = "here"
    BY <1>2
  <2>3. backlog' > 0 => listener' = "listening"
    BY <1>3 DEF EndsAgree
  <2> QED BY <1>3, <2>1, <2>2, <2>3 DEF EndsAgree
<1> QED BY <1>1, <1>4

\* The server's steps.
LEMMA ServerAgrees ==
  ASSUME ServerSound, Tcp, ServerStep(ServerNext)
  PROVE  Tcp'
PROOF
<1> USE DEF Tcp, ServerSound
<1>0. sock' = sock /\ ServerNext /\ table' # "freed"
  BY DEF ServerStep, clientVars
<1>1. ASSUME NEW c \in Conn, NEW seen \in GivenUp, Accept(c, seen)
      PROVE  Tcp'
  <2> DEFINE own == end = "backlog" /\ backlog = 1
  <2>1. /\ backlog > 0 /\ backlog' = backlog - 1 /\ sent' = sent
        /\ peer' = [peer EXCEPT ![c] = IF own THEN "here" ELSE seen]
        /\ end' = IF own THEN "up" ELSE end
        /\ handle' = [handle EXCEPT ![c] = "open"]
    BY <1>1 DEF Accept, OnConnection
  <2>2. listener' = listener /\ listener = "listening"
    BY <1>0, <1>1, QuietCallback DEF Accept, OnConnection, serverVars
  <2>3. handle[c] = "none" /\ peer[c] = "none"
    BY <1>1, FreshAddress DEF Accept, OnConnection, EndsAgree
  <2>4. backlog \in Nat /\ backlog' \in 0..ConnBacklog
    BY <2>1, SessionAssumption DEF TcpTypeOK
  <2>5. peer \in [Conn -> {"none", "here"} \cup GivenUp]
        /\ handle \in [Conn -> {"none", "open", "closing"}]
    BY DEF TcpTypeOK, IInv, TypeOK
  <2>6. seen # "none" /\ seen # "here"
    BY DEF GivenUp
  <2>7. TcpTypeOK'
    <3>1. peer' \in [Conn -> {"none", "here"} \cup GivenUp]
      BY <2>1, <2>5
    <3>2. end' \in {"none", "backlog", "up", "reset", "gone"} /\ sent' \in BOOLEAN
      BY <2>1 DEF TcpTypeOK
    <3> QED BY <2>4, <3>1, <3>2 DEF TcpTypeOK
  <2>8. \A x \in Conn : peer'[x] # "none" <=> handle'[x] = "open"
    BY <2>1, <2>5, <2>6 DEF EndsAgree
  <2>9. CASE own
    <3>1. \A x \in Conn : peer'[x] = "here" <=> x = c
      BY <2>1, <2>5, <2>9 DEF EndsAgree
    <3> QED BY <1>0, <2>1, <2>2, <2>4, <2>7, <2>8, <2>9, <3>1 DEF EndsAgree
  <2>10. CASE ~own
    <3>1. \A x \in Conn : peer'[x] = "here" <=> peer[x] = "here"
      BY <2>1, <2>3, <2>5, <2>6, <2>10
    <3>2. end' = end /\ (end' = "backlog" => backlog' > 0)
      BY <2>1, <2>4, <2>10
    <3> QED BY <1>0, <2>1, <2>2, <2>7, <2>8, <3>1, <3>2 DEF EndsAgree
  <2> QED BY <2>9, <2>10
<1>2. ASSUME NEW c \in Conn, ServerRead(c) PROVE Tcp'
  <2>1. /\ UNCHANGED <<end, peer, backlog, handle>> /\ sent' = FALSE
        /\ listener' = listener
    BY <1>0, <1>2, QuietCallback DEF ServerRead, OnReadData, serverVars
  <2> QED BY <1>0, <2>1 DEF TcpTypeOK, EndsAgree
<1>3. ASSUME NEW c \in Conn, ServerReadEnd(c) PROVE Tcp'
  <2>1. /\ ClosesPeers /\ UNCHANGED <<backlog, sent, listener>>
        /\ handle' = [handle EXCEPT ![c] = "closing"]
    BY <1>0, <1>3, QuietCallback DEF ServerReadEnd, OnReadError, serverVars
  <2>2. \A x \in Conn : handle'[x] = "open" => handle[x] = "open"
    BY <2>1 DEF IInv, TypeOK
  <2> QED BY <1>0, <2>1, <2>2, ClosingAgrees
<1>4. ASSUME NEW c \in Conn, ServerAfterClose(c) PROVE Tcp'
  <2>1. /\ UNCHANGED tcpVars /\ listener' = listener /\ handle[c] = "closing"
        /\ handle' = [handle EXCEPT ![c] = "none"]
    BY <1>0, <1>4, QuietCallback DEF ServerAfterClose, AfterClose, serverVars
  <2>2. \A x \in Conn : handle'[x] = "open" <=> handle[x] = "open"
    BY <2>1 DEF IInv, TypeOK
  <2> QED BY <1>0, <2>1, <2>2 DEF TcpTypeOK, EndsAgree, tcpVars
<1>5. CASE ServerHeartbeat
  <2>1. /\ ClosesPeers /\ UNCHANGED <<backlog, sent, listener>>
    BY <1>5 DEF ServerHeartbeat, Heartbeat, serverVars
  <2>2. \A x \in Conn : handle'[x] = "open" => handle[x] = "open"
    BY <1>5, HeartbeatSteps DEF ServerHeartbeat
  <2> QED BY <1>0, <2>1, <2>2, ClosingAgrees
<1>6. CASE \/ ServerStart \/ ServerTick \/ ServerLoop
           \/ \E c \in Conn : ServerSend(c) \/ ServerAfterSend(c)
  <2>1. /\ UNCHANGED tcpVars /\ handle' = handle
        /\ listener = "listening" => listener' = "listening"
    BY <1>6 DEF ServerStart, ServerTick, ServerLoop, ServerSend, ServerAfterSend,
      Start, Tick, NoTimerDue, EndPoll, EndClosing, vars, connVars, serverVars
  <2> QED BY <1>0, <2>1 DEF TcpTypeOK, EndsAgree, tcpVars
<1>7. CASE ServerDies
  <2>1. /\ \A c \in Conn : peer'[c] = "none" /\ handle'[c] = "none"
        /\ backlog' = 0 /\ sent' = sent
        /\ end' = IF end \in {"backlog", "up"} THEN "reset" ELSE end
    BY <1>7 DEF ServerDies
  <2>2. TcpTypeOK'
    <3>1. peer' \in [Conn -> {"none", "here"} \cup GivenUp]
      BY <1>7 DEF ServerDies
    <3>2. backlog' \in 0..ConnBacklog
      BY <2>1, SessionAssumption
    <3> QED BY <2>1, <3>1, <3>2 DEF TcpTypeOK
  <2> QED BY <1>0, <2>1, <2>2 DEF EndsAgree
<1> QED BY <1>0, <1>1, <1>2, <1>3, <1>4, <1>5, <1>6, <1>7 DEF ServerNext

\* The client's steps, and the loss of the link.
LEMMA ClientAgrees ==
  ASSUME ClientSound, Tcp, ClientStep(ClientNext)
  PROVE  Tcp'
PROOF
<1> USE DEF Tcp, ClientSound
<1>0. ClientNext /\ UNCHANGED <<handle, listener>>
  BY DEF ClientStep, vars, connVars, serverVars
<1>1. ASSUME UNCHANGED tcpVars, sock' = "connected" <=> sock = "connected"
      PROVE  Tcp'
  BY <1>0, <1>1 DEF TcpTypeOK, EndsAgree, tcpVars
<1>2. CASE Connected
  <2>1. /\ sock = "connecting" /\ sock' = "connected"
        /\ listener = "listening" /\ backlog < ConnBacklog
        /\ end' = "backlog" /\ backlog' = backlog + 1
        /\ UNCHANGED <<peer, sent>>
    BY <1>2 DEF Connected, Client!OnConnectOk
  <2>2. backlog' \in 0..ConnBacklog /\ backlog' > 0
    BY <2>1, SessionAssumption DEF TcpTypeOK
  <2> QED BY <1>0, <2>1, <2>2 DEF TcpTypeOK, EndsAgree
<1>3. CASE ClientReadError
  <2>1. HangUp("closed") /\ sock' = "closing"
    BY <1>3 DEF ClientReadError, Client!OnReadError
  <2> QED BY <1>0, <2>1, HangingUpAgrees DEF GivenUp
<1>4. CASE ClientShutdown
  <2>1. CASE sock' = "closing"
    BY <1>0, <1>4, <2>1, HangingUpAgrees DEF ClientShutdown, GivenUp
  <2>2. CASE sock' # "closing"
    <3>1. UNCHANGED tcpVars /\ sock' = sock
      BY <1>4, <2>2 DEF ClientShutdown, Client!CallDisconnect, Client!Disconnected
    <3> QED BY <1>1, <3>1
  <2> QED BY <2>1, <2>2
<1>5. ASSUME NEW seen \in GivenUp, ClientDies(seen) PROVE Tcp'
  BY <1>0, <1>5, HangingUpAgrees DEF ClientDies
<1>6. CASE LinkLost
  <2>1. /\ sock' = sock /\ end = "up" /\ end' = "gone" /\ UNCHANGED <<backlog, sent>>
        /\ peer' = [c \in Conn |-> IF peer[c] = "here" THEN "gone" ELSE peer[c]]
    BY <1>6 DEF LinkLost, clientVars
  <2>2. TcpTypeOK'
    <3>1. peer' \in [Conn -> {"none", "here"} \cup GivenUp]
      BY <2>1 DEF TcpTypeOK, GivenUp
    <3> QED BY <2>1, <3>1 DEF TcpTypeOK
  <2>3. \A c \in Conn : /\ peer'[c] # "here"
                        /\ peer'[c] = "none" <=> peer[c] = "none"
    BY <2>1
  <2> QED BY <1>0, <2>1, <2>2, <2>3 DEF EndsAgree
<1>7. ASSUME NEW d \in Data, ClientAfterSend(d) PROVE Tcp'
  <2>1. sock = "connected" /\ sock' = sock /\ sent' = TRUE
        /\ UNCHANGED <<end, peer, backlog>>
    BY <1>7 DEF ClientAfterSend, Client!AfterSend, Client!sockVars
  <2> QED BY <1>0, <2>1 DEF TcpTypeOK, EndsAgree
<1>8. CASE ClientConnect
  <2>1. sock = "none"
    BY <1>8 DEF ClientConnect, Client!Connect, ClientP!IInv, ClientP!TimerFollowsRun
  <2>2. sock' \in {"connecting", "idle"} /\ UNCHANGED tcpVars
    BY <1>8 DEF ClientConnect, Client!Connect, Client!Reconnect
  <2> QED BY <1>1, <2>1, <2>2
<1>9. CASE ConnectFails \/ ClientRead \/ ClientAfterClose \/ ClientSend \/ ClientLoop
  <2>1. UNCHANGED tcpVars /\ (sock' = "connected" <=> sock = "connected")
    BY <1>9 DEF ConnectFails, ClientRead, ClientAfterClose, ClientSend, ClientLoop,
      Client!OnConnectFail, Client!OnReadData, Client!Disconnected,
      Client!AfterClose, Client!Send, Client!NoTimerDue, Client!EndPoll,
      Client!EndClosing, Client!sockVars
  <2> QED BY <1>1, <2>1
<1>10. CASE ClientHeartbeat
  <2>1. ASSUME NEW r \in Client!Reactions, Client!HeartbeatBeat(r)
        PROVE  sock' = sock \/ sock' = "closing"
    BY <2>1 DEF Client!HeartbeatBeat, Client!Disconnected
  <2>2. ASSUME NEW failed \in BOOLEAN, Client!HeartbeatRedial(failed)
        PROVE  sock # "connected" /\ sock' # "connected"
    BY <2>2 DEF Client!HeartbeatRedial, Client!RedialDue, Client!Reconnect,
      ClientP!IInv, ClientP!FieldsTrackSocket
  <2>3. Client!HeartbeatIdle => sock' = sock
    BY DEF Client!HeartbeatIdle, Client!sockVars
  <2>4. sock' = "connected" <=> sock = "connected"
    BY <1>10, <2>1, <2>2, <2>3 DEF ClientHeartbeat, Client!Heartbeat
  <2> QED BY <1>1, <1>10, <2>4 DEF ClientHeartbeat
<1> QED
  BY <1>0, <1>2, <1>3, <1>4, <1>5, <1>6, <1>7, <1>8, <1>9, <1>10 DEF ClientNext

-----------------------------------------------------------------------------
(* Replies.                                                                *)

\* The server forgets a handle only in its close callback, before which
\* libuv has called back the handle's writes.
LEMMA ServerEndsReplies ==
  ASSUME ServerSound, ServerSound', ReplyOK, ServerStep(ServerNext)
  PROVE  ReplyOK'
PROOF
<1> DEFINE Goal == \/ reply = None
                   \/ reply \in Conn /\ handle[reply] # "none"
<1>0. /\ Goal
      /\ handle \in [Conn -> {"none", "open", "closing"}]
      /\ ServerNext
  BY DEF ReplyOK, RepliesEndWithConnection, ServerSound, IInv, TypeOK, ServerStep
<1>1. ASSUME reply' = reply,
             \A c \in Conn : handle'[c] = "none" => handle[c] = "none"
      PROVE  Goal'
  BY <1>0, <1>1
<1>2. ASSUME NEW c \in Conn, NEW seen \in GivenUp, Accept(c, seen)
      PROVE  Goal'
  BY <1>0, <1>1, <1>2 DEF Accept, OnConnection
<1>3. ASSUME NEW c \in Conn, ServerRead(c) \/ ServerReadEnd(c)
      PROVE  Goal'
  BY <1>0, <1>1, <1>3 DEF ServerRead, ServerReadEnd, OnReadData, OnReadError
<1>4. ASSUME NEW c \in Conn, ServerAfterClose(c)
      PROVE  Goal'
  BY <1>0, <1>4 DEF ServerAfterClose, AfterClose, CanceledReply
<1>5. ASSUME NEW c \in Conn, ServerSend(c) \/ ServerAfterSend(c)
      PROVE  Goal'
  BY <1>0, <1>5 DEF ServerSend, ServerAfterSend, vars, connVars
<1>6. ASSUME ServerHeartbeat PROVE Goal'
  <2>1. \A c \in Conn : handle'[c] = "none" => handle[c] = "none"
    BY <1>6, HeartbeatSteps DEF ServerHeartbeat, ServerSound
  <2> QED BY <1>1, <1>6, <2>1 DEF ServerHeartbeat
<1>7. ASSUME ServerStart \/ ServerTick \/ ServerLoop PROVE Goal'
  BY <1>0, <1>1, <1>7 DEF ServerStart, ServerTick, ServerLoop, Start, Tick,
    NoTimerDue, EndPoll, EndClosing, connVars
<1>8. ASSUME ServerDies PROVE Goal'
  BY <1>8 DEF ServerDies
<1>9. Goal'
  BY <1>0, <1>2, <1>3, <1>4, <1>5, <1>6, <1>7, <1>8 DEF ServerNext
<1>10. RepliesEndWithConnection'
  <2>1. ASSUME reply' # None
        PROVE  handle'[reply'] # "none" /\ mem'[reply']
    <3>1. reply' \in Conn /\ handle'[reply'] # "none"
      BY <1>9, <2>1
    <3>2. /\ held'[reply'] \in Nat
          /\ refcount'[reply'] = held'[reply'] + 1
          /\ mem'[reply'] <=> refcount'[reply'] > 0
      BY <3>1 DEF ServerSound, IInv, TypeOK, RefcountExact
    <3>3. refcount'[reply'] > 0
      BY <3>2
    <3> QED BY <3>1, <3>2, <3>3, Zenon
  <2> QED BY <2>1 DEF RepliesEndWithConnection
<1> QED BY <1>9, <1>10 DEF ReplyOK

-----------------------------------------------------------------------------
\* SInv is inductive.
LEMMA SessionInvariance == SessionSpec => []SInv
PROOF
<1>1. SInv /\ [SessionNext]_sessionVars => SInv'
  <2>1. ASSUME SInv, ServerStep(ServerNext) PROVE SInv'
    <3>1. ServerSound'
      BY <2>1, ServerKeepsSound DEF SInv
    <3>2. ClientSound'
      BY <2>1, ClientStutters DEF SInv, ServerStep
    <3>3. Tcp'
      BY <2>1, ServerAgrees DEF SInv, Tcp
    <3>4. ReplyOK'
      BY <2>1, <3>1, ServerEndsReplies DEF SInv
    <3> QED BY <3>1, <3>2, <3>3, <3>4 DEF SInv, Tcp
  <2>2. ASSUME SInv, ClientStep(ClientNext) PROVE SInv'
    <3>1. ServerSound'
      BY <2>2, ServerStutters DEF SInv, ClientStep
    <3>2. ClientSound'
      BY <2>2, ClientKeepsSound DEF SInv, ClientStep
    <3>3. Tcp'
      BY <2>2, ClientAgrees DEF SInv, Tcp
    <3>4. ReplyOK'
      BY <2>2 DEF SInv, ClientStep, ReplyOK, RepliesEndWithConnection, vars, connVars
    <3> QED BY <3>1, <3>2, <3>3, <3>4 DEF SInv, Tcp
  <2>3. ASSUME SInv, UNCHANGED sessionVars PROVE SInv'
    <3>1. ServerSound' /\ ClientSound'
      BY <2>3, ServerStutters, ClientStutters DEF SInv, sessionVars
    <3>2. TcpTypeOK' /\ EndsAgree' /\ ReplyOK'
      BY <2>3 DEF SInv, sessionVars, TcpTypeOK, EndsAgree, ReplyOK,
        RepliesEndWithConnection, vars, connVars, serverVars, clientVars, tcpVars
    <3> QED BY <3>1, <3>2 DEF SInv
  <2> QED BY <2>1, <2>2, <2>3 DEF SessionNext
<1> QED BY InitSInv, <1>1, PTL DEF SessionSpec

\* Every variable keeps its type, and neither program breaks a contract with
\* libuv whatever the other, the network and their deaths do: no freed table
\* is used, no handle is closed twice or initialised while libuv works on it.
THEOREM SessionKeepsContracts == SessionSpec => []SessionTypeOK
PROOF
<1>1. SInv => SessionTypeOK
  <2> SUFFICES ASSUME SInv PROVE SessionTypeOK
    OBVIOUS
  <2>1. Client!TypeOK
    BY DEF SInv, ClientSound, ClientP!IInv, ClientP!TypeOK, Client!TypeOK
  <2> QED BY <2>1 DEF SInv, ServerSound, IInv, ClientSound, TcpTypeOK, ReplyOK,
    SessionTypeOK
<1> QED BY SessionInvariance, <1>1, PTL

\* A write of uvx_server_conn_send is called back before the memory of its
\* connection is freed.
THEOREM RepliesEnd == SessionSpec => []RepliesEndWithConnection
PROOF
<1>1. SInv => RepliesEndWithConnection
  BY DEF SInv, ReplyOK
<1> QED BY SessionInvariance, <1>1, PTL

\* The client's socket and the server's connections agree about what is
\* connected to what.
THEOREM EndsKeepAgreeing == SessionSpec => []EndsAgree
PROOF
<1>1. SInv => EndsAgree
  BY DEF SInv
<1> QED BY SessionInvariance, <1>1, PTL
=============================================================================
