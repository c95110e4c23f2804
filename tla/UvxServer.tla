------------------------------ MODULE UvxServer ------------------------------
(***************************************************************************)
(* The TCP server of uvx_server.c: its connections, the table that orders  *)
(* them by last communication, the heartbeat that closes silent ones, the  *)
(* reference counts that free them, and shutdown.                          *)
(*                                                                         *)
(* libuv (external) is the phase of uv_run the loop is in and, per handle, *)
(* whether it is open, has been given to uv_close, or is gone.  Each       *)
(* handler of the code is one step.  The application's callbacks run       *)
(* inside the handlers: a callback may shut the server down in the middle  *)
(* of one, and may take or drop references between any two steps.          *)
(*                                                                         *)
(* Time is the age of a connection: clock ticks since last_comm_time,      *)
(* counted up to one past ConnTimeout, which is all the code tells apart.  *)
(***************************************************************************)
EXTENDS TableOps

CONSTANTS
  Conn,         \* the addresses a uvx_server_conn_t can be calloc'ed at
  ConnTimeout,  \* config.conn_timeout_seconds in ticks; 0 switches it off
  HeartbeatOn,  \* config.heartbeat_interval_seconds > 0
  MaxRefs       \* bound: references the application holds per connection

ASSUME ServerAssumption ==
  /\ ConnTimeout \in Nat
  /\ HeartbeatOn \in BOOLEAN
  /\ MaxRefs \in Nat

VARIABLES
  phase,     \* part of the uv_run iteration: timers, poll or closing callbacks
  table,     \* privates.conns: not created yet, live, or lh_table_free'd
  conns,     \* the keys of the table in list order, while it is live
  handle,    \* conn->uvclient
  mem,       \* is the connection's memory allocated
  age,       \* ticks since conn->last_comm_time
  refcount,  \* conn->refcount
  held,      \* references taken with uvx_server_conn_ref and not yet dropped
  timer,     \* privates.heartbeat_timer
  listener,  \* xserver->uvserver
  fault      \* the first broken contract: a freed table used, a double uv_close

connVars == <<handle, mem, age, refcount, held>>
serverVars == <<table, timer, listener>>
vars == <<phase, conns, connVars, serverVars, fault>>

MaxAge == ConnTimeout + 1

TypeOK ==
  /\ phase \in {"timers", "poll", "closing"}
  /\ table \in {"none", "live", "freed"}
  /\ conns \in Seq(Conn)
  /\ handle \in [Conn -> {"none", "open", "closing"}]
  /\ mem \in [Conn -> BOOLEAN]
  /\ age \in [Conn -> 0..MaxAge]
  /\ refcount \in [Conn -> Nat]
  /\ held \in [Conn -> 0..MaxRefs]
  /\ timer \in {"none", "idle", "active", "closing"}
  /\ listener \in {"none", "bound", "listening", "closing"}
  /\ fault \in {"none", "table", "close"}

Init ==
  /\ phase = "timers"
  /\ table = "none"
  /\ conns = <<>>
  /\ handle = [c \in Conn |-> "none"]
  /\ mem = [c \in Conn |-> FALSE]
  /\ age = [c \in Conn |-> 0]
  /\ refcount = [c \in Conn |-> 0]
  /\ held = [c \in Conn |-> 0]
  /\ timer = "none"
  /\ listener = "none"
  /\ fault = "none"

-----------------------------------------------------------------------------
(* Slips a maintainer could make, used only to test the properties.        *)

NoInitialRefcount == 0
FreesTooEarly(n) == n <= 1
TouchWithoutDelete(s, c) == Append(s, c)
TouchInPlace(s, c) == s
SilentOffByOne(c) == age[c] >= ConnTimeout
SilentMixesUnits(c) == age[c] > 1000 * ConnTimeout
ForgetsDelete(s, c) == s

-----------------------------------------------------------------------------
(* Pieces of the handlers.                                                 *)

\* conn->refcount = 1 in uvx__on_connection: the server's own reference
InitialRefcount == 1

\* the test of uvx_server_conn_ref that destroys the mutex and frees conn
LastRef(n) == n = 0

ConnRef(c, ref) ==
  /\ refcount' = [refcount EXCEPT ![c] = @ + ref]
  /\ mem' = [mem EXCEPT ![c] = ~LastRef(refcount[c] + ref)]

\* uvx_server_shutdown stops and closes the timer, frees the table and
\* closes the listening handle.  It leaves every connection as it is.
Shutdown ==
  /\ table = "live"
  /\ timer' = "closing"
  /\ table' = "freed"
  /\ listener' = "closing"

\* a callback of the application: it may shut the server down, once
Callback == UNCHANGED serverVars \/ Shutdown

\* uv_close asserts that the handle is not closing yet
CloseFault(S) ==
  IF \E c \in S : handle[c] # "open" THEN "close" ELSE fault

\* uvx__on_read moves the connection to the tail: delete, then insert
Touch(s, c) == Insert(Delete(s, c), c)

\* lh_table_delete in _uv_after_close_connection
Unlist(s, c) == Delete(s, c)

\* uv_now(loop) - conn->last_comm_time > conn_timeout
Silent(c) == age[c] > ConnTimeout

\* _uvx_check_timeout_clients walks from the head and stops at the first
\* connection that is not silent.
SilentPrefix ==
  {c \in Conn : \E i \in DOMAIN conns :
                   conns[i] = c /\ \A j \in 1..i : Silent(conns[j])}

-----------------------------------------------------------------------------
(* The application's calls.                                                *)

\* uvx_server_start.  When uv_listen fails it returns 0 and undoes nothing:
\* the table, the timer and the bound handle stay.
Start(ok) ==
  /\ table = "none"
  /\ table' = "live"
  /\ conns' = <<>>
  /\ timer' = IF HeartbeatOn THEN "active" ELSE "idle"
  /\ listener' = IF ok THEN "listening" ELSE "bound"
  /\ UNCHANGED <<phase, connVars, fault>>

\* uvx_server_shutdown called outside this server's callbacks
CallShutdown ==
  /\ Shutdown
  /\ UNCHANGED <<phase, conns, connVars, fault>>

\* uvx_server_iter_conns whose callback shuts the server down: the walk and
\* the count that is returned read the freed table
IterConnsShutdown ==
  /\ conns # <<>>
  /\ Shutdown
  /\ fault' = "table"
  /\ UNCHANGED <<phase, conns, connVars>>

\* uvx_server_conn_ref(conn, 1), on a connection met in a callback or in
\* uvx_server_iter_conns, or already held
AppRef(c) ==
  /\ held[c] > 0 \/ (table = "live" /\ Present(conns, c))
  /\ held[c] < MaxRefs
  /\ held' = [held EXCEPT ![c] = @ + 1]
  /\ ConnRef(c, 1)
  /\ UNCHANGED <<phase, conns, handle, age, serverVars, fault>>

\* uvx_server_conn_ref(conn, -1), from any thread
AppUnref(c) ==
  /\ held[c] > 0
  /\ held' = [held EXCEPT ![c] = @ - 1]
  /\ ConnRef(c, -1)
  /\ UNCHANGED <<phase, conns, handle, age, serverVars, fault>>

-----------------------------------------------------------------------------
(* The handlers.                                                           *)

\* uvx__on_connection, at a free address.  A connection uv_accept refuses
\* stays in the table, with last_comm_time 0, until its close callback.
OnConnection(c, accepted) ==
  /\ phase = "poll"
  /\ listener = "listening"
  /\ ~mem[c]
  /\ mem' = [mem EXCEPT ![c] = TRUE]
  /\ refcount' = [refcount EXCEPT ![c] = InitialRefcount]
  /\ conns' = Insert(conns, c)
  /\ age' = [age EXCEPT ![c] = IF accepted THEN 0 ELSE MaxAge]
  /\ handle' = [handle EXCEPT ![c] = IF accepted THEN "open" ELSE "closing"]
  /\ Callback  \* on_conn_ok or on_conn_fail
  /\ UNCHANGED <<phase, held, fault>>

\* uvx__on_read with data
OnReadData(c) ==
  /\ phase = "poll"
  /\ handle[c] = "open"
  /\ age' = [age EXCEPT ![c] = 0]
  /\ IF table = "live"
       THEN conns' = Touch(conns, c) /\ fault' = fault
       ELSE conns' = conns /\ fault' = "table"
  /\ Callback  \* on_recv
  /\ UNCHANGED <<phase, handle, mem, refcount, held>>

\* uvx__on_read with an error or the end of the stream: _uv_disconnect_client
OnReadError(c) ==
  /\ phase = "poll"
  /\ handle[c] = "open"
  /\ Callback  \* on_conn_closing
  /\ handle' = [handle EXCEPT ![c] = "closing"]
  /\ UNCHANGED <<phase, conns, mem, age, refcount, held, fault>>

\* _uv_on_heartbeat_timer when no callback shuts the server down
Heartbeat ==
  /\ phase = "timers"
  /\ timer = "active"
  /\ LET closed == IF ConnTimeout > 0 THEN SilentPrefix ELSE {}
     IN  /\ handle' = [c \in Conn |-> IF c \in closed THEN "closing"
                                                     ELSE handle[c]]
         /\ fault' = CloseFault(closed)
  /\ phase' = "poll"
  /\ UNCHANGED <<conns, mem, age, refcount, held, serverVars>>

\* _uv_on_heartbeat_timer when on_heartbeat shuts the server down: the scan
\* then starts at the head of a freed table.
HeartbeatShutdown ==
  /\ phase = "timers"
  /\ timer = "active"
  /\ Shutdown
  /\ fault' = IF ConnTimeout > 0 THEN "table" ELSE fault
  /\ phase' = "poll"
  /\ UNCHANGED <<conns, connVars>>

\* _uv_on_heartbeat_timer when the on_conn_closing of the n-th connection
\* shuts the server down: the scan goes on from the next entry, if there is
\* one, in the freed table.
HeartbeatClosingShutdown(n) ==
  /\ phase = "timers"
  /\ timer = "active"
  /\ ConnTimeout > 0
  /\ n \in DOMAIN conns
  /\ conns[n] \in SilentPrefix
  /\ Shutdown
  /\ LET closed == {conns[i] : i \in 1..n}
     IN  /\ handle' = [c \in Conn |-> IF c \in closed THEN "closing"
                                                     ELSE handle[c]]
         /\ fault' = IF n < Len(conns) THEN "table" ELSE CloseFault(closed)
  /\ phase' = "poll"
  /\ UNCHANGED <<conns, mem, age, refcount, held>>

\* _uv_after_close_connection: on_conn_close, then lh_table_delete, then the
\* server's own reference is dropped
AfterClose(c) ==
  /\ phase = "closing"
  /\ handle[c] = "closing"
  /\ handle' = [handle EXCEPT ![c] = "none"]
  /\ Callback  \* on_conn_close
  /\ IF table' = "live"
       THEN conns' = Unlist(conns, c) /\ fault' = fault
       ELSE conns' = conns /\ fault' = "table"
  /\ ConnRef(c, -1)
  /\ UNCHANGED <<phase, age, held>>

-----------------------------------------------------------------------------
(* The loop.  uv_run runs the due timers, then the callbacks of the poll,  *)
(* then the callbacks of the handles that were closed, and starts over.    *)

\* the loop updates its clock before the timers and while it polls
Tick ==
  /\ phase \in {"timers", "poll"}
  /\ age' = [c \in Conn |-> IF mem[c] /\ age[c] < MaxAge THEN age[c] + 1
                                                         ELSE age[c]]
  /\ UNCHANGED <<phase, conns, handle, mem, refcount, held, serverVars, fault>>

NoTimerDue ==
  /\ phase = "timers"
  /\ phase' = "poll"
  /\ UNCHANGED <<conns, connVars, serverVars, fault>>

EndPoll ==
  /\ phase = "poll"
  /\ phase' = "closing"
  /\ UNCHANGED <<conns, connVars, serverVars, fault>>

EndClosing ==
  /\ phase = "closing"
  /\ \A c \in Conn : handle[c] # "closing"
  /\ phase' = "timers"
  /\ UNCHANGED <<conns, connVars, serverVars, fault>>

-----------------------------------------------------------------------------
App ==
  \/ \E ok \in BOOLEAN : Start(ok)
  \/ CallShutdown
  \/ IterConnsShutdown
  \/ \E c \in Conn : AppRef(c) \/ AppUnref(c)

Handlers ==
  \/ \E c \in Conn :
       \/ \E accepted \in BOOLEAN : OnConnection(c, accepted)
       \/ OnReadData(c)
       \/ OnReadError(c)
       \/ AfterClose(c)
  \/ Heartbeat
  \/ HeartbeatShutdown
  \/ \E n \in DOMAIN conns : HeartbeatClosingShutdown(n)

Loop == Tick \/ NoTimerDue \/ EndPoll \/ EndClosing

\* After a fault the behaviour of the program is undefined: nothing more is
\* claimed about it.
Next == fault = "none" /\ (App \/ Handlers \/ Loop)

Spec == Init /\ [][Next]_vars

\* uv_run keeps iterating, runs every close callback it owes, its clock moves
\* on, and a repeating timer fires again and again.
Fairness ==
  /\ WF_vars(fault = "none" /\ (NoTimerDue \/ Heartbeat))
  /\ WF_vars(fault = "none" /\ EndPoll)
  /\ WF_vars(fault = "none" /\ EndClosing)
  /\ \A c \in Conn : WF_vars(fault = "none" /\ AfterClose(c))
  /\ SF_vars(fault = "none" /\ Tick)
  /\ SF_vars(fault = "none" /\ Heartbeat)

FairSpec == Spec /\ Fairness

-----------------------------------------------------------------------------
(* Properties.                                                             *)

\* A connection's count is the server's own reference, until the close
\* callback drops it, plus the ones the application holds; its memory is
\* there exactly while the count is positive.  So neither libuv nor a
\* holder ever touches a freed connection, and none leaks.
RefcountExact ==
  \A c \in Conn :
    /\ refcount[c] = held[c] + (IF handle[c] = "none" THEN 0 ELSE 1)
    /\ mem[c] <=> refcount[c] > 0

\* While the table is live it lists every connection libuv still knows,
\* once each, and nothing else: each lh_table_delete the code asserts to
\* succeed does succeed, and no entry points at a freed connection.
TableMatchesHandles ==
  table = "live" =>
    /\ \A c \in Conn : Present(conns, c) <=> handle[c] # "none"
    /\ Distinct(conns)

\* The order _uvx_check_timeout_clients relies on when it stops at the first
\* fresh connection: behind an entry come only entries heard from no
\* earlier, except one whose accept failed and that is being closed.
SilenceOrder ==
  table = "live" =>
    \A i, j \in DOMAIN conns :
      i < j /\ handle[conns[j]] = "open" => age[conns[i]] >= age[conns[j]]

\* uv_close is never called on a handle that is closing already.
NoDoubleClose == fault # "close"

\* A heartbeat closes every connection silent for longer than the timeout,
\* although its scan stops early, and no other connection.
HeartbeatClosesExactlyTheSilent ==
  [][Heartbeat /\ ConnTimeout > 0 =>
       {c \in Conn : handle'[c] # handle[c]}
         = {c \in Conn : handle[c] = "open" /\ age[c] > ConnTimeout}]_vars

\* A connection that stays silent is closed sooner or later, however busy
\* the others are, unless the server is shut down first.
SilentConnectionsGoAway ==
  \A c \in Conn :
    (table = "live" /\ handle[c] = "open")
      ~> (table = "freed" \/ handle[c] # "open" \/ age[c] = 0)

=============================================================================
