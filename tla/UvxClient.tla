------------------------------ MODULE UvxClient ------------------------------
(***************************************************************************)
(* The TCP client of uvx_client.c: one uv_tcp_t that is connected, closed  *)
(* and connected again by the heartbeat timer, the two fields that say     *)
(* where it stands (uvserver and connection_closed), the data it sends,    *)
(* and disconnect and shutdown, which the application calls between        *)
(* handlers or in the callbacks of one.                                    *)
(*                                                                         *)
(* libuv (external) is the phase of uv_run and, for the socket's handle,   *)
(* what has been asked of it.                                              *)
(***************************************************************************)
EXTENDS Integers

CONSTANTS
  Data,         \* the addresses of the buffers the application sends
  Repeats,      \* config.heartbeat_interval_seconds is at least a millisecond
  FailsAtOnce,  \* uv_tcp_connect may return an error (no route, no address)
  AppWaits      \* the application calls nothing while the connection is
                \* closing, until on_conn_close has returned

ASSUME ClientAssumption ==
  /\ Repeats \in BOOLEAN
  /\ FailsAtOnce \in BOOLEAN
  /\ AppWaits \in BOOLEAN

VARIABLES
  phase,              \* part of the uv_run iteration
  run,                \* before uvx_client_connect, until or after shutdown
  uvserver,           \* xclient->uvserver # NULL
  connection_closed,  \* privates.connection_closed
  sock,               \* the handle &xclient->uvclient
  timer,              \* privates.heartbeat_timer
  data,               \* buffers: not allocated, with uv_write, or leaked
  fault               \* the first contract with libuv broken

sockVars == <<uvserver, connection_closed, sock>>
vars == <<phase, run, sockVars, timer, data, fault>>

TypeOK ==
  /\ phase \in {"timers", "poll", "closing"}
  /\ run \in {"new", "running", "shutdown"}
  /\ uvserver \in BOOLEAN
  /\ connection_closed \in {0, 1}
  \* idle: uv_tcp_init done, uv_tcp_connect refused
  /\ sock \in {"none", "idle", "connecting", "connected", "closing", "closed"}
  \* idle: fired and does not repeat
  /\ timer \in {"none", "active", "idle", "closing"}
  /\ data \in [Data -> {"none", "queued", "leaked"}]
  /\ fault \in {"none", "close", "init"}

Init ==
  /\ phase = "timers"
  /\ run = "new"
  /\ uvserver = FALSE
  /\ connection_closed = 0
  /\ sock = "none"
  /\ timer = "none"
  /\ data = [d \in Data |-> "none"]
  /\ fault = "none"

-----------------------------------------------------------------------------
(* Slips a maintainer could make, used only to test the properties.        *)

DecrementsFlag == connection_closed - 1
ForgetsClosedFlag == connection_closed
RedialsWithoutFlag == ~uvserver
ClosesWithoutServer == run # "new"
SendsWithoutServer == run # "new"
ShutdownKeepsTimer(r) == TRUE
KeepsServerPointer == uvserver
LosesCanceledWrites == data

-----------------------------------------------------------------------------
(* Pieces of the handlers.                                                 *)

\* what the application does in a callback, or on its own
Reactions == {"nothing", "disconnect", "shutdown"}

\* uvx_client_shutdown stops the timer, uvx_client_disconnect does not
LeavesTimer(r) == r # "shutdown"

\* the part of uvx_client_shutdown that is about the timer, whose state is
\* now otherwise
React(r, now) ==
  /\ r = "shutdown" => run = "running"
  /\ run' = IF r = "shutdown" THEN "shutdown" ELSE run
  /\ timer' = IF LeavesTimer(r) THEN now ELSE "closing"

\* the guard of uvx_client_disconnect, which uvx_client_shutdown calls too
DisconnectCloses == uvserver

\* uv_close asserts that the handle is neither closing nor closed
CloseFault == IF sock \in {"connecting", "connected"} THEN fault ELSE "close"

\* uvx_client_disconnect: _uvx_client_close, or nothing
Disconnected(r) ==
  IF r # "nothing" /\ DisconnectCloses
    THEN sock' = "closing" /\ fault' = CloseFault
    ELSE UNCHANGED <<sock, fault>>

\* uv_tcp_init of a handle libuv still has in its queues
InitFault == IF sock \in {"none", "closed"} THEN fault ELSE "init"

\* what uvx__client_reconnect and uvx__after_close_client leave in
\* connection_closed
FlagAfterDial == 0
FlagAfterClose == 1

\* uvserver when uvx__after_close_client is done
ServerAfterClose == FALSE

\* uvx__client_reconnect
Reconnect(failed) ==
  /\ failed => FailsAtOnce
  /\ uvserver' = FALSE
  /\ connection_closed' = FlagAfterDial
  /\ sock' = IF failed THEN "idle" ELSE "connecting"
  /\ fault' = InitFault

\* the test before the redial in uvx__on_heartbeat_timer
RedialDue == ~uvserver /\ connection_closed = 1

\* the guard of uvx_client_send
SendWrites == uvserver

\* uv_write fails on a handle given to uv_close, and nobody frees the data
Written == IF sock = "connected" THEN "queued" ELSE "leaked"

\* libuv cancels the writes of a closed handle, then runs its close callback:
\* uvx_after_send_to_stream frees the data
CanceledWrites == [d \in Data |-> IF data[d] = "queued" THEN "none" ELSE data[d]]

-----------------------------------------------------------------------------
(* The application's calls.                                                *)

\* uvx_client_connect, of an uninitialised client
Connect(failed) ==
  /\ run = "new"
  /\ Reconnect(failed)
  /\ run' = "running"
  /\ timer' = "active"
  /\ UNCHANGED <<phase, data>>

\* uvx_client_disconnect or uvx_client_shutdown, outside this client's
\* callbacks
CallDisconnect(r) ==
  /\ run # "new"
  /\ r # "nothing"
  /\ AppWaits => sock # "closing"
  /\ React(r, timer)
  /\ Disconnected(r)
  /\ UNCHANGED <<phase, uvserver, connection_closed, data>>

\* uvx_client_send of newly allocated data: it is freed at once when there
\* is no server
Send(d) ==
  /\ run # "new"
  /\ AppWaits => sock # "closing"
  /\ data[d] = "none"
  /\ data' = IF SendWrites THEN [data EXCEPT ![d] = Written] ELSE data
  /\ UNCHANGED <<phase, run, sockVars, timer, fault>>

-----------------------------------------------------------------------------
(* The handlers of the socket.  r is what the application does in the      *)
(* handler's first callback.                                               *)

\* _uv_on_connect with status 0: a socket closed in on_conn_ok is not read
OnConnectOk(r) ==
  /\ phase = "poll"
  /\ sock = "connecting"
  /\ uvserver' = TRUE
  /\ React(r, timer)  \* on_conn_ok
  /\ sock' = IF r = "nothing" THEN "connected" ELSE "closing"
  /\ UNCHANGED <<phase, connection_closed, data, fault>>

\* _uv_on_connect with an error: uvserver is NULL, so the application's
\* calls in on_conn_fail and in on_conn_closing close nothing
OnConnectFail(r) ==
  /\ phase = "poll"
  /\ sock = "connecting"
  /\ uvserver' = FALSE
  /\ React(r, timer)
  /\ sock' = "closing"
  /\ UNCHANGED <<phase, connection_closed, data, fault>>

\* uvx__on_client_read with data
OnReadData(r) ==
  /\ phase = "poll"
  /\ sock = "connected"
  /\ React(r, timer)  \* on_recv
  /\ Disconnected(r)
  /\ UNCHANGED <<phase, uvserver, connection_closed, data>>

\* uvx__on_client_read with an error.  A disconnect in on_conn_closing
\* closes the handle that is about to be closed.
OnReadError(r) ==
  /\ phase = "poll"
  /\ sock = "connected"
  /\ AppWaits => r = "nothing"
  /\ React(r, timer)  \* on_conn_closing
  /\ sock' = "closing"
  /\ fault' = IF r # "nothing" /\ DisconnectCloses THEN "close" ELSE CloseFault
  /\ UNCHANGED <<phase, uvserver, connection_closed, data>>

\* uvx_after_send_to_stream, of a write that was done or failed
AfterSend(d) ==
  /\ phase = "poll"
  /\ sock = "connected"
  /\ data[d] = "queued"
  /\ data' = [data EXCEPT ![d] = "none"]
  /\ UNCHANGED <<phase, run, sockVars, timer, fault>>

\* uvx__after_close_client: uvserver is cleared only after on_conn_close, so
\* a disconnect in it closes a closed handle
AfterClose(r) ==
  /\ phase = "closing"
  /\ sock = "closing"
  /\ AppWaits => r = "nothing"
  /\ React(r, timer)  \* on_conn_close
  /\ fault' = IF r # "nothing" /\ DisconnectCloses THEN "close" ELSE fault
  /\ sock' = "closed"
  /\ uvserver' = ServerAfterClose
  /\ connection_closed' = FlagAfterClose
  /\ data' = CanceledWrites
  /\ UNCHANGED phase

-----------------------------------------------------------------------------
(* The heartbeat, uvx__on_heartbeat_timer.  libuv re-arms a repeating      *)
(* timer before it calls the handler.                                      *)

Rearmed == IF Repeats THEN "active" ELSE "idle"

Fires ==
  /\ phase = "timers"
  /\ timer = "active"
  /\ phase' = "poll"
  /\ UNCHANGED data

\* while a server is connected
HeartbeatBeat(r) ==
  /\ Fires
  /\ uvserver
  /\ AppWaits /\ sock = "closing" => r = "nothing"
  /\ React(r, Rearmed)  \* on_heartbeat
  /\ Disconnected(r)
  /\ UNCHANGED <<uvserver, connection_closed>>

\* when the connection is closed
HeartbeatRedial(failed) ==
  /\ Fires
  /\ RedialDue
  /\ Reconnect(failed)
  /\ timer' = Rearmed
  /\ UNCHANGED run

\* while the connection is being made, or its failure closed
HeartbeatIdle ==
  /\ Fires
  /\ ~uvserver /\ ~RedialDue
  /\ timer' = Rearmed
  /\ UNCHANGED <<run, sockVars, fault>>

Heartbeat ==
  \/ \E r \in Reactions : HeartbeatBeat(r)
  \/ \E failed \in BOOLEAN : HeartbeatRedial(failed)
  \/ HeartbeatIdle

-----------------------------------------------------------------------------
(* The loop.                                                               *)

NoTimerDue ==
  /\ phase = "timers"
  /\ phase' = "poll"
  /\ UNCHANGED <<run, sockVars, timer, data, fault>>

EndPoll ==
  /\ phase = "poll"
  /\ phase' = "closing"
  /\ UNCHANGED <<run, sockVars, timer, data, fault>>

EndClosing ==
  /\ phase = "closing"
  /\ sock # "closing"
  /\ phase' = "timers"
  /\ UNCHANGED <<run, sockVars, timer, data, fault>>

-----------------------------------------------------------------------------
App ==
  \/ \E failed \in BOOLEAN : Connect(failed)
  \/ \E r \in Reactions : CallDisconnect(r)
  \/ \E d \in Data : Send(d)

Socket ==
  \/ \E r \in Reactions :
       \/ OnConnectOk(r)
       \/ OnConnectFail(r)
       \/ OnReadData(r)
       \/ OnReadError(r)
       \/ AfterClose(r)
  \/ \E d \in Data : AfterSend(d)

Loop == NoTimerDue \/ EndPoll \/ EndClosing

\* After a fault nothing more is claimed.
Next == fault = "none" /\ (App \/ Socket \/ Heartbeat \/ Loop)

Spec == Init /\ [][Next]_vars

\* uv_run keeps iterating, runs the close callback it owes, reports every
\* connect it started, and a repeating timer fires again and again.
Fairness ==
  /\ WF_vars(fault = "none" /\ (NoTimerDue \/ Heartbeat))
  /\ WF_vars(fault = "none" /\ EndPoll)
  /\ WF_vars(fault = "none" /\ EndClosing)
  /\ WF_vars(fault = "none" /\ \E r \in Reactions : AfterClose(r))
  /\ SF_vars(fault = "none"
               /\ \E r \in Reactions : OnConnectOk(r) \/ OnConnectFail(r))
  /\ SF_vars(fault = "none" /\ Heartbeat)

FairSpec == Spec /\ Fairness

-----------------------------------------------------------------------------
(* Properties.                                                             *)

\* uv_close is never called on a handle that is closing or closed.
NoDoubleClose == fault # "close"

\* A redial never initialises a handle that libuv still works on:
\* connection_closed tells the heartbeat when the close callback has run.
NeverReinitsLiveHandle == fault # "init"

\* uvserver is set exactly while there is a connection to write to or one
\* that is not yet closed, as uvx__on_client_read asserts, and
\* connection_closed exactly from the close callback to the redial.
FieldsTrackSocket ==
  /\ sock = "connected" => uvserver
  /\ uvserver => sock \in {"connected", "closing"}
  /\ connection_closed = 1 <=> sock = "closed"

\* "if no server is connected, free data immediately, to avoid memory leak":
\* data given to uvx_client_send is freed sooner or later.
NothingLeaks == \A d \in Data : data[d] # "leaked"

\* No write outlives its connection: when uv_tcp_init is called on the
\* handle again, none refers to it.
WritesEndWithConnection ==
  (\E d \in Data : data[d] = "queued") => sock \in {"connected", "closing"}

\* A client that was shut down dials no more.
NoRedialAfterShutdown ==
  [][run = "shutdown" /\ sock # "connecting" => sock' # "connecting"]_vars

\* "will try reconnect on next uvx__on_heartbeat_timer()": a connection that
\* is lost or could not be made is dialed again, unless the client is shut
\* down.
RedialsAfterClose ==
  (run = "running" /\ sock \in {"closing", "closed"})
    ~> (run = "shutdown" \/ sock \in {"connecting", "idle"})

\* "will try reconnect on next on_heartbeat", said of a connect that failed:
\* this goes for one that uv_tcp_connect refuses at once, too.
KeepsTrying ==
  (run = "running" /\ sock = "idle") ~> (run = "shutdown" \/ sock # "idle")
=============================================================================
