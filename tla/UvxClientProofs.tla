--------------------------- MODULE UvxClientProofs ---------------------------
(***************************************************************************)
(* What holds of UvxClient for every set of buffers and every setting of   *)
(* its switches.                                                           *)
(*                                                                         *)
(* The two fields of the client mirror the state of the handle             *)
(* (FieldsTrackSocket), so the redial finds the handle closed; the timer   *)
(* that redials is gone after a shutdown (TimerFollowsRun).  When the      *)
(* application waits for on_conn_close, no handle is closed twice and no   *)
(* data is lost.                                                           *)
(***************************************************************************)
EXTENDS UvxClient, TLAPS

\* the timer and the handle follow the calls of connect and shutdown
TimerFollowsRun ==
  /\ run = "new" => sock = "none" /\ timer = "none"
  /\ run = "shutdown" => timer = "closing"

PatientApp == AppWaits => NoDoubleClose /\ NothingLeaks

IInv ==
  /\ TypeOK
  /\ FieldsTrackSocket
  /\ TimerFollowsRun
  /\ NeverReinitsLiveHandle
  /\ WritesEndWithConnection
  /\ PatientApp

-----------------------------------------------------------------------------
\* The initial states satisfy the invariant.
LEMMA InitIInv == Init => IInv
PROOF
<1> SUFFICES ASSUME Init PROVE IInv
  OBVIOUS
<1>1. TypeOK
  BY DEF Init, TypeOK
<1>2. FieldsTrackSocket /\ TimerFollowsRun /\ NeverReinitsLiveHandle
  BY DEF Init, FieldsTrackSocket, TimerFollowsRun, NeverReinitsLiveHandle
<1>3. \A d \in Data : data[d] = "none"
  BY DEF Init
<1>4. WritesEndWithConnection /\ PatientApp
  BY <1>3 DEF Init, WritesEndWithConnection, PatientApp, NoDoubleClose, NothingLeaks
<1> QED BY <1>1, <1>2, <1>4 DEF IInv

\* Every step keeps the types.
LEMMA TypeStep == IInv /\ Next => TypeOK'
PROOF
<1> SUFFICES ASSUME TypeOK, Next PROVE TypeOK'
  BY DEF IInv
<1> USE DEF TypeOK, sockVars, React, Disconnected, CloseFault
<1>1. ASSUME NEW failed \in BOOLEAN, Connect(failed) PROVE TypeOK'
  BY <1>1 DEF Connect, Reconnect, InitFault, FlagAfterDial
<1>2. ASSUME NEW r \in Reactions, CallDisconnect(r) PROVE TypeOK'
  BY <1>2 DEF CallDisconnect
<1>3. ASSUME NEW d \in Data, Send(d) PROVE TypeOK'
  BY <1>3 DEF Send, Written
<1>4. ASSUME NEW r \in Reactions, OnConnectOk(r) \/ OnConnectFail(r) PROVE TypeOK'
  BY <1>4 DEF OnConnectOk, OnConnectFail
<1>5. ASSUME NEW r \in Reactions, OnReadData(r) \/ OnReadError(r) PROVE TypeOK'
  BY <1>5 DEF OnReadData, OnReadError
<1>6. ASSUME NEW d \in Data, AfterSend(d) PROVE TypeOK'
  BY <1>6 DEF AfterSend
<1>7. ASSUME NEW r \in Reactions, AfterClose(r) PROVE TypeOK'
  BY <1>7 DEF AfterClose, CanceledWrites, ServerAfterClose, FlagAfterClose
<1>8. ASSUME NEW r \in Reactions, HeartbeatBeat(r) PROVE TypeOK'
  BY <1>8 DEF HeartbeatBeat, Fires, Rearmed
<1>9. ASSUME NEW failed \in BOOLEAN, HeartbeatRedial(failed) PROVE TypeOK'
  BY <1>9 DEF HeartbeatRedial, Fires, Rearmed, Reconnect, InitFault, FlagAfterDial
<1>10. CASE HeartbeatIdle
  BY <1>10 DEF HeartbeatIdle, Fires, Rearmed
<1>11. CASE Loop
  BY <1>11 DEF Loop, NoTimerDue, EndPoll, EndClosing
<1> QED
  BY <1>1, <1>2, <1>3, <1>4, <1>5, <1>6, <1>7, <1>8, <1>9, <1>10, <1>11
  DEF Next, App, Socket, Heartbeat

\* Every step keeps the fields, the timer and the writes in step with the
\* handle.
LEMMA SocketStep ==
  IInv /\ Next => FieldsTrackSocket' /\ TimerFollowsRun'
                    /\ NeverReinitsLiveHandle' /\ WritesEndWithConnection'
PROOF
<1> DEFINE Goal == FieldsTrackSocket /\ TimerFollowsRun
                     /\ NeverReinitsLiveHandle /\ WritesEndWithConnection
<1> SUFFICES ASSUME TypeOK, Goal, Next PROVE Goal'
  BY DEF IInv
<1> USE DEF TypeOK, FieldsTrackSocket, TimerFollowsRun, NeverReinitsLiveHandle,
            WritesEndWithConnection, sockVars, React, Disconnected, CloseFault,
            DisconnectCloses, LeavesTimer
<1>1. ASSUME NEW failed \in BOOLEAN, Connect(failed) PROVE Goal'
  BY <1>1 DEF Connect, Reconnect, InitFault, FlagAfterDial
<1>2. ASSUME NEW r \in Reactions, CallDisconnect(r) PROVE Goal'
  BY <1>2 DEF CallDisconnect
<1>3. ASSUME NEW d \in Data, Send(d) PROVE Goal'
  <2>1. UNCHANGED <<run, uvserver, connection_closed, sock, timer, fault>>
    BY <1>3 DEF Send
  <2>2. WritesEndWithConnection'
    BY <1>3 DEF Send, SendWrites, Written
  <2> QED BY <2>1, <2>2
<1>4. ASSUME NEW r \in Reactions, OnConnectOk(r) \/ OnConnectFail(r) PROVE Goal'
  BY <1>4 DEF OnConnectOk, OnConnectFail
<1>5. ASSUME NEW r \in Reactions, OnReadData(r) \/ OnReadError(r) PROVE Goal'
  BY <1>5 DEF OnReadData, OnReadError
<1>6. ASSUME NEW d \in Data, AfterSend(d) PROVE Goal'
  BY <1>6 DEF AfterSend
<1>7. ASSUME NEW r \in Reactions, AfterClose(r) PROVE Goal'
  BY <1>7 DEF AfterClose, CanceledWrites, ServerAfterClose, FlagAfterClose
<1>8. ASSUME NEW r \in Reactions, HeartbeatBeat(r) PROVE Goal'
  BY <1>8 DEF HeartbeatBeat, Fires
<1>9. ASSUME NEW failed \in BOOLEAN, HeartbeatRedial(failed) PROVE Goal'
  BY <1>9 DEF HeartbeatRedial, Fires, Reconnect, InitFault, FlagAfterDial, RedialDue
<1>10. CASE HeartbeatIdle
  BY <1>10 DEF HeartbeatIdle, Fires
<1>11. CASE Loop
  BY <1>11 DEF Loop, NoTimerDue, EndPoll, EndClosing
<1> QED
  BY <1>1, <1>2, <1>3, <1>4, <1>5, <1>6, <1>7, <1>8, <1>9, <1>10, <1>11
  DEF Next, App, Socket, Heartbeat

\* A patient application closes no handle twice and loses no data.
LEMMA PatientStep == IInv /\ Next => PatientApp'
PROOF
<1> SUFFICES ASSUME TypeOK, FieldsTrackSocket, AppWaits,
                    NoDoubleClose, NothingLeaks, Next
             PROVE  NoDoubleClose' /\ NothingLeaks'
  BY DEF IInv, PatientApp
<1> DEFINE Goal == NoDoubleClose /\ NothingLeaks
<1> USE DEF TypeOK, FieldsTrackSocket, NoDoubleClose, NothingLeaks, sockVars,
            Disconnected, CloseFault, DisconnectCloses
<1>1. ASSUME NEW failed \in BOOLEAN, Connect(failed) PROVE Goal'
  BY <1>1 DEF Connect, Reconnect, InitFault
<1>2. ASSUME NEW r \in Reactions, CallDisconnect(r) PROVE Goal'
  BY <1>2 DEF CallDisconnect
<1>3. ASSUME NEW d \in Data, Send(d) PROVE Goal'
  BY <1>3 DEF Send, SendWrites, Written
<1>4. ASSUME NEW r \in Reactions, OnConnectOk(r) \/ OnConnectFail(r) PROVE Goal'
  BY <1>4 DEF OnConnectOk, OnConnectFail
<1>5. ASSUME NEW r \in Reactions, OnReadData(r) \/ OnReadError(r) PROVE Goal'
  BY <1>5 DEF OnReadData, OnReadError
<1>6. ASSUME NEW d \in Data, AfterSend(d) PROVE Goal'
  BY <1>6 DEF AfterSend
<1>7. ASSUME NEW r \in Reactions, AfterClose(r) PROVE Goal'
  BY <1>7 DEF AfterClose, CanceledWrites
<1>8. ASSUME NEW r \in Reactions, HeartbeatBeat(r) PROVE Goal'
  BY <1>8 DEF HeartbeatBeat, Fires
<1>9. ASSUME NEW failed \in BOOLEAN, HeartbeatRedial(failed) PROVE Goal'
  BY <1>9 DEF HeartbeatRedial, Fires, Reconnect, InitFault
<1>10. CASE HeartbeatIdle
  BY <1>10 DEF HeartbeatIdle, Fires
<1>11. CASE Loop
  BY <1>11 DEF Loop, NoTimerDue, EndPoll, EndClosing
<1> QED
  BY <1>1, <1>2, <1>3, <1>4, <1>5, <1>6, <1>7, <1>8, <1>9, <1>10, <1>11
  DEF Next, App, Socket, Heartbeat

-----------------------------------------------------------------------------
\* IInv is inductive.
LEMMA Invariance == Spec => []IInv
PROOF
<1>1. IInv /\ [Next]_vars => IInv'
  <2>1. ASSUME IInv, Next PROVE IInv'
    BY <2>1, TypeStep, SocketStep, PatientStep DEF IInv
  <2>2. ASSUME IInv, UNCHANGED vars PROVE IInv'
    BY <2>2 DEF IInv, vars, sockVars, TypeOK, FieldsTrackSocket, TimerFollowsRun,
      NeverReinitsLiveHandle, WritesEndWithConnection, PatientApp, NoDoubleClose,
      NothingLeaks
  <2> QED BY <2>1, <2>2
<1> QED BY InitIInv, <1>1, PTL DEF Spec

\* Every variable of the client keeps its type.
THEOREM TypeCorrect == Spec => []TypeOK
PROOF
<1>1. IInv => TypeOK
  BY DEF IInv
<1> QED BY Invariance, <1>1, PTL

\* uvserver and connection_closed mirror the handle at every moment the
\* event loop or the application can observe them.
THEOREM FieldsAreExact == Spec => []FieldsTrackSocket
PROOF
<1>1. IInv => FieldsTrackSocket
  BY DEF IInv
<1> QED BY Invariance, <1>1, PTL

\* uv_tcp_init is called only on a handle libuv is done with, whatever the
\* application does.
THEOREM RedialIsSafe == Spec => []NeverReinitsLiveHandle
PROOF
<1>1. IInv => NeverReinitsLiveHandle
  BY DEF IInv
<1> QED BY Invariance, <1>1, PTL

\* No write is pending on a handle that is initialised again.
THEOREM WritesEnd == Spec => []WritesEndWithConnection
PROOF
<1>1. IInv => WritesEndWithConnection
  BY DEF IInv
<1> QED BY Invariance, <1>1, PTL

\* When the application waits for on_conn_close, uv_close is called once per
\* connection.
THEOREM PatientAppClosesOnce ==
  ASSUME AppWaits PROVE Spec => []NoDoubleClose
PROOF
<1>1. IInv => NoDoubleClose
  BY DEF IInv, PatientApp
<1> QED BY Invariance, <1>1, PTL

\* When the application waits for on_conn_close, each buffer it sends is
\* freed or still with libuv.
THEOREM PatientAppLeaksNothing ==
  ASSUME AppWaits PROVE Spec => []NothingLeaks
PROOF
<1>1. IInv => NothingLeaks
  BY DEF IInv, PatientApp
<1> QED BY Invariance, <1>1, PTL

\* uvx_client_shutdown ends the redialling for good.
THEOREM ShutdownIsFinal == Spec => NoRedialAfterShutdown
PROOF
<1> DEFINE Final == run = "shutdown" /\ sock # "connecting" => sock' # "connecting"
<1>1. ASSUME IInv, [Next]_vars, run = "shutdown", sock # "connecting"
      PROVE  sock' # "connecting"
  <2>1. timer = "closing"
    BY <1>1 DEF IInv, TimerFollowsRun
  <2>2. CASE UNCHANGED vars
    BY <1>1, <2>2 DEF vars, sockVars
  <2>3. CASE App
    BY <1>1, <2>3 DEF App, Connect, CallDisconnect, Send, Disconnected, sockVars
  <2>4. CASE Socket
    BY <1>1, <2>4 DEF Socket, OnConnectOk, OnConnectFail, OnReadData, OnReadError,
      AfterClose, AfterSend, Disconnected, sockVars
  <2>5. CASE Loop
    BY <1>1, <2>5 DEF Loop, NoTimerDue, EndPoll, EndClosing, sockVars
  <2>6. ~Heartbeat
    BY <2>1 DEF Heartbeat, HeartbeatBeat, HeartbeatRedial, HeartbeatIdle, Fires
  <2> QED BY <1>1, <2>2, <2>3, <2>4, <2>5, <2>6 DEF Next
<1>2. IInv /\ [Next]_vars => [Final]_vars
  BY <1>1
<1> QED BY Invariance, <1>2, PTL DEF Spec, NoRedialAfterShutdown
=============================================================================
