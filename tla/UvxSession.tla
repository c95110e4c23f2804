------------------------------ MODULE UvxSession ------------------------------
(***************************************************************************)
(* One client of uvx_client.c and the server of uvx_server.c it talks to,  *)
(* each with its own loop, and the TCP connection between them.  The       *)
(* server's application answers over uvx_server_conn_send.                 *)
(*                                                                         *)
(* TCP (external) is what each end knows of the other, the listen backlog, *)
(* and whether the client's data is on its way.  A connection may fail to  *)
(* be made and may be cut without a sign; either program may die, and be   *)
(* started again.  The server is not shut down while its program lives:    *)
(* what comes of that is in UvxServer.                                     *)
(***************************************************************************)
EXTENDS UvxServer

CONSTANTS
  Data,        \* the client's buffers, see UvxClient
  ConnBacklog, \* config.conn_backlog
  None         \* no connection

ASSUME SessionAssumption == ConnBacklog \in Nat \ {0} /\ None \notin Conn

VARIABLES
  cphase, run, uvserver, connection_closed, sock, ctimer, data, cfault,
  end,      \* what the client's socket is connected to
  peer,     \* what each connection of the server is connected to
  backlog,  \* connections made and not yet accepted, the client's the last
  sent,     \* the client's socket has sent what was not read yet
  reply     \* uvx_server_conn_send: the connection with a write, if any

Client == INSTANCE UvxClient WITH
  phase <- cphase, timer <- ctimer, fault <- cfault,
  Repeats <- TRUE, FailsAtOnce <- TRUE, AppWaits <- TRUE

clientVars ==
  <<cphase, run, uvserver, connection_closed, sock, ctimer, data, cfault>>
tcpVars == <<end, peer, backlog, sent>>
sessionVars == <<vars, clientVars, tcpVars, reply>>

\* what a connection of the server is connected to when it is not the
\* client's socket: one that was closed, or one that is not to be reached
GivenUp == {"closed", "gone"}

SessionTypeOK ==
  /\ TypeOK /\ Client!TypeOK
  \* reset: the other end is closed, or died; gone: it is not to be reached
  /\ end \in {"none", "backlog", "up", "reset", "gone"}
  /\ peer \in [Conn -> {"none", "here"} \cup GivenUp]
  /\ backlog \in 0..ConnBacklog
  /\ sent \in BOOLEAN
  /\ reply \in Conn \cup {None}
  \* neither program breaks a contract with libuv
  /\ fault = "none" /\ cfault = "none"

TcpInit ==
  /\ end = "none"
  /\ peer = [c \in Conn |-> "none"]
  /\ backlog = 0
  /\ sent = FALSE

SessionInit ==
  /\ Init /\ Client!Init /\ TcpInit
  /\ reply = None

-----------------------------------------------------------------------------
(* Slips a maintainer could make, used only to test the properties.        *)

KeepsReplies(c) == reply

-----------------------------------------------------------------------------
(* The server.                                                             *)

\* what a step of the server that closes connections does to the other end
ClosesPeers ==
  /\ peer' = [c \in Conn |-> IF handle'[c] = "open" THEN peer[c] ELSE "none"]
  /\ end' = IF \E c \in Conn : peer[c] = "here" /\ handle'[c] # "open"
              THEN "reset" ELSE end

\* uvx__on_connection: the backlog is a queue, the client's socket its last;
\* what is before it was given up since
Accept(c, seen) ==
  LET own == end = "backlog" /\ backlog = 1
  IN  /\ backlog > 0
      /\ OnConnection(c, TRUE)
      /\ backlog' = backlog - 1
      /\ peer' = [peer EXCEPT ![c] = IF own THEN "here" ELSE seen]
      /\ end' = IF own THEN "up" ELSE end
      /\ UNCHANGED <<sent, reply>>

\* uvx__on_read with data
ServerRead(c) ==
  /\ peer[c] = "here"
  /\ sent
  /\ OnReadData(c)
  /\ sent' = FALSE
  /\ UNCHANGED <<end, peer, backlog, reply>>

\* uvx__on_read with the end of the stream or an error
ServerReadEnd(c) ==
  /\ peer[c] = "closed"
  /\ OnReadError(c)
  /\ ClosesPeers
  /\ UNCHANGED <<backlog, sent, reply>>

\* _uv_on_heartbeat_timer
ServerHeartbeat ==
  /\ Heartbeat
  /\ ClosesPeers
  /\ UNCHANGED <<backlog, sent, reply>>

\* libuv cancels the writes of a closed handle
CanceledReply(c) == IF reply = c THEN None ELSE reply

\* _uv_after_close_connection
ServerAfterClose(c) ==
  /\ AfterClose(c)
  /\ reply' = CanceledReply(c)
  /\ UNCHANGED tcpVars

\* uvx_server_conn_send: on an open connection uv_write succeeds
ServerSend(c) ==
  /\ handle[c] = "open"
  /\ reply = None
  /\ reply' = c
  /\ UNCHANGED <<vars, tcpVars>>

\* uvx_after_send_to_stream
ServerAfterSend(c) ==
  /\ phase = "poll"
  /\ handle[c] = "open"
  /\ reply = c
  /\ reply' = None
  /\ UNCHANGED <<vars, tcpVars>>

\* uvx_server_start
ServerStart == Start(TRUE) /\ UNCHANGED <<tcpVars, reply>>

ServerTick == Tick /\ UNCHANGED <<tcpVars, reply>>

\* a poll calls back all connections and ends of streams that have arrived
ServerPolled ==
  /\ backlog > 0 => \A c \in Conn : mem[c]
  /\ \A c \in Conn : handle[c] = "open" => peer[c] # "closed"

ServerLoop ==
  /\ table = "live"
  /\ NoTimerDue \/ (EndPoll /\ ServerPolled) \/ EndClosing
  /\ UNCHANGED <<tcpVars, reply>>

\* the server's program dies, and is as it was before it was started
ServerDies ==
  /\ table = "live"
  /\ phase' = "timers" /\ table' = "none" /\ conns' = <<>>
  /\ handle' = [c \in Conn |-> "none"]
  /\ mem' = [c \in Conn |-> FALSE]
  /\ age' = [c \in Conn |-> 0]
  /\ refcount' = [c \in Conn |-> 0]
  /\ held' = [c \in Conn |-> 0]
  /\ timer' = "none" /\ listener' = "none"
  /\ end' = IF end \in {"backlog", "up"} THEN "reset" ELSE end
  /\ peer' = [c \in Conn |-> "none"]
  /\ backlog' = 0
  /\ reply' = None
  /\ UNCHANGED <<fault, sent>>

ServerStep(A) ==
  /\ A
  /\ table' # "freed"
  /\ UNCHANGED clientVars

ServerNext ==
  \/ \E c \in Conn :
       \/ \E seen \in GivenUp : Accept(c, seen)
       \/ ServerRead(c) \/ ServerReadEnd(c) \/ ServerAfterClose(c)
       \/ ServerSend(c) \/ ServerAfterSend(c)
  \/ ServerStart \/ ServerTick \/ ServerHeartbeat \/ ServerLoop \/ ServerDies

-----------------------------------------------------------------------------
(* The client, whose application calls nothing in its callbacks.           *)

\* the client's socket is closed, and with it whatever was on its way
HangUp(seen) ==
  /\ end' = "none"
  /\ peer' = [c \in Conn |-> IF peer[c] = "here" THEN seen ELSE peer[c]]
  /\ sent' = FALSE
  /\ UNCHANGED backlog

\* _uv_on_connect: the kernel of a listening server makes the connection
Connected ==
  /\ listener = "listening"
  /\ backlog < ConnBacklog
  /\ Client!OnConnectOk("nothing")
  /\ end' = "backlog"
  /\ backlog' = backlog + 1
  /\ UNCHANGED <<peer, sent>>

ConnectFails == Client!OnConnectFail("nothing") /\ UNCHANGED tcpVars

\* uvx__on_client_read
ClientRead ==
  /\ end = "up"
  /\ Client!OnReadData("nothing")
  /\ UNCHANGED tcpVars

\* uvx__on_client_read with an error.  A client learns that its server is not
\* to be reached when what it sent is not acknowledged.
ClientReadError ==
  /\ end = "reset" \/ (end = "gone" /\ sent)
  /\ Client!OnReadError("nothing")
  /\ HangUp("closed")

\* uvx_client_shutdown
ClientShutdown ==
  /\ run = "running"
  /\ Client!CallDisconnect("shutdown")
  /\ IF sock' = "closing" THEN HangUp("closed") ELSE UNCHANGED tcpVars

ClientAfterSend(d) ==
  /\ Client!AfterSend(d)
  /\ sent' = TRUE
  /\ UNCHANGED <<end, peer, backlog>>

ClientConnect ==
  /\ \E failed \in BOOLEAN : Client!Connect(failed)
  /\ UNCHANGED tcpVars

ClientSend == (\E d \in Data : Client!Send(d)) /\ UNCHANGED tcpVars

ClientAfterClose == Client!AfterClose("nothing") /\ UNCHANGED tcpVars

ClientHeartbeat ==
  /\ Client!Heartbeat
  /\ run' = run
  /\ sock' = "closing" => sock = "closing"
  /\ UNCHANGED tcpVars

ClientPolled == sock = "connected" => end # "reset"

ClientLoop ==
  /\ run # "new"
  /\ Client!NoTimerDue \/ (Client!EndPoll /\ ClientPolled) \/ Client!EndClosing
  /\ UNCHANGED tcpVars

\* the client's program dies, with its host if the server is not told
ClientDies(seen) ==
  /\ run # "new"
  /\ cphase' = "timers" /\ run' = "new" /\ sock' = "none" /\ ctimer' = "none"
  /\ uvserver' = FALSE /\ connection_closed' = 0
  /\ data' = [d \in Data |-> "none"]
  /\ UNCHANGED cfault
  /\ HangUp(seen)

\* the connection is cut, and neither end is told
LinkLost ==
  /\ end = "up"
  /\ end' = "gone"
  /\ peer' = [c \in Conn |-> IF peer[c] = "here" THEN "gone" ELSE peer[c]]
  /\ UNCHANGED <<clientVars, backlog, sent>>

ClientStep(A) == A /\ UNCHANGED <<vars, reply>>

ClientNext ==
  \/ ClientConnect \/ Connected \/ ConnectFails
  \/ ClientRead \/ ClientReadError \/ ClientAfterClose
  \/ ClientSend \/ \E d \in Data : ClientAfterSend(d)
  \/ ClientShutdown
  \/ ClientHeartbeat \/ ClientLoop
  \/ \E seen \in GivenUp : ClientDies(seen)
  \/ LinkLost

-----------------------------------------------------------------------------
SessionNext == ServerStep(ServerNext) \/ ClientStep(ClientNext)

\* Both loops iterate, their clocks move on and their timers fire again and
\* again, as in UvxServer and UvxClient.  A connection that may be made again
\* and again is made in the end; data on a connection that is not to be
\* reached ends it in the end.  The client's application sends again and
\* again, as src/test/client.c does.
SessionFairness ==
  /\ WF_sessionVars(ServerStep(ServerLoop \/ ServerHeartbeat
       \/ \E c \in Conn : \/ \E seen \in GivenUp : Accept(c, seen)
                          \/ ServerReadEnd(c) \/ ServerAfterClose(c)))
  /\ SF_sessionVars(ServerStep(ServerTick))
  /\ SF_sessionVars(ServerStep(ServerHeartbeat))
  /\ WF_sessionVars(ClientStep(ClientLoop \/ ClientHeartbeat \/ ClientAfterClose
                          \/ ClientReadError))
  /\ SF_sessionVars(ClientStep(\E d \in Data : ClientAfterSend(d)))
  /\ SF_sessionVars(ClientStep(ClientHeartbeat))
  /\ SF_sessionVars(ClientStep(Connected))
  /\ SF_sessionVars(ClientStep(ClientReadError))
  /\ WF_sessionVars(ClientStep(ClientSend))

SessionSpec == SessionInit /\ [][SessionNext]_sessionVars /\ SessionFairness

-----------------------------------------------------------------------------
(* Properties.                                                             *)

\* "will try reconnect on next uvx__on_heartbeat_timer()": a client that
\* runs is connected to its server in the end, whatever became of its
\* connections and the server before, unless uv_tcp_connect itself refuses
\* to dial: then it stays idle, as KeepsTrying of UvxClient shows.  Both
\* programs take part: the server must free the connections of old to accept
\* another.
ClientComesBack ==
  run = "running"
    ~> (end = "up" \/ sock = "idle" \/ run # "running" \/ table # "live")

\* A connection of the server whose client has left, died or is not to be
\* reached is closed in the end: at the end of the stream or, when that does
\* not come, by the timeout.
GhostGoesAway(c) ==
  (handle[c] = "open" /\ peer[c] # "here")
    ~> (handle[c] # "open" \/ peer[c] = "here")

\* No write of uvx_server_conn_send outlives its connection: the request
\* libuv calls back points to the handle inside uvx_server_conn_t.
RepliesEndWithConnection == reply # None => handle[reply] # "none" /\ mem[reply]
=============================================================================
