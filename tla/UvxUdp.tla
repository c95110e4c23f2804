-------------------------------- MODULE UvxUdp --------------------------------
(***************************************************************************)
(* uvx_udp.c: services that send datagrams to each other.  A service is a  *)
(* libuv handle, a socket that the handle may or may not have, and the     *)
(* send requests, each of which carries a copy of what it sends.           *)
(*                                                                         *)
(* The network (external) loses, delays, duplicates and reorders: net is   *)
(* the set of the datagrams sent so far, any of which may arrive at any    *)
(* time, or never.                                                         *)
(***************************************************************************)
CONSTANTS
  Node,           \* the services, each with a buffer of its application
  Bound,          \* those started with an ip; the others get a random port
  Body,           \* what a datagram may hold
  Empty,          \* the datagram of no bytes
  Req,            \* the addresses a send request can be malloc'ed at
  SocketsRunOut,  \* a socket may fail to be made or bound
  AppWaits        \* the application starts a service again only when the
                  \* loop is done with it, and uses none that is not started

ASSUME UdpAssumption ==
  /\ Bound \subseteq Node
  /\ Empty \in Body
  /\ SocketsRunOut \in BOOLEAN
  /\ AppWaits \in BOOLEAN

VARIABLES
  handle,     \* xudp->uvudp
  socket,     \* does the handle have a socket
  receiving,  \* has uv_udp_recv_start succeeded
  started,    \* uvx_udp_start returned 1, and no shutdown since
  buf,        \* the application's own buffer
  req,        \* the send requests
  given,      \* the datagrams uvx_udp_send_to_addr was called for so far
  net,        \* the datagrams that were on the network so far
  heard,      \* what on_recv was last given, if anything
  fault       \* the first contract with libuv broken

serviceVars == <<handle, socket, receiving, started>>
udpVars == <<serviceVars, buf, req, given, net, heard, fault>>

Datagram == [from : Node, to : Node, body : Body]

TypeOK ==
  /\ handle \in [Node -> {"none", "open", "closing", "closed"}]
  /\ socket \in [Node -> BOOLEAN]
  /\ receiving \in [Node -> BOOLEAN]
  /\ started \in [Node -> BOOLEAN]
  /\ buf \in [Node -> Body]
  \* queued: with libuv; done: sent, or failed, and not called back yet
  /\ req \in [Req -> {<<"free">>}
                       \cup ({"queued", "done", "leaked"} \X Datagram)]
  /\ given \subseteq Datagram
  /\ net \subseteq Datagram
  /\ heard \in [Node -> {<<>>} \cup {<<b>> : b \in Body}]
  /\ fault \in {"none", "init", "send", "close"}

UdpInit ==
  /\ handle = [n \in Node |-> "none"]
  /\ socket = [n \in Node |-> FALSE]
  /\ receiving = [n \in Node |-> FALSE]
  /\ started = [n \in Node |-> FALSE]
  /\ buf = [n \in Node |-> Empty]
  /\ req = [r \in Req |-> <<"free">>]
  /\ given = {}
  /\ net = {}
  /\ heard = [n \in Node |-> <<>>]
  /\ fault = "none"

-----------------------------------------------------------------------------
(* Slips a maintainer could make, used only to test the properties.        *)

ReturnsOne(n, ok) == TRUE
SendsFromCallersBuffer(d) == [d EXCEPT !.body = buf[d.from]]
HandsOverEmpty(b) == TRUE
CanceledNotFreed(n) == req
RequestIsKept == <<"leaked">>

-----------------------------------------------------------------------------
(* The calls of the application.                                           *)

\* the value of uvx_udp_start, which ignores that of uv_udp_recv_start
StartReturns(n, ok) == n \in Bound => ok

\* uvx_udp_start.  ok: a socket was made and bound, by uv_udp_bind or else
\* by uv_udp_recv_start.  A service that cannot be bound is closed.
Start(n, ok) ==
  /\ ~started[n]
  /\ AppWaits => handle[n] \in {"none", "closed"}
  /\ ok \/ SocketsRunOut
  /\ handle' = [handle EXCEPT ![n] = IF n \in Bound => ok THEN "open"
                                                          ELSE "closing"]
  /\ socket' = [socket EXCEPT ![n] = ok]
  /\ receiving' = [receiving EXCEPT ![n] = ok]
  /\ started' = [started EXCEPT ![n] = StartReturns(n, ok)]
  /\ fault' = IF handle[n] \in {"open", "closing"} THEN "init" ELSE fault
  /\ UNCHANGED <<buf, req, given, net, heard>>

\* the application overwrites its buffer
Fill(n, b) ==
  /\ buf' = [buf EXCEPT ![n] = b]
  /\ UNCHANGED <<serviceVars, req, given, net, heard, fault>>

\* uvx_udp_send_to_addr, and uvx_udp_send_to_ip through it.  Without a socket
\* uv_udp_send tries to make one; if it fails nobody frees the request.
SendTo(n, to, b, r, ok) ==
  LET d == [from |-> n, to |-> to, body |-> b]
  IN  /\ AppWaits => started[n]
      /\ ok \/ (SocketsRunOut /\ ~socket[n])
      /\ req[r] = <<"free">>
      /\ req' = [req EXCEPT ![r] = <<IF ok THEN "queued" ELSE "leaked", d>>]
      /\ socket' = [socket EXCEPT ![n] = ok]
      /\ given' = given \cup {d}
      /\ fault' = IF handle[n] = "open" THEN fault ELSE "send"
      /\ UNCHANGED <<handle, receiving, started, buf, net, heard>>

\* uvx_udp_shutdown
Shutdown(n) ==
  /\ AppWaits => started[n]
  /\ handle' = [handle EXCEPT ![n] = "closing"]
  /\ socket' = [socket EXCEPT ![n] = FALSE]
  /\ receiving' = [receiving EXCEPT ![n] = FALSE]
  /\ started' = [started EXCEPT ![n] = FALSE]
  /\ fault' = IF handle[n] = "open" THEN fault ELSE "close"
  /\ UNCHANGED <<buf, req, given, net, heard>>

-----------------------------------------------------------------------------
(* What the loop does.                                                     *)

\* the request carries its data behind itself
Carried(d) == d

\* uv_after_udp_send frees the request
Freed == <<"free">>

\* the requests of a handle whose close is completed: libuv cancels them and
\* calls uv_after_udp_send
Canceled(n) ==
  [r \in Req |-> IF req[r][1] \in {"queued", "done"} /\ req[r][2].from = n
                   THEN Freed ELSE req[r]]

\* libuv hands the datagram to the kernel, which may refuse it
Transmit(r, sent) ==
  /\ req[r][1] = "queued"
  /\ handle[req[r][2].from] = "open"
  /\ req' = [req EXCEPT ![r] = <<"done", @[2]>>]
  /\ net' = IF sent THEN net \cup {Carried(req[r][2])} ELSE net
  /\ UNCHANGED <<serviceVars, buf, given, heard, fault>>

AfterSend(r) ==
  /\ req[r][1] = "done"
  /\ handle[req[r][2].from] = "open"
  /\ req' = [req EXCEPT ![r] = Freed]
  /\ UNCHANGED <<serviceVars, buf, given, net, heard, fault>>

\* nread > 0, in uvx__on_udp_recv
HasData(b) == b # Empty

\* uvx__on_udp_recv, of a service that has an on_recv
OnRecv(n, d) ==
  /\ receiving[n]
  /\ d \in net
  /\ d.to = n
  /\ heard' = IF HasData(d.body) THEN [heard EXCEPT ![n] = <<d.body>>] ELSE heard
  /\ UNCHANGED <<serviceVars, buf, req, given, net, fault>>

\* the loop is done with a handle that was given to uv_close
Closed(n) ==
  /\ handle[n] = "closing"
  /\ handle' = [handle EXCEPT ![n] = "closed"]
  /\ req' = Canceled(n)
  /\ UNCHANGED <<socket, receiving, started, buf, given, net, heard, fault>>

-----------------------------------------------------------------------------
Loop ==
  \/ \E r \in Req : AfterSend(r) \/ \E sent \in BOOLEAN : Transmit(r, sent)
  \/ \E n \in Node : Closed(n) \/ \E d \in net : OnRecv(n, d)

App ==
  \E n \in Node :
    \/ Shutdown(n)
    \/ \E ok \in BOOLEAN :
         \/ Start(n, ok)
         \/ \E to \in Node, r \in Req : SendTo(n, to, buf[n], r, ok)
    \/ \E b \in Body : Fill(n, b)

\* After a fault nothing more is claimed.
UdpNext == fault = "none" /\ (App \/ Loop)

UdpSpec == UdpInit /\ [][UdpNext]_udpVars

-----------------------------------------------------------------------------
(* Properties.                                                             *)

\* An application that goes by what uvx_udp_start returned never breaks a
\* contract of libuv: it never closes a handle twice, though a start that
\* failed closes its own, never sends over a closed one, and never
\* initialises one libuv still works on.
NoFault == fault = "none"

\* "`data` is copy to internal buffer, so you can free it if needed after
\* this call": what travels is what was given to a send, whatever the
\* application has done to its buffer since.
OnlyGivenDataTravels == net \subseteq given
=============================================================================
