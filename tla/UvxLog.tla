-------------------------------- MODULE UvxLog --------------------------------
(***************************************************************************)
(* uvx_log.c: a logger makes items with loge and sends them over UDP to a  *)
(* collector, which reads them as src/test/log-server.c does.  An item is  *)
(* sent at once, or serialized to a buffer and sent later.  A disabled log *)
(* makes items of no bytes, and sends them.                                *)
(***************************************************************************)
EXTENDS UvxUdp, SequencesExt

CONSTANTS
  Logger,     \* xlog->xudp
  Collector,  \* a service at the target address
  LogCalls,   \* the arguments of the application's calls, see Loge
  Byte, Names, Texts, Paths, BufSizes, NameSize, HeaderSize, TextLimit, MaxBuf,
  NULL

VARIABLE loge  \* xlog->loge

L == INSTANCE Loge WITH call <- Empty, item <- Empty

\* The application's buffers have room for the texts before the message, as
\* one of LOGE_MAXBUF has, and a datagram may hold an item of each call.
ASSUME LogAssumption ==
  /\ L!ConstantsOK
  /\ Node = {Logger, Collector}
  /\ Logger \notin Bound
  /\ Empty = L!None
  /\ LogCalls \subseteq L!Calls
  /\ \A c \in LogCalls : c.bufsize > HeaderSize + TextLimit
  /\ \A name \in Names, c \in LogCalls : L!Serialized(L!Named(name), c) \in Body

logVars == <<udpVars, loge>>

-----------------------------------------------------------------------------
NewLoge(name) == [name |-> L!Named(name), enabled |-> TRUE]

Init == UdpInit /\ \E name \in Names : loge = NewLoge(name)

\* uvx_log_init
LogInit(name, ok) ==
  /\ Start(Logger, ok)
  /\ loge' = NewLoge(name)

\* uvx_log_enable
LogEnable(enabled) ==
  /\ loge' = [loge EXCEPT !.enabled = enabled]
  /\ UNCHANGED udpVars

\* uvx_log_send and uvx_log_send_bin, into a local buffer of LOGE_MAXBUF
LogSend(c, r, ok) ==
  /\ c.bufsize = MaxBuf
  /\ SendTo(Logger, Collector, L!ItemOf(c), r, ok)
  /\ UNCHANGED loge

\* uvx_log_serialize and uvx_log_serialize_bin
LogSerialize(c) ==
  /\ Fill(Logger, L!ItemOf(c))
  /\ UNCHANGED loge

\* uvx_log_send_serialized
LogSendSerialized(r, ok) ==
  /\ SendTo(Logger, Collector, buf[Logger], r, ok)
  /\ UNCHANGED loge

-----------------------------------------------------------------------------
Log ==
  \/ \E ok \in BOOLEAN :
       \/ \E name \in Names : LogInit(name, ok)
       \/ \E r \in Req : LogSendSerialized(r, ok)
                         \/ \E c \in LogCalls : LogSend(c, r, ok)
  \/ \E enabled \in BOOLEAN : LogEnable(enabled)
  \/ \E c \in LogCalls : LogSerialize(c)

Udp ==
  /\ \/ \E ok \in BOOLEAN : Start(Collector, ok)
     \/ \E n \in Node : Shutdown(n)
     \/ Loop
  /\ UNCHANGED loge

Next == fault = "none" /\ (Log \/ Udp)

\* libuv sends what is queued, calls back what it has sent, and completes
\* each close.
Fairness ==
  /\ \A r \in Req : WF_logVars(fault = "none" /\ UNCHANGED loge
                      /\ (AfterSend(r) \/ \E sent \in BOOLEAN : Transmit(r, sent)))
  /\ \A n \in Node : WF_logVars(fault = "none" /\ UNCHANGED loge /\ Closed(n))

Spec == Init /\ [][Next]_logVars /\ Fairness

-----------------------------------------------------------------------------
(* Properties.                                                             *)

\* b reads as an item of a call
IsItemOf(b, name, c) ==
  /\ b # Empty
  /\ L!StringIn(b.extra, b.name_offset) = L!Named(name)
  /\ L!IsTruncated(L!StringIn(b.extra, b.tags_offset), L!Text(c.tags))
  /\ L!IsTruncated(L!MessageOf(b), L!Text(c.msg))

\* Everything the collector's on_recv is given is an item, and reads as the
\* logger's name and the texts of one call, through disabled logs, a
\* restarted logger and a network that loses, repeats and reorders:
\* log-server.c reads the header and the texts without a look at the size.
CollectorReadsItems ==
  \A b \in Range(heard[Collector]) :
    \E name \in Names, c \in LogCalls : IsItemOf(b, name, c)

\* A request libuv has taken is freed, called back or canceled, whenever the
\* service is shut down.
RequestsEnd ==
  \A r \in Req : req[r][1] \in {"queued", "done"} ~> req[r][1] = "free"
=============================================================================
