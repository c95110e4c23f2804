----------------------------- MODULE UvxLogProofs -----------------------------
(***************************************************************************)
(* Proofs about UvxUdp and UvxLog, for every set of services, datagrams,   *)
(* requests and calls, and whether or not sockets run out.                 *)
(*                                                                         *)
(* That nothing else travels than what was given to a send holds for every *)
(* application, since a request carries a copy.  That no contract is       *)
(* broken needs an application that waits (AppWaits): it goes by what      *)
(* uvx_udp_start returned, and a service it may use has an open handle.    *)
(* Both are proved of any steps over UDP, and hold of a logger as well.    *)
(* What the collector reads then follows from what LogeProofs shows of one *)
(* item.                                                                   *)
(***************************************************************************)
EXTENDS UvxLog, TLAPS

\* every request in use carries a datagram that was given to a send
RequestsCarryGiven == \A r \in Req : req[r][1] # "free" => req[r][2] \in given

\* a service the application may use has an open handle
StartedIsOpen == \A n \in Node : started[n] => handle[n] = "open"

\* what may happen to the services, whoever calls them, and whatever is sent
UdpStep ==
  \/ \E n \in Node : \/ Shutdown(n)
                     \/ \E ok \in BOOLEAN : Start(n, ok)
                     \/ \E b \in Body : Fill(n, b)
  \/ \E n, to \in Node, b \in Body, r \in Req, ok \in BOOLEAN : SendTo(n, to, b, r, ok)
  \/ Loop
  \/ UNCHANGED udpVars

-----------------------------------------------------------------------------
(* The types.                                                              *)

\* A request is free, or has a state and a datagram.
LEMMA ReqTyping ==
  ASSUME NEW r \in Req, TypeOK
  PROVE  \/ req[r] = <<"free">> /\ req[r][1] = "free"
         \/ /\ req[r] = <<req[r][1], req[r][2]>>
            /\ req[r][1] \in {"queued", "done", "leaked"}
            /\ req[r][2] \in Datagram
BY DEF TypeOK

\* The state of a service that starts, is used, and is shut down, and of its
\* requests, stays in its types.
LEMMA TypeStep == TypeOK /\ UdpStep => TypeOK'
<1> SUFFICES ASSUME TypeOK, UdpStep PROVE TypeOK'
  OBVIOUS
<1> USE UdpAssumption
<1>1. ASSUME NEW n \in Node, NEW ok \in BOOLEAN, Start(n, ok) PROVE TypeOK'
  BY <1>1 DEF TypeOK, Start, StartReturns
<1>2. ASSUME NEW n \in Node, NEW b \in Body, Fill(n, b) PROVE TypeOK'
  BY <1>2 DEF TypeOK, Fill, serviceVars
<1>3. ASSUME NEW n \in Node, NEW to \in Node, NEW b \in Body, NEW r \in Req,
             NEW ok \in BOOLEAN, SendTo(n, to, b, r, ok)
      PROVE  TypeOK'
  <2> DEFINE d == [from |-> n, to |-> to, body |-> b]
  <2>1. d \in Datagram
    BY DEF Datagram
  <2>2. req' = [req EXCEPT ![r] = <<IF ok THEN "queued" ELSE "leaked", d>>]
    BY <1>3 DEF SendTo
  <2>3. <<IF ok THEN "queued" ELSE "leaked", d>> \in {"queued", "done", "leaked"} \X Datagram
    BY <2>1
  <2> QED BY <1>3, <2>1, <2>2, <2>3 DEF TypeOK, SendTo
<1>4. ASSUME NEW n \in Node, Shutdown(n) PROVE TypeOK'
  BY <1>4 DEF TypeOK, Shutdown
<1>5. ASSUME NEW r \in Req, NEW sent \in BOOLEAN, Transmit(r, sent) PROVE TypeOK'
  <2>1. req[r][2] \in Datagram
    BY <1>5, ReqTyping DEF Transmit
  <2>2. <<"done", req[r][2]>> \in {"queued", "done", "leaked"} \X Datagram
    BY <2>1
  <2> QED BY <1>5, <2>1, <2>2 DEF TypeOK, Transmit, serviceVars, Carried
<1>6. ASSUME NEW r \in Req, AfterSend(r) PROVE TypeOK'
  BY <1>6 DEF TypeOK, AfterSend, serviceVars, Freed
<1>7. ASSUME NEW n \in Node, NEW d \in net, OnRecv(n, d) PROVE TypeOK'
  BY <1>7 DEF TypeOK, OnRecv, serviceVars, Datagram
<1>8. ASSUME NEW n \in Node, Closed(n) PROVE TypeOK'
  <2>1. \A r \in Req : req'[r] = req[r] \/ req'[r] = <<"free">>
    BY <1>8 DEF Closed, Canceled, Freed
  <2>2. req' \in [Req -> {<<"free">>} \cup ({"queued", "done", "leaked"} \X Datagram)]
    BY <1>8, <2>1 DEF Closed, Canceled, TypeOK
  <2> QED BY <1>8, <2>2 DEF TypeOK, Closed
<1>9. CASE UNCHANGED udpVars
  BY <1>9 DEF TypeOK, udpVars, serviceVars
<1> QED
  BY <1>1, <1>2, <1>3, <1>4, <1>5, <1>6, <1>7, <1>8, <1>9 DEF UdpStep, Loop

\* An application of UvxUdp takes such steps.
LEMMA UdpNextIsStep == TypeOK /\ [UdpNext]_udpVars => UdpStep
<1>1. ASSUME NEW n \in Node, TypeOK PROVE buf[n] \in Body
  BY <1>1 DEF TypeOK
<1> QED BY <1>1 DEF UdpNext, App, UdpStep

\* The types hold, for every application.
THEOREM TypeCorrect == UdpSpec => []TypeOK
<1>1. UdpInit => TypeOK
  BY UdpAssumption DEF UdpInit, TypeOK
<1> QED BY <1>1, TypeStep, UdpNextIsStep, PTL DEF UdpSpec

-----------------------------------------------------------------------------
(* What travels.                                                           *)

\* A step keeps what is in the requests and on the network among what was
\* given, which only grows.
LEMMA CarryStep ==
  TypeOK /\ RequestsCarryGiven /\ OnlyGivenDataTravels /\ UdpStep
    => RequestsCarryGiven' /\ OnlyGivenDataTravels'
<1> SUFFICES ASSUME TypeOK, RequestsCarryGiven, OnlyGivenDataTravels,
                    UdpStep
             PROVE  RequestsCarryGiven' /\ OnlyGivenDataTravels'
  OBVIOUS
<1> USE DEF RequestsCarryGiven, OnlyGivenDataTravels
<1>1. ASSUME UNCHANGED <<req, given, net>>
      PROVE  RequestsCarryGiven' /\ OnlyGivenDataTravels'
  BY <1>1
<1>2. ASSUME NEW n \in Node, NEW to \in Node, NEW b \in Body, NEW r \in Req,
             NEW ok \in BOOLEAN, SendTo(n, to, b, r, ok)
      PROVE  RequestsCarryGiven' /\ OnlyGivenDataTravels'
  <2> DEFINE d == [from |-> n, to |-> to, body |-> b]
             new == <<IF ok THEN "queued" ELSE "leaked", d>>
  <2>1. req' = [req EXCEPT ![r] = new] /\ given' = given \cup {d} /\ net' = net
    BY <1>2 DEF SendTo
  <2>2. new[2] = d
    OBVIOUS
  <2> HIDE DEF new, d
  <2>3. \A q \in Req : req'[q] = req[q] \/ req'[q] = new
    BY <2>1 DEF TypeOK
  <2> QED BY <2>1, <2>2, <2>3
<1>3. ASSUME NEW r \in Req, NEW sent \in BOOLEAN, Transmit(r, sent)
      PROVE  RequestsCarryGiven' /\ OnlyGivenDataTravels'
  <2>1. req[r][2] \in given
    BY <1>3 DEF Transmit
  <2>2. \A q \in Req : req'[q] = req[q] \/ req'[q] = <<"done", req[r][2]>>
    BY <1>3 DEF Transmit, TypeOK
  <2>3. given' = given /\ net' \subseteq net \cup {req[r][2]}
    BY <1>3 DEF Transmit, Carried
  <2> QED BY <2>1, <2>2, <2>3
<1>4. ASSUME NEW r \in Req, AfterSend(r)
      PROVE  RequestsCarryGiven' /\ OnlyGivenDataTravels'
  <2>1. \A q \in Req : req'[q] = req[q] \/ req'[q] = <<"free">>
    BY <1>4 DEF AfterSend, Freed, TypeOK
  <2> QED BY <1>4, <2>1 DEF AfterSend
<1>5. ASSUME NEW n \in Node, Closed(n)
      PROVE  RequestsCarryGiven' /\ OnlyGivenDataTravels'
  <2>1. \A q \in Req : req'[q] = req[q] \/ req'[q] = <<"free">>
    BY <1>5 DEF Closed, Canceled, Freed
  <2> QED BY <1>5, <2>1 DEF Closed
<1>6. ASSUME NEW n \in Node, Shutdown(n) \/ (\E ok \in BOOLEAN : Start(n, ok))
                             \/ (\E b \in Body : Fill(n, b))
      PROVE  UNCHANGED <<req, given, net>>
  BY <1>6 DEF Shutdown, Start, Fill
<1>7. ASSUME NEW n \in Node, NEW d \in net, OnRecv(n, d)
      PROVE  UNCHANGED <<req, given, net>>
  BY <1>7 DEF OnRecv
<1>8. CASE UNCHANGED udpVars
  BY <1>1, <1>8 DEF udpVars
<1> QED
  BY <1>1, <1>2, <1>3, <1>4, <1>5, <1>6, <1>7, <1>8 DEF UdpStep, Loop

\* What travels is what was given to uvx_udp_send_to_addr, for every
\* application, and whatever it does to its buffer after the call.
THEOREM CopiesTravel == UdpSpec => []OnlyGivenDataTravels
<1>1. UdpInit => RequestsCarryGiven /\ OnlyGivenDataTravels
  BY DEF UdpInit, RequestsCarryGiven, OnlyGivenDataTravels
<1> QED BY <1>1, CarryStep, UdpNextIsStep, TypeCorrect, PTL DEF UdpSpec

-----------------------------------------------------------------------------
(* What the application may call.                                          *)

\* What uvx_udp_start returned tells whether the handle is open.
LEMMA OpenStep ==
  ASSUME AppWaits
  PROVE  TypeOK /\ StartedIsOpen /\ NoFault /\ UdpStep
           => StartedIsOpen' /\ NoFault'
<1> SUFFICES ASSUME TypeOK, StartedIsOpen, NoFault, UdpStep
             PROVE  StartedIsOpen' /\ NoFault'
  OBVIOUS
<1> USE AppWaits DEF StartedIsOpen, NoFault
<1>1. ASSUME NEW n \in Node, NEW ok \in BOOLEAN, Start(n, ok)
      PROVE  StartedIsOpen' /\ NoFault'
  BY <1>1 DEF Start, StartReturns, TypeOK
<1>2. ASSUME NEW n \in Node, NEW b \in Body, Fill(n, b)
      PROVE  StartedIsOpen' /\ NoFault'
  BY <1>2 DEF Fill, serviceVars
<1>3. ASSUME NEW n \in Node, NEW to \in Node, NEW b \in Body, NEW r \in Req,
             NEW ok \in BOOLEAN, SendTo(n, to, b, r, ok)
      PROVE  StartedIsOpen' /\ NoFault'
  BY <1>3 DEF SendTo
<1>4. ASSUME NEW n \in Node, Shutdown(n)
      PROVE  StartedIsOpen' /\ NoFault'
  BY <1>4 DEF Shutdown, TypeOK
<1>5. ASSUME NEW r \in Req, NEW sent \in BOOLEAN, Transmit(r, sent) \/ AfterSend(r)
      PROVE  StartedIsOpen' /\ NoFault'
  BY <1>5 DEF Transmit, AfterSend, serviceVars
<1>6. ASSUME NEW n \in Node, NEW d \in net, OnRecv(n, d)
      PROVE  StartedIsOpen' /\ NoFault'
  BY <1>6 DEF OnRecv, serviceVars
<1>7. ASSUME NEW n \in Node, Closed(n)
      PROVE  StartedIsOpen' /\ NoFault'
  BY <1>7 DEF Closed, TypeOK
<1>8. CASE UNCHANGED udpVars
  BY <1>8 DEF udpVars, serviceVars
<1> QED
  BY <1>1, <1>2, <1>3, <1>4, <1>5, <1>6, <1>7, <1>8 DEF UdpStep, Loop

\* An application that goes by what uvx_udp_start returned, and starts a
\* service again only when the loop is done with it, breaks no contract of
\* libuv, though a start that failed closes the handle itself.
THEOREM PatientAppIsSafe ==
  ASSUME AppWaits
  PROVE  UdpSpec => []NoFault
<1>1. UdpInit => StartedIsOpen /\ NoFault
  BY DEF UdpInit, StartedIsOpen, NoFault
<1>2. TypeOK /\ StartedIsOpen /\ NoFault /\ UdpStep => StartedIsOpen' /\ NoFault'
  BY OpenStep
<1> QED BY <1>1, <1>2, UdpNextIsStep, TypeCorrect, PTL DEF UdpSpec

-----------------------------------------------------------------------------
(* The items of a logger.                                                  *)

LP == INSTANCE LogeProofs WITH call <- Empty, item <- Empty

\* The assumption of Loge and its proofs holds of a logger's constants.
LEMMA ItemConstants == LP!ConstantsOK
BY LogAssumption
  DEF LP!ConstantsOK, L!ConstantsOK, L!Nul, LP!Nul, L!Cont, LP!Cont

\* The items of UvxLog are those LogeProofs is about.
LEMMA SameItems ==
  ASSUME NEW n, NEW c
  PROVE  L!Serialized(n, c) = LP!Serialized(n, c)
<1>1. \A f : L!LastKept(f) = LP!LastKept(f)
  BY DEF L!LastKept, LP!LastKept, L!SlashBefore, LP!SlashBefore, L!IndicesOf, LP!IndicesOf, L!SlashOf, LP!SlashOf, L!Slash, LP!Slash, L!Range, LP!Range, L!Backslash, LP!Backslash, L!Max, LP!Max, L!Directories, LP!Directories
<1>2. L!ShortenPath(c.file) = LP!ShortenPath(c.file)
  BY <1>1 DEF L!ShortenPath, LP!ShortenPath
<1>3. \A x, e, t : L!WriteStr(x, e, t) = LP!WriteStr(x, e, t)
  BY DEF L!Min, LP!Min, L!Terminated, LP!Terminated, L!WriteStr, LP!WriteStr, L!Max, LP!Max, L!Cut, LP!Cut, L!Room, LP!Room, L!Cont, LP!Cont, L!Nul, LP!Nul
<1>4. \A x, e, t : L!WriteBin(x, e, t) = LP!WriteBin(x, e, t)
  BY DEF L!Min, LP!Min, L!Room, LP!Room, L!WriteBin, LP!WriteBin, L!Terminated, LP!Terminated, L!Nul, LP!Nul
<1>5. L!ExtraEnd(c.bufsize) = LP!ExtraEnd(c.bufsize)
  BY DEF L!ExtraEnd, LP!ExtraEnd, L!Min, LP!Min
<1>6. /\ \A k : L!Uint8(k) = LP!Uint8(k) /\ L!Uint16(k) = LP!Uint16(k)
      /\ L!None = LP!None
      /\ L!Terminated(<<>>, n) = LP!NameBlock(n)
  BY DEF L!None, LP!None, L!Uint8, LP!Uint8, L!Uint16, LP!Uint16, L!Terminated, LP!Terminated, L!Nul, LP!Nul, LP!NameBlock
<1> DEFINE end   == L!ExtraEnd(c.bufsize)
           named == L!Terminated(<<>>, n)
           tags  == L!WriteStr(named, TextLimit, c.tags)
           file  == L!WriteStr(tags, TextLimit, L!ShortenPath(c.file))
           msg   == IF c.binary THEN L!WriteBin(file, end, c.msg)
                                ELSE L!WriteStr(file, end, c.msg)
<1>7. L!Serialized(n, c) =
        IF msg = NULL THEN L!None
        ELSE [extra |-> msg,
              name_offset |-> 0,
              tags_offset |-> L!Uint8(Len(named)),
              file_offset |-> L!Uint8(Len(tags)),
              msg_offset |-> L!Uint8(Len(file)),
              msg_len |-> L!Uint16(Len(msg) - Len(file) - 1),
              size |-> HeaderSize + Len(msg)]
  BY DEF L!Serialized
<1>8. tags = LP!TagsBlock(n, c)
  BY <1>3, <1>6 DEF LP!TagsBlock
<1>9. file = LP!FileBlock(n, c)
  <2> HIDE DEF tags
  <2> QED BY <1>2, <1>3, <1>8 DEF LP!FileBlock
<1>10. msg = LP!MsgBlock(n, c)
  <2> HIDE DEF file
  <2> QED BY <1>3, <1>4, <1>5, <1>9 DEF LP!MsgBlock
<1>11. LP!Serialized(n, c) =
        IF LP!MsgBlock(n, c) = NULL THEN LP!None
        ELSE [extra |-> LP!MsgBlock(n, c),
              name_offset |-> 0,
              tags_offset |-> LP!Uint8(Len(LP!NameBlock(n))),
              file_offset |-> LP!Uint8(Len(LP!TagsBlock(n, c))),
              msg_offset |-> LP!Uint8(Len(LP!FileBlock(n, c))),
              msg_len |-> LP!Uint16(Len(LP!MsgBlock(n, c)) - Len(LP!FileBlock(n, c)) - 1),
              size |-> HeaderSize + Len(LP!MsgBlock(n, c))]
  BY DEF LP!Serialized, LP!MsgBlock, LP!FileBlock, LP!TagsBlock, LP!NameBlock
<1> HIDE DEF msg, file, tags, named
<1> QED
  BY <1>6, <1>7, <1>8, <1>9, <1>10, <1>11 DEF named

\* And so are their readers.
LEMMA SameReaders ==
  /\ \A x, o : L!StringIn(x, o) = LP!StringIn(x, o)
  /\ \A b : L!MessageOf(b) = LP!MessageOf(b)
  /\ \A s, t : L!IsTruncated(s, t) <=> LP!IsTruncated(s, t)
  /\ \A t : L!Text(t) = LP!Text(t)
  /\ \A n : L!Named(n) = LP!Named(n)
  /\ L!None = LP!None
  /\ L!Calls = LP!Calls
<1>1. \A x, o : L!StringIn(x, o) = LP!StringIn(x, o)
  BY DEF L!StringIn, LP!StringIn, L!Min, LP!Min, L!Nul, LP!Nul
<1>2. \A b : L!MessageOf(b) = LP!MessageOf(b)
  BY DEF L!MessageOf, LP!MessageOf
<1>3. \A s, t : L!IsTruncated(s, t) <=> LP!IsTruncated(s, t)
  BY DEF L!IsTruncated, LP!IsTruncated, L!IsPrefix, LP!IsPrefix, L!Cont, LP!Cont
<1>4. \A t : L!Text(t) = LP!Text(t)
  BY DEF L!Text, LP!Text
<1>5. \A n : L!Named(n) = LP!Named(n)
  BY DEF L!Named, LP!Named, L!Min, LP!Min, L!NameRoom, LP!NameRoom
<1>6. L!None = LP!None /\ L!Calls = LP!Calls
  BY DEF L!None, LP!None, L!Calls, LP!Calls
<1> QED BY <1>1, <1>2, <1>3, <1>4, <1>5, <1>6

\* what a logger may send: no bytes, or an item of one of its calls
ItemBody ==
  {b \in Body : b # Empty => \E name \in Names, c \in LogCalls : IsItemOf(b, name, c)}

\* What loge makes of a call is an item of that call, or no bytes.
LEMMA SerializedIsItem ==
  ASSUME NEW name \in Names, NEW c \in LogCalls
  PROVE  L!Serialized(L!Named(name), c) \in ItemBody
<1> DEFINE b == L!Serialized(L!Named(name), c)
<1>1. b \in Body /\ c \in L!Calls /\ c.bufsize > HeaderSize + TextLimit
  BY LogAssumption
<1>2. ASSUME b # Empty PROVE IsItemOf(b, name, c)
  <2>1. LP!Named(name) \in LP!FitName
    BY ItemConstants, LP!NamedTyping
  <2>2. c \in LP!Calls /\ b = LP!Serialized(LP!Named(name), c)
    BY <1>1, SameItems, SameReaders
  <2>3. b # LP!None
    BY <1>2, LogAssumption, SameReaders
  <2> HIDE DEF b
  <2>4. /\ LP!StringIn(b.extra, b.name_offset) = LP!Named(name)
        /\ LP!IsTruncated(LP!StringIn(b.extra, b.tags_offset), LP!Text(c.tags))
        /\ LP!IsTruncated(LP!MessageOf(b), LP!Text(c.msg))
    BY <1>1, <2>1, <2>2, <2>3, ItemConstants, LP!ItemReadsBack
  <2> QED BY <1>2, <2>4, SameReaders DEF IsItemOf
<1> QED BY <1>1, <1>2 DEF ItemBody

-----------------------------------------------------------------------------
(* The specification of a logger and its collector.                        *)

\* the logger has one of its names, cut to its room
LogeOK ==
  loge \in [name : {L!Named(name) : name \in Names}, enabled : BOOLEAN]

\* What a call makes of the logger as it is.
LEMMA ItemOfIsItem ==
  ASSUME LogeOK, NEW c \in LogCalls
  PROVE  L!ItemOf(c) \in ItemBody
<1>1. PICK name \in Names : loge.name = L!Named(name)
  BY DEF LogeOK
<1>2. L!None \in ItemBody
  BY LogAssumption, UdpAssumption DEF ItemBody
<1> QED BY <1>1, <1>2, SerializedIsItem DEF L!ItemOf

\* The logger keeps a name of its own.
LEMMA LogeStep == LogeOK /\ [Next]_logVars => LogeOK'
<1>1. ASSUME LogeOK, NEW name \in Names, NEW ok \in BOOLEAN, LogInit(name, ok)
      PROVE  LogeOK'
  BY <1>1 DEF LogInit, NewLoge, LogeOK
<1>2. ASSUME LogeOK, NEW enabled \in BOOLEAN, LogEnable(enabled) PROVE LogeOK'
  BY <1>2 DEF LogEnable, LogeOK
<1>3. ASSUME LogeOK, UNCHANGED loge PROVE LogeOK'
  BY <1>3 DEF LogeOK
<1> QED
  BY <1>1, <1>2, <1>3 DEF Next, Log, Udp, LogSend, LogSerialize, LogSendSerialized, logVars

\* A logger's steps are such as any application of UDP takes.
LEMMA LogNextIsStep == TypeOK /\ LogeOK /\ [Next]_logVars => UdpStep
<1> SUFFICES ASSUME TypeOK, LogeOK, [Next]_logVars PROVE UdpStep
  OBVIOUS
<1>1. Logger \in Node /\ Collector \in Node
  BY LogAssumption
<1>2. buf[Logger] \in Body
  BY <1>1 DEF TypeOK
<1>3. \A c \in LogCalls : L!ItemOf(c) \in Body
  BY ItemOfIsItem DEF ItemBody
<1>4. CASE Log
  <2>1. ASSUME NEW name \in Names, NEW ok \in BOOLEAN, LogInit(name, ok) PROVE UdpStep
    BY <1>1, <2>1 DEF LogInit, UdpStep
  <2>2. ASSUME NEW r \in Req, NEW ok \in BOOLEAN, LogSendSerialized(r, ok) PROVE UdpStep
    BY <1>1, <1>2, <2>2 DEF LogSendSerialized, UdpStep
  <2>3. ASSUME NEW c \in LogCalls, NEW r \in Req, NEW ok \in BOOLEAN, LogSend(c, r, ok)
        PROVE  UdpStep
    BY <1>1, <1>3, <2>3 DEF LogSend, UdpStep
  <2>4. ASSUME NEW enabled \in BOOLEAN, LogEnable(enabled) PROVE UdpStep
    BY <2>4 DEF LogEnable, UdpStep
  <2>5. ASSUME NEW c \in LogCalls, LogSerialize(c) PROVE UdpStep
    BY <1>1, <1>3, <2>5 DEF LogSerialize, UdpStep
  <2> QED BY <1>4, <2>1, <2>2, <2>3, <2>4, <2>5 DEF Log
<1>5. CASE Udp
  BY <1>1, <1>5 DEF Udp, UdpStep
<1>6. CASE UNCHANGED logVars
  BY <1>6 DEF logVars, UdpStep
<1> QED BY <1>4, <1>5, <1>6 DEF Next

\* The types of a logger, its collector and what is between them.
THEOREM LogTypeCorrect == Spec => [](TypeOK /\ LogeOK)
<1>1. Init => TypeOK /\ LogeOK
  BY UdpAssumption DEF Init, UdpInit, TypeOK, NewLoge, LogeOK
<1> QED BY <1>1, TypeStep, LogeStep, LogNextIsStep, PTL DEF Spec

\* a system of services on which any application makes its calls, with any
\* data, and libuv and the network do their part
UdpSystem == UdpInit /\ [][UdpStep]_udpVars

\* A logger and its collector are such a system: what is proved of UdpStep
\* holds of them.
THEOREM LogImplementsUdp == Spec => UdpSystem
<1>1. Init => UdpInit
  BY DEF Init
<1>2. TypeOK /\ LogeOK /\ [Next]_logVars => [UdpStep]_udpVars
  BY LogNextIsStep
<1> QED BY <1>1, <1>2, LogTypeCorrect, PTL DEF Spec, UdpSystem

\* What travels is what the logger gave to a send, whatever it serializes to
\* its buffer since.
THEOREM LogCopiesTravel == Spec => []OnlyGivenDataTravels
<1>1. Init => RequestsCarryGiven /\ OnlyGivenDataTravels
  BY DEF Init, UdpInit, RequestsCarryGiven, OnlyGivenDataTravels
<1> QED BY <1>1, CarryStep, LogNextIsStep, LogTypeCorrect, PTL DEF Spec

\* A logger that waits breaks no contract of libuv, though uvx_log_init takes
\* no notice of a socket that could not be made.
THEOREM PatientLoggerIsSafe ==
  ASSUME AppWaits
  PROVE  Spec => []NoFault
<1>1. Init => StartedIsOpen /\ NoFault
  BY DEF Init, UdpInit, StartedIsOpen, NoFault
<1>2. TypeOK /\ StartedIsOpen /\ NoFault /\ UdpStep => StartedIsOpen' /\ NoFault'
  BY OpenStep
<1> QED BY <1>1, <1>2, LogNextIsStep, LogTypeCorrect, PTL DEF Spec

-----------------------------------------------------------------------------
(* What the collector reads.                                               *)

\* The logger's buffer and all that was given to a send hold items.
ItemsGiven ==
  /\ buf[Logger] \in ItemBody
  /\ \A d \in given : d.body \in ItemBody

\* A step gives items only, and the collector hears only what was given.
LEMMA ItemStep ==
  /\ TypeOK /\ LogeOK /\ OnlyGivenDataTravels
  /\ ItemsGiven /\ CollectorReadsItems
  /\ [Next]_logVars
  => ItemsGiven' /\ CollectorReadsItems'
<1> SUFFICES ASSUME TypeOK, LogeOK, OnlyGivenDataTravels, ItemsGiven,
                    CollectorReadsItems, [Next]_logVars
             PROVE  ItemsGiven' /\ CollectorReadsItems'
  OBVIOUS
<1>1. Logger \in Node /\ Collector \in Node
  BY LogAssumption
<1>2. \A c \in LogCalls : L!ItemOf(c) \in ItemBody
  BY ItemOfIsItem
<1>3. ASSUME UNCHANGED <<buf, given, heard>>
      PROVE  ItemsGiven' /\ CollectorReadsItems'
  BY <1>3 DEF ItemsGiven, CollectorReadsItems
<1>4. ASSUME NEW b \in ItemBody, NEW r \in Req, NEW ok \in BOOLEAN,
             SendTo(Logger, Collector, b, r, ok)
      PROVE  ItemsGiven' /\ CollectorReadsItems'
  <2>1. /\ given' = given \cup {[from |-> Logger, to |-> Collector, body |-> b]}
        /\ UNCHANGED <<buf, heard>>
    BY <1>4 DEF SendTo
  <2> QED BY <2>1 DEF ItemsGiven, CollectorReadsItems
<1>5. ASSUME NEW c \in LogCalls, LogSerialize(c)
      PROVE  ItemsGiven' /\ CollectorReadsItems'
  <2>1. buf'[Logger] = L!ItemOf(c) /\ UNCHANGED <<given, heard>>
    BY <1>1, <1>5 DEF LogSerialize, Fill, TypeOK
  <2> QED BY <1>2, <2>1 DEF ItemsGiven, CollectorReadsItems
<1>6. ASSUME NEW n \in Node, NEW d \in net, OnRecv(n, d)
      PROVE  ItemsGiven' /\ CollectorReadsItems'
  <2>1. UNCHANGED <<buf, given>>
    BY <1>6 DEF OnRecv
  <2>2. d.body \in ItemBody
    BY DEF ItemsGiven, OnlyGivenDataTravels
  <2>3. \/ heard'[Collector] = heard[Collector]
        \/ heard'[Collector] = <<d.body>> /\ d.body # Empty
    BY <1>1, <1>6 DEF OnRecv, HasData, TypeOK
  <2>4. CASE heard'[Collector] = heard[Collector]
    BY <2>1, <2>4 DEF ItemsGiven, CollectorReadsItems
  <2>5. CASE heard'[Collector] = <<d.body>> /\ d.body # Empty
    <3>1. Range(heard'[Collector]) = {d.body}
      BY <2>5 DEF Range
    <3>2. \E name \in Names, c \in LogCalls : IsItemOf(d.body, name, c)
      BY <2>2, <2>5 DEF ItemBody
    <3> QED BY <2>1, <3>1, <3>2 DEF ItemsGiven, CollectorReadsItems, IsItemOf
  <2> QED BY <2>3, <2>4, <2>5
<1>7. CASE Log
  <2>1. ASSUME NEW name \in Names, NEW ok \in BOOLEAN, LogInit(name, ok)
        PROVE  UNCHANGED <<buf, given, heard>>
    BY <2>1 DEF LogInit, Start
  <2>2. ASSUME NEW r \in Req, NEW ok \in BOOLEAN, LogSendSerialized(r, ok)
        PROVE  ItemsGiven' /\ CollectorReadsItems'
    BY <1>4, <2>2 DEF LogSendSerialized, ItemsGiven
  <2>3. ASSUME NEW c \in LogCalls, NEW r \in Req, NEW ok \in BOOLEAN, LogSend(c, r, ok)
        PROVE  ItemsGiven' /\ CollectorReadsItems'
    BY <1>2, <1>4, <2>3 DEF LogSend
  <2>4. ASSUME NEW enabled \in BOOLEAN, LogEnable(enabled)
        PROVE  UNCHANGED <<buf, given, heard>>
    BY <2>4 DEF LogEnable, udpVars
  <2> QED BY <1>3, <1>5, <1>7, <2>1, <2>2, <2>3, <2>4 DEF Log
<1>8. CASE Udp
  <2>1. ASSUME NEW n \in Node, NEW ok \in BOOLEAN, Start(n, ok)
        PROVE  UNCHANGED <<buf, given, heard>>
    BY <2>1 DEF Start
  <2>2. ASSUME NEW n \in Node, Shutdown(n) \/ Closed(n)
        PROVE  UNCHANGED <<buf, given, heard>>
    BY <2>2 DEF Shutdown, Closed
  <2>3. ASSUME NEW r \in Req, NEW sent \in BOOLEAN, Transmit(r, sent) \/ AfterSend(r)
        PROVE  UNCHANGED <<buf, given, heard>>
    BY <2>3 DEF Transmit, AfterSend
  <2> QED BY <1>1, <1>3, <1>6, <1>8, <2>1, <2>2, <2>3 DEF Udp, Loop
<1>9. CASE UNCHANGED logVars
  BY <1>3, <1>9 DEF logVars, udpVars
<1> QED BY <1>7, <1>8, <1>9 DEF Next

\* Whatever the network loses, repeats and reorders, and however the logger
\* is disabled, renamed and restarted, what the collector is given is an item
\* that reads as one of the logger's names and the texts of one of its calls,
\* perhaps cut between characters.
THEOREM CollectorIsGivenItems == Spec => []CollectorReadsItems
<1>1. Init => ItemsGiven /\ CollectorReadsItems
  <2> SUFFICES ASSUME Init PROVE ItemsGiven /\ CollectorReadsItems
    OBVIOUS
  <2>1. Logger \in Node /\ Collector \in Node
    BY LogAssumption
  <2>2. buf[Logger] = Empty /\ given = {} /\ heard[Collector] = <<>>
    BY <2>1 DEF Init, UdpInit
  <2>3. Range(<<>>) = {}
    BY DEF Range
  <2>4. Empty \in ItemBody
    BY UdpAssumption DEF ItemBody
  <2> QED BY <2>2, <2>3, <2>4 DEF ItemsGiven, CollectorReadsItems
<1> QED BY <1>1, ItemStep, LogTypeCorrect, LogCopiesTravel, PTL DEF Spec
=============================================================================
