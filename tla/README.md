# libuvx: verification

libuvx is a small C library on libuv: a TCP server, a TCP client, UDP, and log items that are serialized and sent over
UDP. This directory holds TLA+ models of its parts, TLC configurations that check them on small instances, and proofs
that hold for every instance. `PROJECT.json` lists the runs, the source lines behind every definition, the hazards and
the theorems.

To check a module: `tlc -workers 2 -config UvxServer.cfg MCUvxServer`. To check proofs: `tlapm UvxSessionProofs.tla`.

## The system

| part | state | operations | modules |
|---|---|---|---|
| TCP server, `uvx_server.c` | the connection table, a timer, the listening handle; per connection its handle, time of last communication and reference count | start, shutdown, accept, read, close, heartbeat with the timeout scan, iteration, `uvx_server_conn_ref` | `UvxServer`, `UvxSessionProofs` |
| reference counts, same file | `refcount`, `refmutex`, the memory | `uvx_server_conn_ref`, from any thread | `ConnRef`, `ConnRefProofs` |
| connection table, `utils/linkhash.c` | slots, tombstones, a list through the slots | new, insert, lookup, delete, resize, free | `LinkHash`, `LinkHashProofs`; what its callers see: `TableOps`, `OrderedTable` |
| TCP client, `uvx_client.c` | one socket handle that is used again and again, `uvserver`, `connection_closed`, a timer | connect, send, disconnect, shutdown, socket handlers, heartbeat that redials | `UvxClient`, `UvxClientProofs` |
| stream sends, `uvx.c` | a write request and the data it carries | `uvx_send_to_stream` and its callback | the client's in `UvxClient`, the server's in `UvxSession` |
| client and server over TCP | what each end knows of the other, the listen backlog | deaths and restarts of both, lost links, both heartbeats | `UvxSession`, `UvxSessionProofs` |
| byte buffer, `utils/automem.c` | size, buffer size, block | init, uninit, clean, reset, append, attach, detach, erase | `Automem`, `AutomemProofs`; abstract: `ByteQueue` |
| log items, `loge/loge.c` | name, enabled | naming, enabling, serializing | `Loge`, `LogeProofs` |
| UDP, `uvx_udp.c` | a handle, its socket, send requests with a copy of their data | start, send, receive, shutdown | `UvxUdp`, `UvxLogProofs` |
| logs over UDP, `uvx_log.c` and its reader `test/log-server.c` | a UDP service and a loge | init, enable, send, serialize, send later | `UvxLog`, `UvxLogProofs` |

How they interact. Everything but `uvx_server_conn_ref` runs on the loop's thread. `uv_run` runs due timers, then what
poll found, then the callbacks of closed handles, and each handler may call back into the application, which may call the
library again from there: shut the server down in a heartbeat, disconnect in `on_recv`, take a reference for another
thread. The server's handlers share the connection table, whose list order is a contract between `uvx__on_read` (delete
and insert again) and `_uvx_check_timeout_clients` (stop at the first fresh entry); the comment there says it relies on
the table's internals. The client has two fields that say where its connection stands, and the close callback, which
comes later than `uv_close`, is where they change.

The hard behaviours, which `PROJECT.json` lists by line under "hazards": calls of the application in the middle of a
handler; the time between `uv_close` and its callback; addresses that are freed and allocated again; a failed accept, a
connect that fails at once; references dropped by several threads; tombstones, growth and wrap-around in the hash table;
unsigned arithmetic on buffer sizes; texts that are cut where their room ends; a bind that fails and closes what the
application may close again; datagrams that are lost, repeated and reordered; a client and a server that each learn late,
or never, that the other is gone.

## The modules

**TableOps, OrderedTable, LinkHash.** `TableOps` gives the table as its callers see it: the sequence of its keys, with
`Insert` and `Delete`. `LinkHash` is the real structure: slot numbers for pointers, `LH_EMPTY` and `LH_FREED`, the
probe loop as the first slot of a probe order, `next` and `prev`, growth at 0.66. The hash of each key is chosen at the
start, as addresses are. `OrderedTable` makes a state machine of `TableOps`; `LinkHash` implements it, so that `UvxServer`
may use sequences. Of the callers only what uvx does is modelled: the key inserted is absent, asserted in
`uvx__on_connection` and deleted just before in `uvx__on_read`.

**UvxServer.** One action per handler and call. `phase` is the part of `uv_run` the loop is in. A connection has a handle
(`none`, `open`, `closing`), memory, an age and a count; the same address may come back. Age stands for
`uv_now - last_comm_time`, counted to one past the timeout: a failed accept leaves `last_comm_time` 0 and has that largest
age. `Callback` is the application in a callback: it does nothing or shuts the server down. Where a shutdown in a callback
meets a loop over the table there is an action of its own (`HeartbeatShutdown`, `HeartbeatClosingShutdown`,
`IterConnsShutdown`). `fault` records the first broken contract, a freed table used or a second `uv_close`; what the
program does afterwards is undefined, so the model stops, which is why the server's runs switch the deadlock check off.
The application shuts a server down once, and calls nothing on a server it did not start.

**ConnRef.** `uvx_server_conn_ref` line by line, the addition as a read and a write, by threads that hold named references
and hand them over. It is what allows `UvxServer` to take the call as one step.

**UvxClient.** The socket's handle goes `none`, `connecting`, `connected`, `closing`, `closed` and round again; `idle` is a
handle that was initialised and whose connect was refused at once. `r` in a handler is what the application does in its
callback. `AppWaits` is an assumption on the application, that it calls nothing between a `uv_close` and the end of
`on_conn_close`; the runs that refute `NoDoubleClose` and the proofs of the other properties do without it. `Repeats` says
whether the heartbeat's interval is at least a millisecond. A client is connected once and shut down once.

**UvxSession.** Extends `UvxServer` with one `UvxClient` (an `INSTANCE` whose clashing variables are renamed) and TCP
between them: `end` is what the client's socket is connected to, `peer` what each connection of the server is connected
to, `backlog` the connections the kernel made and the server has not accepted, `sent` the client's data that was not
read yet, `reply` the connection with a write of `uvx_server_conn_send`. Either program may die at any step and be
started again, with the other told (`closed`) or not (`gone`), and a link may be lost without either end knowing
(`LinkLost`). A poll is taken to report everything that has arrived (`ServerPolled`, `ClientPolled`), which keeps one
strong fairness condition per timer instead of one per event. A dial may be refused by `uv_tcp_connect` at once, by
`uvx_client_connect` or by the redial of a heartbeat, which ignores the value: then the client is `idle` and never dials
again, as `client_gives_up` shows, and `ClientComesBack` makes that exception. Left to the parts' own runs: a disconnect by the
client's application, a heartbeat that does not repeat, a failed accept, the shutdown of a server that lives on; and one
reply is under way at a time.

**UvxUdp.** Per service the handle (`none`, `open`, `closing`, `closed`), whether it has a `socket`, whether it is
`receiving`, and whether the application was told that it `started`. A start may find no socket (`SocketsRunOut`); with an
ip it then closes the handle itself and returns 0, without one it returns 1 and hears nothing. A request is `queued`,
`done`, free again, or `leaked` when `uv_udp_send` fails. `net` is the set of all datagrams sent: any may arrive at any
time, any number of times, or never. `AppWaits` is the assumption that the application goes by the value of
`uvx_udp_start` and starts a service again only when the loop is done with it.

**UvxLog.** Composes two services of `UvxUdp`, the logger and the collector, with `Loge`: the application's buffer holds
serialized items, `uvx_log_send` builds its own of `LOGE_MAXBUF`. A disabled log makes an item of no bytes and sends it;
`uvx__on_udp_recv` drops it because `nread` is 0. The collector reads items as `log-server.c` does, header and offsets
first, with no look at the size. The application's buffers hold the header and the first three texts (`LogAssumption`), as
the 1024 bytes that `uvx.h:267` recommends do: in a smaller one `msg_len` may be 65535, and a reader that goes by it leaves
the datagram.

**Loge.** Texts are sequences of the bytes in `Byte`, which are any but the terminating zero, with one- and two-byte
characters; no text starts inside a character. `Serialized` is the item of a name and a call, `StringIn` what a reader finds
at an offset, and `ConstantsOK` what `LogeAssumption` says, which `UvxLog` says again of its own constants. The extra
block is the sequence of what was written, so the pointer `p` is a length. The buffer's sizes are scaled down with their
order kept: name < 255 (`TextLimit`) < 1024 - 28 (`MaxBuf - HeaderSize`).

**Automem, ByteQueue.** Sizes are unsigned and wrap at `Words`, which stands for 2^32. The block keeps its stale and unwritten bytes, so that a
move to the wrong place shows. `ByteQueue` is what the header promises, and `Automem` implements it.

libuv is modelled from how the code uses it, and marked external in the map: handles, the phases of the loop, the clock,
`uv_close`'s assertion, the cancelling of writes, mutexes.

## The runs

| run | instance | shows |
|---|---|---|
| `server` | three addresses, timeout one tick, one reference each | counts exact; table exact and in order of silence; heartbeat exact; no second close; silent connections go away |
| `server_freed_table` | two addresses | **violated**: a shutdown in `on_conn_ok` frees the table, and the next read of that connection deletes it from there |
| `conn_ref` | three threads, three references | no lost update, memory freed only when nobody holds the connection or is inside the call, last drop frees |
| `linkhash` | four keys, hashes 0 and 7, sizes 1 to 8 | links, counts and probe chains; inserts end; implements the ordered table |
| `client` | three buffers | fields true to the socket, no leak, no second close or initialisation, redials after a close, not after shutdown |
| `client_double_close` | `AppWaits` off | **violated**: disconnect while closing closes again |
| `client_gives_up` | connect may fail at once | **violated**: such a client never dials again |
| `session` | two addresses at the server, a backlog of one, one buffer | whatever died or was cut, a running client comes back, unless a dial was refused at once, and the server gets rid of connections nobody is behind; no write outlives its connection; neither side breaks a contract with libuv |
| `udp_log` | two requests; a text that is cut, binary data that fits and that does not | no contract of libuv broken; what travels is what was given; the collector reads only whole items of this logger; requests end |
| `loge` | texts of up to 3 characters, paths of 5 and some of 7, four buffer sizes | texts and binary data read back, cut between characters or not at all; in which buffers the size stays within the buffer; two directories |
| `loge_file_is_message` | same, three paths | **violated**: with long tags a reader finds the message as the file |
| `automem` | four-bit sizes, contents of up to 8 | stays in its block, implements the byte queue |

Bounds, and why they are enough. Server: the timeout scan and the list order are about pairs of neighbours, a third
connection lets one come between; ages above the timeout are alike; a reference is taken to outlive the close callback,
for which one is enough. Hash table: four keys on two chains collide, wrap around, leave tombstones before and behind a
key and grow the table three times. Threads: two that race and one that holds. Loge: each text can be empty, fit, fit
exactly and be cut inside or between characters. Session: two addresses at the
server let a connection of old stand beside the new one, or fill the table so that the next waits in the backlog, which
then is full; `GhostsGoAway` is checked of one of them, as `Accept` takes either and no action tells them apart. UDP: one request under way while another is made; the text of the log's call is cut inside a
character at the end of `MaxBuf`. Automem: `MaxContent` is half the range of a size, where doubling cannot
wrap.

Fairness. `uv_run` keeps iterating (weak fairness of the ends of its phases); it runs each close callback it owes;
the clock moves while it does; a repeating timer that is due again and again fires again and again (strong fairness of the
heartbeat, since the timers phase comes and goes); a connect that was started is reported. In `ConnRef` threads go on
with their calls and a mutex is granted in the end. In `udp_log` libuv sends what is queued, calls back, and completes each
close; nothing arrives for certain. In `session` besides: a connect that can be made again and again is made in the end,
sent data goes on its way, data nobody acknowledges ends the connection at its sender, and the client's application
sends again and again, as `src/test/client.c` does from its heartbeat: the library itself has no sign of life to send, so
a client that never sends is not promised to notice a lost link. Elsewhere nothing is assumed of the application or of the
peers.

Where code and documentation part, and no run is spent on it:

- `uvx_server_shutdown` returns 0, which `uvx.h:96` calls failure.
- `auto_connect` (`uvx.h:127`) is read nowhere: the client always redials.
- `uvx_client_send` between `uv_close` and its callback leaks the data (`uvx.c:85`); the `client` run excludes it by
  `AppWaits`, without which `NothingLeaks` is violated.
- `lh_table_insert` of a key that is present can make a second entry when a tombstone comes first. uvx never does that.
- `automem_attach` asks for too little room; with `AttachesWhatFits` off, `NeverOverruns` is violated. uvx never calls it.
- `uvx_client_shutdown` while connecting leaves the connection, which keeps `uv_run` from returning; the README of the
  library (`README.md:46-52`) has the loop run until it returns. `Client!CallDisconnect` shows it.
- `uvx_server_conn_send` on a connection that is closing leaks its request and data like the client's (`uvx.c:85`).
- `uvx_udp_start` ignores the value of `uv_udp_recv_start` (`uvx_udp.c:69`): without an ip it returns 1 and may hear nothing.
- `uvx_udp_send_to_addr` does not free its request when `uv_udp_send` fails (`uvx_udp.c:82`): `leaked` in `UvxUdp`.
- The size of an item may exceed a buffer of less than 283 bytes (`loge.c:138`), although `uvx.h:267-269` allows smaller ones
  and ensures it does not. `SizeWithinBuffer` says for every buffer when: exactly when name, tags and file do not end within
  it. A smaller buffer is safe for texts that fit it.

Each property of a passing run has a mutant in `PROJECT.json`: a definition in the section on slips of the
module it changes (for `session` often `UvxServer` or `UvxClient`) that breaks the code the way an oversight would, and breaks the property.

## The proofs

For every value of the constants, from the assumptions named in the modules and those said here.

- `TableOpsTheorems`: lemmas about `RemoveAt`, `Delete` and `Append` on sequences without duplicates: what remains, that
  order is kept, that nothing is listed twice. They are stated with indices, since that is what the order property needs.
  And `LeastNumber`, that a non-empty set of numbers has a least one, which the others use where they need induction.
- `UvxSessionProofs`, the server: `TypeOK`, `RefcountExact`, `TableMatchesHandles`, `SilenceOrder`, `NoDoubleClose` and
  `HeartbeatClosesExactlyTheSilent`. The inductive invariant joins them: the order of silence alone is not inductive, since
  `OnConnection` appends a connection and needs to know that its address is in no entry (`TableMatchesHandles`), which needs
  that memory and count are exact (`RefcountExact`). That the scan closes exactly the silent follows from the order: an
  entry behind a fresh one is fresh or closing, and a closing one is gone before the next timers phase, which is a
  conjunct of the invariant as well.
- `UvxClientProofs`: `TypeOK`, `FieldsTrackSocket`, `NeverReinitsLiveHandle`, `WritesEndWithConnection` and
  `NoRedialAfterShutdown` for every application; `NoDoubleClose` and `NothingLeaks` for one that waits (`AppWaits`).
- `UvxSessionProofs`, the session: `SessionTypeOK`, which says that neither program breaks a contract with libuv, and
  `RepliesEndWithConnection`, for any number of connections, any backlog, and however often either program dies. It
  composes the two parts before it: a step of the session is a step of `UvxServer`, a step of `UvxClient`, a death or
  the loss of the link (`ServerMoves`, `ClientMoves`), so that each part keeps the invariant it was proved to have alone.
  New in the invariant is `EndsAgree`: at most one connection of the server is the client's, there is one exactly while
  the client's socket is `up`, and what waits in the backlog waits for a listener. It is a theorem of its own, because the
  session's other results mean nothing if the model of TCP lets the two ends contradict each other.
- `ConnRefProofs`: `TypeOK`, `CountIsReferencesHeld` and `FreedAlone` for any number of threads and any finite set of
  references. The invariant says more than the properties in two places: each call is about a reference no other call is
  about, and the caller holds the one it drops or another than the one it takes. Then a thread that waits for the lock
  still holds something, so that who finds the count at zero finds nobody waiting.
- `LinkHashProofs`: `TypeOK`, `ListMatchesSlots`, `LookupFindsListed`, `InsertTerminates` and that `LinkHash` implements
  `OrderedTable`, for any set of keys, any hashes, any size at the start and any growth. The invariant (`LInv`)
  says that the list is a chain through exactly the occupied slots with links that agree (`Chain`), that no key is in two
  slots (`KeysApart`), and that each lies in a slot its probe order reaches with no empty slot before it (`Reachable`). An
  insertion takes the first slot of the probe order that is free, so it passes no empty slot; a deletion
  leaves a tombstone, so it breaks no other key's chain. Growth inserts the listed keys, in order, into an empty table:
  `FillingNeverCrowds` shows that none of these insertions reaches 0.66 of the new size, so the resize in
  `lh_table_insert` does not nest, and the new list is the old one. That an insertion ends is a count: a table that is
  not crowded, or has just grown, has more slots than its list has entries, and each slot without a key is empty or a
  tombstone. Assumed: `LH_EMPTY` and `LH_FREED` are no keys.
- `AutomemProofs`: `ContentIsInBlock`, `NeverOverruns` and that `Automem` implements `ByteQueue`, for any range of a size.
  Assumed: the application attaches what fits (`AttachesWhatFits`), as discussed above, and in `AutomemAssumption` that
  contents are at most half the range of an unsigned int, and content plus a limit within it: there the doubling and
  the sum in `automem_erase_ex` do not wrap. `GrowthIsEnough`, without the first of these: the doubling loop ends, with room for what follows.
- `LogeProofs`: `TextsReadBack`, `TextsThatFitAreWhole`, `SizeWithinBuffer` and `KeepsTwoDirectories`, for any bytes,
  names, texts, paths, buffers and any sizes in the order of the code's. `ItemIsOfCall`, the inductive invariant, is short: the item
  is what the last call makes of a name that fits. The work is in the lemmas. The extra block is written in four pieces, and
  each is the one before with a text and its zero behind it (`Terminated`), so a block only grows (`Grown`), and a text that
  is at an offset (`Holds`) stays there and is what a reader finds (`HoldsReads`). `CutProperties`: the cut that steps back from
  the middle of a character ends, keeps a start of the text and ends between characters. `TwoDirectoriesKept`: the loop of
  `shorten_path` is unrolled, being three rounds at most, and what it keeps is compared with the definition by counting slashes.
  `SizeWithinBuffer` has no condition on the buffer: the block before the message is bounded by its room and by the lengths of
  its texts (`FileBlockAtMost`), and once it is beyond the buffer the message is written whole behind it (`WrittenBeyond`).
  Two theorems beyond the runs' properties: `OffsetsAreValid`, that the four offsets are in order and within `TextLimit`, as
  the comment in `loge_item_bin` promises (`loge.c:158`), and that in a buffer of sufficient size the message ends the block;
  `FilesReadBack`, that a reader finds the shortened path or a start of it where name and tags leave a byte of room. The run
  `loge_file_is_message` shows what it finds where they do not.
- `UvxLogProofs`: `TypeOK` and `OnlyGivenDataTravels` for every application, by `RequestsCarryGiven` (a request in any state
  carries a datagram that was given), since what travels comes out of a request; `NoFault` for one that waits, by
  `StartedIsOpen` (what the application was told is started is open, so what it closes is not closed yet). They are
  proved of `UdpStep`, where any service may send any data, so that they hold of `UvxUdp` alone and of a logger with
  its collector: `LogImplementsUdp` is that step by step. `CollectorReadsItems` needs besides that the buffer and every datagram
  given are empty or an item of one of the logger's names and calls (`ItemsGiven`); with `OnlyGivenDataTravels` so is what
  arrives. That such an item reads back is `LogeProofs`' `ItemReadsBack`, used through an instance of that module whose
  assumption is proved from this one's (`ItemConstants`).

Three refinements are proved, `LinkHash` to `OrderedTable`, `Automem` to `ByteQueue`, and `UvxLog` to UDP services on which
any application makes its calls (`UdpSystem`): initial states map to initial states, and each step to an abstract one, or
to a stutter when it only fails or changes the block.

The library's induction theorems cannot be used here, since they take an operator as a parameter. Where a proof needs
induction over the entries of a table or the rounds of a loop, it takes the least counterexample instead
(`LeastNumber`). Repetition is a recursive function (`Filled`, `Doubled`); such a function is shown to exist, and then to
satisfy its equation, in the same way.

Every invariant and every action property of a passing run is proved. Model-checked only is liveness under fairness, which
is beyond the prover: `SilentConnectionsGoAway`, `LastDropFrees`, `RedialsAfterClose`, `ClientComesBack`, `GhostsGoAway` and
`RequestsEnd`.

## Not modelled, and why

- Address conversion in `uvx.c`, default configurations, log output: no state, no control worth a model.
- `uvx_send_mem`, deprecated, which sends like `uvx_send_to_stream` and is used by the test client only; `uvx_udp_set_broadcast`, which only hands a flag to libuv.
- `utils/arraylist.c`: vendored, not built, not used. `automem.c:173-302`: compiled only with a macro nothing defines.
- Tables of size 0 (`conn_count` 0), which divide by zero, are excluded by `LinkHashAssumption`.
- A listen that fails leaves its table and handles behind; the model keeps them, and a shutdown takes them away.
- The test programs, which hold no assertions.

## Plan

Done: the inventory; the server, the table, the client, reference counts, log items and the byte buffer; UDP and logs over
it; client and server composed; the proofs of every module that is modelled, which leave liveness to TLC.

Left, should the code change: a model of what the hazards without a property say (`PROJECT.json` has the reason by each),
above all of the size 0 in `lh_table_new`, and of a session whose server is shut down while its program lives on.
