# A verification development of net-http

net-http (`src/src/*.rs`, 13 files, 2800 lines of Rust) is a nonblocking HTTP and
WebSocket library: a server for both protocols that runs in one thread's `tick()`
loop, a WebSocket client that reconnects by itself, a blocking HTTP client with a
pool of connections, and a pipelined nonblocking HTTP client. It has no tests. Its
documentation is a README of 14 lines and the comments in the code.

This directory holds TLA+ models of it, the configurations that check them with
TLC, and proofs that TLAPS checks. File names without a directory are files here;
those ending in `.rs` are under `src/src/`.

## 1. The system

| Component | State | Operations | What makes it hard |
|---|---|---|---|
| `HttpServer`, `HttpServerConns` (`http_server.rs`), `HttpConnServer` (`http_conn.rs`) | map of connections by id, id counter; per connection the count of requests in flight, a closed flag, the write buffer | `tick` = `tick_accept`, `tick_read`, `on_tick`; `write_to`, `close_conn`, `remove_conn` | the application holds ids across ticks; clients hang up at any point; the kernel takes part of a write; closing waits for answers |
| `HttpWsServer`, `WsHandler`, `WsServerConns` (`ws_server.rs`) | pending handshakes, map of WebSocket connections | `on_new_http_request`, `transform_conns`, `tick_read`, `remove`, writes | a connection moves between two maps under one id; three parties remove connections |
| `WsStream`, client side (`ws_stream.rs`) | handshake state, connection epoch, read buffer, continuation buffer, write buffer | `connect`, `reconnect`, `disconnect`, `shutdown`, `read`, `write` | state that belongs to one connection and survives it; `shutdown` from another thread |
| `WsStreamServer` (`ws_stream.rs`) | the same | `accept`, `from_http_conn`, `read`, `write` | a handshake that spans calls |
| `HttpClient` (`http_client.rs`), `ConnPool` (`conn_pool.rs`), `HttpConnBlockingClient` (`http_conn.rs`) | list of idle connections with times, guards | `send` | several threads, expiry, timeouts, retry on a reused connection |
| `HttpConnClient`, `HttpConnClientPool` (`http_conn.rs`) | ids in flight by connection | `write_request`, `read_response` | responses are matched to ids by position; reconnection forgets ids |
| readers of requests and responses (`http_types.rs`) | buffer, reader state | `read_from`, `read_chunks` | the result must not depend on how bytes arrive |
| builders, `Uri` (`http_types.rs`), `lib.rs` | none | formatting | |

How they interact: the host calls `HttpServer::tick` (or `HttpWsServer::tick`, which
is that of an `HttpServer` whose handler is `WsHandler`). The server calls the
handler back for every request (`on_new_http_request`, one connection borrowed) and
once per tick (`on_tick`, the whole map borrowed). `WsHandler` sits in between: it
keeps handshakes, transforms their connections into `WsStream`s in its own
`on_tick`, and calls the application's handler with both maps. `WsStream` on the
client side opens its connection with an `HttpConnClient` and takes its socket and
buffer over. `HttpClient::send` borrows an `HttpConnBlockingClient` from a `ConnPool`
through a guard whose drop gives it back.

What each component owes its users:

* the server: every client gets the responses to its own requests, in order, each
  once; every request of a living connection is taken; closing is graceful and ends;
* the WebSocket server: a connection is in exactly one map, the application is told
  of each exactly once, a handshake is answered in its turn, and shutdown ends every
  WebSocket connection;
* the stream: frames, messages and writes of a connection are those of that
  connection, in order and whole; a lost connection comes back; after a shutdown nothing
  more is read, written or opened, and every call reports it;
* the client: a connection serves one request at a time; a response belongs to its
  request and is complete; a request is not sent twice because its answer is late; a call
  with a timeout returns;
* the pipelined client: a response has the id of its request; no connection leaves the
  pool; what the caller waits for is answered or lost with its connection;
* the readers: the messages returned are those that were sent, however they arrive, and
  a call that returns nothing has left nothing behind; only what is too long or ill formed
  is refused.

Not all of this holds. Section 3 says what does, what does not, and what holds under a
premise only.

## 2. Modules

| Module | What it models |
|---|---|
| `HttpServer` | one action per step of a tick (accept one connection, visit one connection, end a phase) and one per operation of the application; the clients and the kernel act between any two steps |
| `Exchange` | what the server promises, without its workings: requests are taken and answered in order until the conversation ends. `HttpServer` and `WsServer` implement it |
| `WsServer` | extends `HttpServer`: its `WsNext` uses the actions of `HttpServer` where `HttpWsServer` runs the same code and refines `NewRequest` and `EndRead` where `WsHandler` intervenes |
| `WsStream` | the stream from either end: calls as sequences of steps, one frame per step; connecting at the client's end, accepting a handshake at the server's |
| `HttpClient` | the threads in `HttpClient::send`, one step per lock of the pool and per operation on a socket |
| `PipelinedClient` | `HttpConnClientPool` and its `HttpConnClient`s, one step per visit of a connection, read or write |
| `HttpReaders` | the readers of requests and of responses, one step per read from the socket and per iteration of `read_chunks` |
| `HttpServerProofs` | proofs about `HttpServer`: responses and requests in flight; that it closes gracefully and implements `Exchange` |
| `WsServerProofs`, `WsServerOrder` | proofs about `WsServer`: where sockets and handshakes are; the order of the responses; that it implements `Exchange` |
| `WsStreamProofs`, `HttpClientProofs`, `PipelinedClientProofs`, `HttpReadersProofs` | proofs about the modules they are named for |
| `SequenceFacts` | lemmas about cutting and joining queues that several proofs cite |
| `MCHttpServer`, `MCWsServer`, `MCWsStream`, `MCHttpClient`, `MCPipelinedClient`, `MCHttpReaders` | the instances for TLC, and the symmetry sets of the servers |

Correspondence, where it is not one to one:

* **`HttpServer`.** A client is one TCP connection. Its requests are the elements of
  `stream[c]`, `taken[c]` of which have been parsed; a response is the pair of client
  and number of the request it was written for. `inflight` is the length of
  `inflight_id`, of which the server side uses nothing else. `conns` is the
  `BTreeMap`, so `Visiting` picks the least id left in `todo`. `owed` is the
  application: it keeps each request and answers it once, in the order of the requests
  of a connection (HTTP/1.1 leaves it no choice), in any later `on_tick` or never, and
  does not notice when connections go. `Accepts(len)` is how much of the write buffer
  the kernel takes; with `SocketFull` it may be less than all. A failed `accept`,
  a parse error (`"bad"`), the end of the stream and failing writes are actions; so are both
  errors of `tick_accept`, that of the listener (`AcceptError`, which leaves the queue
  as it is) and that of the new socket (`AcceptFails`).
* **`Exchange`.** `state`, `asked`, `taken` and `replies` of a client are `peer` (its two
  ways to end taken together), the length of `stream`, `taken` and `outbox` of
  `HttpServer`. Ids, maps, buffers, phases and counts have no counterpart: the mapping
  forgets them. One flush can deliver several responses and take a request, which is
  `Serve(c, k, 1)`. To `WsServer` the same mapping applies: a handshake is a request like
  any other and a message one that is taken and never answered. `Dismiss` is the upgrade
  the application refuses at once, where the answer is written and the socket closed in
  the same step.
* **`WsServer`.** `pending` is `pending_conn_ids`, popped from the end. The answer to
  a handshake is a response like any other. `UpgradePanics` is the `unwrap` at
  `ws_stream.rs:386`. `known` is what the callbacks told the application.
  `alive` is the one `Alive` of `WsHandler`, cloned into every stream; `WsShutdown` may
  clear it between any two steps once the application has met a stream (`handed`), since
  an `Alive` can be passed to any thread. `doomed` remembers whether the pass of
  `tick_read` that runs began after that. A `"badframe"` is one that ends the stream
  when it is read: a close, or one the parser refuses.
* **`WsStream`.** A call is `Begin`, then `auto_reconnect`/`connect` (`pc = "enter"`,
  `"connect"`), then the operation (`"run"`). `Disconnected` is every path that
  ends in `disconnect()`: they leave the same state. Frames carry the epoch of their
  connection and the number of their message and part, to compare; the code has no
  such thing. `epoch` and the buffers survive `Forget` exactly as in the code. `role`
  says which end is modelled; it never changes. The server's end starts in `accept()`
  with the handshake pending, and `"gone"` is a call after which there is no stream: an
  `accept()` that failed, the `unwrap` at `ws_stream.rs:386`, or, at the client's end, the
  panic at `http_types.rs:450` (`HandshakePanics`): the 101 has no length, so what comes in
  its segment behind it is tried as the first chunk of a body. Whether frames have a CRLF
  where that matters depends on their payload, so the model lets both happen. A `"deaf"`
  link is that of a server's stream whose remote side will never get the whole answer to
  its handshake, because `into_raw` dropped the rest of it (`ws_stream.rs:391`). A close
  with a status (`"close"`) and a frame the parser refuses (`"bad"`) disconnect; after a
  close without one (`"empty close"`) the parser may refuse to read and to write
  (`Closing`), which is up to `embedded_websocket`. A number of frames
  stands for a message; how `frame_size` divides a payload is not modelled.
* **`HttpClient`.** Times are ages and remaining times, so that a finite model lets
  time pass for ever. A step holds the mutex of the pool. `lost` (what the last try was
  lost to, a closed connection or a silent server) and `result` record what the properties
  need. `MaxReads` is the 100000 of `http_conn.rs:132`. The call waits in `pc = "connect"`
  and `pc = "write"` for `TcpStream::connect` and `write_all`, which have no timeout, and
  `ReadPart` is a read of a part of a body, after which `fill_all_with` reads on with the
  whole timeout again (`http_types.rs:510`). The head of a response is taken to come in
  fewer than `MaxReads` reads.
* **`PipelinedClient`.** `Slot` names the places of the `Vec` of connections, `clients`
  is the `Vec` in its current order; `Sorted` allows every order `sort_unstable` may
  produce. The response to a request is named like the request, which only the server
  and the properties see. `Window` is what the kernel takes before the server reads,
  the rest stays in `wbuf`. `Ping` is `usize::MAX`. `drains` is a habit of the caller:
  it reads until there is nothing left before it writes again. After ten idle seconds
  the empty read may take any connection for one that has ended, so `SeemsEnded` does.
* **`HttpReaders`.** A stream is a sequence of units (pieces of heads and bodies, line ends,
  digits of lengths), read in segments of any length; a behaviour reads one stream. With it
  goes an account of what was sent in it: where each message and each chunk begins and ends,
  and its length. `IsStream` says that units and account agree, and `ReaderAssumption` that
  the streams a behaviour may read are of this kind, of any length and number of messages.
  The readers never look at the account: they find heads, lengths and line ends in what is
  buffered, as the code does, and the properties compare what they return with it. A line
  end is one unit, and so is the blank line of a head, because the code looks for all its
  bytes in what is buffered, or waits for them. `HeaderCap` is 8096, `MaxBody` the
  `max_body` and `MaxDigits` the 16 of the code. Units carry the number of their message so
  that `MessagesWhole` can say what is whole. `read_chunks` runs one iteration of its loop
  per step; `"chunks"` and `"more"` are its two callers. The line with the length of a chunk
  may have any number of digits, none (a length of 0, as in the code), or a byte that is
  none, a `"text"`; that a length can be too big to allocate, or `length + 2` to represent,
  is not modelled. In a behaviour with `clean` no segment ends between a response's head and
  the length of its first chunk, nor (it would make `buf.len() < 16` fail) between a length
  of 16 digits and its line end, and nothing comes behind a response without a length before
  that is returned; what happens in others is in section 3. The streams of a server are
  always cut in any way.

Every module has operators marked *Variant*: the operator that follows with one
mistake in it. They are no part of any specification; substituting one for its
original must make the property it is listed with in `PROJECT.json` fail, which shows
that the property would notice.

## 3. What the runs show

Passing runs, with distinct states:

| Run | Instance | Shows |
|---|---|---|
| `server` (298 k) | 2 clients, 2 requests each, one kind malformed, failing accepts, partial writes, fair ticks | `ImplementsExchange`: the server refines `Exchange`; `GracefulClose`: closing waits for everything owed, unless the kernel refuses it; `ResponsesInOrder`, `SolicitedOnly`, `TypeOK`, and `ServerInv`, the inductive invariant; `EveryRequestTaken`; `AnswersEveryone`: the server refines the fairness of `Exchange` too; `ClosingEnds` |
| `ws_server` (889 k) | 2 clients: requests, handshakes, malformed handshakes, messages, frames that end a stream; partial writes; `shutdown()` of a stream at any time | `OneHome`, `PendingAlive`, `AppKnowsConns`, `ShutdownForAll`; `ImplementsExchange`: this server refines `Exchange` too; and `OrderInv`, the inductive invariant, of which `ResponsesInOrder` is a part |
| `ws_live` (286 k) | no malformed handshakes, whole writes, fair ticks | `EveryMessageTaken`, `WsClosingEnds` |
| `stream` (408 k) | either end, `auto_reconnect`, two connections after each other, two frames each way, refused handshakes, frames that do not parse, empty writes | `FramesInOrder`, `MessagesInOrder`, `ShutdownSilences`, `Reconnects`, and `StreamInv`, the inductive invariant |
| `stream_single` (3.0 M) | either end, one connection, keep-alive, partial writes (also of the answer to the handshake), control frames between fragments, closes | `MessageIntegrity`, `WritesInOrder`, `DialsOnRequest` |
| `client` (411 k) | 2 threads, 2 connections, pool expiry 3, timeout 1, sized and chunked responses | `Exclusive`, `OwnResponse`, `NoResendOnTimeout`, `CallsReturn`, and `ClientInv`, the inductive invariant |
| `pipelined` (20 k) | 2 connections, 2 ids and the ping, one request at a time through the kernel, ends and resets, reconnections that fail | `OwnId`, `InStep`, `PoolWhole`, `AnsweredOrLost`, and `PoolInv`, the inductive invariant |
| `readers` (184 k) | every stream of up to 3 requests or responses of 9 and 13 forms, ill-formed and over-long chunk lengths in the last, every cut into segments | `MessagesWhole`, `NothingHeldBack`, `OnlyBadRefused`, and `ReaderInv`, the inductive invariant |

Runs that end in a counterexample, each a disagreement between the code and what its
comments or its assertions say (`PROJECT.json`, "findings"):

| Run | Property | What happens |
|---|---|---|
| `ws_panic` | `NoPanic` | a client that hangs up after its handshake was read makes `tick()` panic |
| `stream_fragments` | `MessageIntegrity` | fragments of a lost connection start the first message of the next |
| `stream_shutdown` | `ShutdownRefuses` | a server's stream whose handshake is pending never looks at `alive`: a call that begins after `shutdown()` returns "would block" or goes on with the handshake, where the comment says "it will return ServerDisconnected to everywhere" (`ws_stream.rs:537`) |
| `pipelined_alive` | `LiveKept` | the check whether an idle connection is alive replaces a live one, with the responses that wait on it |

The same models show more behaviour that a user of the library would not expect. No
run is kept for it; each follows from the change of a configuration that is given:

* a flush that would block is taken for an error, and the connection of a slow reader
  is dropped with its responses (`http_conn.rs:252`, `http_server.rs:187`):
  `GracefulClose` without its second disjunct in `MCHttpServer.cfg`;
* a connection with a malformed handshake is asked to close but not answered, so its
  request stays in flight and it never ends (`ws_server.rs:118`, `http_conn.rs:254`):
  `WsClosingEnds` in `MCWsServer_live.cfg` with `"badupgrade"` in `Kinds`;
* for the same reason a connection that was asked to close stays in the map for ever if
  the write of its last answer fails (`http_conn.rs:277`): `Closing(c) ~> ~Closing(c)`
  in `MCHttpServer.cfg`;
* a handshake pipelined behind a request is answered first (`ws_server.rs:137`):
  `ImplementsExchange` in `MCWsServer.cfg` with `Pipelines = TRUE`;
* frames left over from a lost connection are sent on the next, because `connect`
  replaces `read_buffer` and not `wbuf` (`ws_stream.rs:194`): `WritesInOrder` in
  `MCWsStream.cfg` with `SocketFull = TRUE`;
* `write(&[])` returns Ok after `shutdown()` (`ws_stream.rs:828`), which breaks the comment at
  `ws_stream.rs:537` for a client as well: `ShutdownRefuses` in `MCWsStream.cfg`, whose
  `Sizes` have 0, with `Roles = {"client"}`;
* what the kernel does not take of the answer to a handshake is dropped with the buffer of
  the HTTP connection (`ws_stream.rs:391`), and the client waits for ever for an answer:
  in `MCWsServer.cfg`, that the handshake of every connection in `ws` whose client is there
  is answered in `outbox`; in `MCWsStream_single.cfg`, `link # "deaf"`;
* frames that come in one segment with the 101 are tried as the first chunk of a body, and
  if they contain a CRLF the client panics (`http_types.rs:425-450`): `call # "gone"` in
  `MCWsStream.cfg` with `Roles = {"client"}`;
* pings without a payload, and close frames, get no answer, because `write_msg` writes
  no frame for an empty payload (`ws_stream.rs:828`): in `WsStream`, that `written` has
  as many pongs as `parsed` has pings, with `"empty ping"` in `Remote`;
* a chunked response whose head comes without its first chunk is returned without a
  body, and its chunks are taken for the next response (`http_types.rs:427`); and a
  response without a length and without a body, with the next one right behind it in
  the buffer, makes the client panic (`http_types.rs:450`), as does a segment that ends
  behind a length of 16 digits (`http_types.rs:660`): `MessagesWhole` and
  `OnlyBadRefused` in `MCHttpReaders.cfg` without their premise `clean`; and
  `result[t].whole` for every `t` with `pc[t] = "reuse"` in `MCHttpClient.cfg`;
* a chunk whose length has a byte that is no digit, as it has with a chunk extension, or
  more than 16 digits makes the client panic in clean segments as well (`http_types.rs:450`,
  `505`): `outcome # "panic"` in `MCHttpReaders.cfg`;
* a read that timed out starts again with the same timeout, after the deadline of the
  call (`http_conn.rs:132`, `http_client.rs:53`), and so does every read of a body that
  comes in parts (`http_types.rs:510`): `pc[t] = "read"` with `left[t] = 0`
  and a `wait[t]` that is not 0 in `MCHttpClient.cfg`;
* a call with a timeout waits for ever in a connect or a write that blocks, which have none
  (`http_conn.rs:112`, `130`), or while a server sends a body bit by bit: `CallsReturn`
  without its premise;
* a request on a reused connection that the server closes is sent again, whether or not the
  server had acted on it (`http_client.rs:56`), so it may be executed twice: in
  `MCHttpClient.cfg`, `pc[t] \in {"write", "read"} => lost[t] = "none"`;
* responses that have arrived are lost when the server closes behind them, since the
  client reads, and finds the end, before it looks into its buffer
  (`http_types.rs:387-395`): `NothingHeldBack` in `MCHttpReaders.cfg` for the client's
  `"EOF"`;
* `read_response` reads nothing from a connection whose flush would block
  (`http_conn.rs:173`), so a client and a server that both wait for the other to read
  wait for ever: `AnsweredOrLost` in `MCPipelinedClient.cfg` with `Slot = {s1}` and
  `Backlog = 1`;
* a caller that writes after every response can starve the connections at the end of
  the pool: `AnsweredOrLost` without its premise `drains`;
* the ids in flight on a connection that is replaced are forgotten, and the caller is
  not told which (`http_conn.rs:353`, `389`): `AnsweredOrLost` counts them as lost.

### Bounds, and why they are enough

* Two clients: the properties of the server relate a connection to itself or to one
  other. Two requests each, so that one is in flight or buffered while the next comes.
  Ids grow with the connections accepted, so each client uses one.
* The theorems of section 4 hold for every value of the constants, so they do away
  with all these bounds for the properties they state. There the runs say something
  else: that the models can do what the properties are about (every action is taken,
  and each inductive invariant is refuted by a mistake in the code it is about), and
  that the properties hold together with the liveness next to them. The bounds matter
  for liveness.
* `SocketFull`: whether the kernel may take part of a write. `ws_live` sets it to `FALSE`,
  where handshakes and messages make the state space large: with it a flush that would block
  ends connections, and answers to handshakes are lost (both above), which would hide some
  of what comes behind. `server` has it, also for liveness: it allows parts and does not ask
  for them. `stream` leaves it to `stream_single`, because what is left in `wbuf` is sent on
  the next connection, as said above.
* `Pipelines = FALSE`: clients wait for their answers before they ask for an upgrade, as
  browsers do; what happens otherwise is listed above.
* `MaxEpoch = 3` gives two connections (`epoch` starts at 1), so that what survives
  one can meet the next; two or three frames are a fragmented message and one more
  frame.
* `Shutdowns` is `FALSE` in `ws_live`: after a shutdown no message is taken, and nothing
  is left to say of liveness.
* `pipelined`: two connections so that one can be busy, closed or slow while the other
  answers, two ids and the ping so that two requests share a connection. A third id
  (289 k states) shows nothing else. `Window = 1` leaves the second request in the write
  buffer; `Backlog = 3` lets the server answer everything before the client reads.
* `readers`: three messages, so that one has neighbours on both sides; heads
  below, at and above the length of the header buffer (5 units), requests below, at and
  above `MaxBody` (4), bodies that are longer than what the buffer has left, and chunk
  lengths of one digit and of `MaxDigits` (2), with a leading zero, none, one digit too many
  or a byte that is none.
* Two threads with one request each share what the pool holds; `IdleTime = 3`, `Timeout =
  1`: a connection can be returned, reused, time out and expire in any order. `MaxReads = 2`
  reaches both ways out of the read loop.

### Fairness

* The host calls `tick()` in a loop, and a tick is a loop without waits: it goes on for ever
  (`[]<><<Tick>>_vars` of `HttpServer`, `WF(WsTick)` of `WsServer`, where a panic ends it). A
  listener whose `accept` fails again and again would keep a client in the queue for ever, so
  `SF(AcceptConn \/ AcceptFails)` says that it does not. Nothing is assumed of clients.
* `SF(Reply)`, only for closing and therefore the premise of `ClosingEnds`: the
  application answers what it took. Strong, because `Reply` is enabled in the
  application's part of a tick only.
* `WsStream`: the application goes on reading (`WF(CallRead)`) and its calls run on
  (`WF(Step)`). Strong fairness of the four steps of a successful handshake says that
  the network and the remote side let one succeed now and then; without it there is
  no liveness to speak of.
* `PipelinedClient`: calls run to their end and the caller goes on reading, with strong
  fairness since it also writes; the server answers what it has (`WF(Respond)`). Strong
  fairness of `ReplaceClient` and `WriteRequest` says that of the attempts to connect,
  and of those to write to a new connection, one succeeds at last: the loops in
  `http_conn.rs:349` and `372` have no bound of their own, and without it they go on for
  ever.
* `HttpClient`: threads run where they do not wait for the system (`WF(Running)`), and time
  passes. A connect, a write and the reads of a body have no timeout that counts, so what
  `CallsReturn` needs of the system is its premise: that a connect and a write end, well or
  badly (`WF(Connecting)`, `WF(Writing)`), and that no body comes in parts for ever
  (`<>[][~ReadPart]`). A server may be silent for ever, or close every connection.

`AnswersEveryone` has `SF(Reply)` as its premise like `ClosingEnds`.

`CHECK_DEADLOCK FALSE` is set for `WsServer`, where nothing runs after the panic, and
for `HttpReaders`, where a behaviour ends with its stream or its first error.

## 4. What is proved

TLAPS checks the theorems below for any values of the constants that satisfy the assumptions
next to their declarations (`ServerAssumption`, `WsAssumption`, `StreamAssumption`,
`ClientAssumption`, `PoolAssumption`: which constants are numbers or Booleans, which values
are special; `ReaderAssumption`: what a stream is). What a theorem needs beyond that is in
the table. Each of the proofs has one lemma for every action, or for every group of actions
that do the same to the invariant, and ends in a lemma for the initial states, one for the
next-state relation, and the theorems. TLC checks each inductive invariant too, as an
invariant of the run of its module.

### `HttpServer`

| Theorem | Statement |
|---|---|
| `Invariance`, `ServerInvariance` | `Spec => []IInv`, `Spec => []ServerInv`: the inductive invariants |
| `TypesHold` | `Spec => []TypeOK` |
| `InOrder` | `Spec => []ResponsesInOrder` |
| `Solicited` | `Spec => []SolicitedOnly` |
| `ClosingWaits` | `Spec => GracefulClose` |
| `Implementation` | `Spec => ImplementsExchange`: the server implements `Exchange` |

`ResponsesInOrder` is not inductive: it says nothing about where the
next response comes from. `IInv` follows a response from the request to the client.
For a connection whose client is there, what the client has received, what is in the
write buffer, and what the application still owes are, in this order, the numbers
1, 2, ..., `taken[c]`: received and buffered responses are numbered without a gap, and
the owed requests are exactly the ones after them. `inflight` counts the owed ones. That
needs the ids to be used once (ids held by the application are below `conn_seq`, and
an owed request names the client its id was given to), and a client to have one
connection at most (it is in the listen queue or in the map, not both). When a
connection is removed its requests stay owed but reach nobody; when its client is gone
a failed write may leave a gap, but nothing more is delivered.

`ServerInv` adds what `Exchange` can see: a server takes no more requests than were sent,
and an id is on `remove_conn` only after its visit, where a connection that was asked to
close was idle or had its flush refused. Each step then maps to one of `Exchange` or to a
stutter: a visit or a reply to `Serve`, whatever part of the buffer the kernel takes;
the steps that close sockets to `End`; all others cannot be seen.

### `WsServer`

| Theorem | Statement |
|---|---|
| `WsInvariance`, `OrderInvariance` | `WsSpec => []WsInv`, `WsSpec => []OrderInv`: the inductive invariants |
| `SocketsAtHome` | `WsSpec => []OneHome` |
| `HandshakesWait` | `WsSpec => []PendingAlive` |
| `AppInformed` | `WsSpec => []AppKnowsConns` |
| `ShutdownEndsAll` | `WsSpec => ShutdownForAll`: a pass of `tick_read` that begins after a shutdown leaves no WebSocket connection |
| `AnswersInOrder` | `WsSpec => []ResponsesInOrder`, if clients ask for an upgrade when they have the answers to what they sent before (`~Pipelines`) |
| `WsImplementation` | `WsSpec => ImplementsExchange`, under the same premise |

`PendingAlive` holds because of when things happen: the ids in `pending_conn_ids` were read
in the `tick_read` of the same tick, a connection that was visited is not visited again, and
one that returned a request is not on `remove_conn`; so when `transform_conns` runs nothing
has come between. `WsInv` therefore says what each list holds in each phase, that the
connection of a handshake is in neither `todo` nor `remove_conn`, and that the handshake is
the last request taken on it. `ShutdownForAll` needs that in a pass that began after a
shutdown every WebSocket connection is still to be visited or already listed for removal,
for nothing in the pass makes one usable again; of a pass that a shutdown meets half way it
cannot be said, and is not. `OrderInv` carries the numbers of `IInv` over, with one
exception: the last request taken on a connection need not be owed by the application, if it
waits for `transform_conns` or was refused; `TakenWasSent` beside them is the bound
`Exchange` puts on what is taken. A client that does not pipeline has the answers to all
requests before its handshake, so the buffer in front of the 101 response is empty, and when
the connection moves nothing is left that could still be owed. `WsImplementation` maps the
steps as `Implementation` does; the lemmas `Seen...` of `HttpServerProofs` speak of any step
of which a client sees the same, so both proofs cite them. Without their premise
`AnswersInOrder` and `WsImplementation` are false: pipelined handshakes overtake the answers
before them (section 3).

### `WsStream`

| Theorem | Statement |
|---|---|
| `StreamInvariance` | `Spec => []StreamInv`, the inductive invariant |
| `FramesComeInOrder` | `Spec => []FramesInOrder` |
| `MessagesComeInOrder` | `Spec => []MessagesInOrder` |
| `MessagesComeWhole` | `Spec => [](First => MessageIntegrity)` |
| `WritesGoInOrder` | `Spec => [](First \/ ~SocketFull => WritesInOrder)` |
| `ShutdownIsSilent` | `Spec => ShutdownSilences` |
| `DialsWhenAsked` | `Spec => DialsOnRequest` |

`First` says that the stream is on its first connection or has lost it; it is always so
of a server's end. The properties speak of one connection, but the buffers outlive it:
`connect` replaces `read_buffer`, while `continuation_buffer` and `wbuf` are kept. So
`StreamInv` says to which connection the content of each buffer belongs, and claims it
of those two only while `First` holds. That is all that can be claimed: the run
`stream_fragments` shows a client on its second connection whose message starts with
fragments from the first, and section 3 how the rest of a frame is sent on the next.
What numbers the messages is how many frames before a frame end one (`Lasts`), and its
place within the message how many have come since the last of those (`Fragments`); the
lemma `CountNext` says what one more frame does to both. `FramesInOrder` is about a
connection whose handshake is done; the panic that frames behind the 101 may cause is a step
after which there is none. `ShutdownIsSilent` needs only that a call which began after the
shutdown finds `alive` false in every step, wherever it was; what such a call returns is
another matter (`stream_shutdown`, section 3).

### `HttpClient`

| Theorem | Statement |
|---|---|
| `Invariance` | `Spec => []ClientInv`, the inductive invariant |
| `NoSharing` | `Spec => []Exclusive` |
| `ResponseOwned` | `Spec => []OwnResponse` |
| `SlowNotResent` | `Spec => []NoResendOnTimeout` |

`OwnResponse` depends on what is under way on every connection, also on those in the pool.
`ClientInv` says that a connection is quiet (no request on its way to the server, no
response back) unless a call is reading from it, and that it then carries the request of
that call or its response and nothing else. Dropping the connection on every error path is
what keeps it so: a guard that returned a connection after a timeout would leave a response
behind. `NoResendOnTimeout` is a matter of time: a call with a timeout whose reads were all
in vain has nothing left of it, and one without waits as long as the server is there. So
`ClientInv` says that while a call reads, no less is left of the read's timeout than of the
deadline: when the one has run out, so has the other. The chunks of a body count as no
response, since they cannot be taken for one.

### `PipelinedClient`

| Theorem | Statement |
|---|---|
| `Invariance` | `Spec => []PoolInv`, the inductive invariant |
| `ResponseForId` | `Spec => []OwnId` |
| `CountKept` | `Spec => []InStep` |
| `PoolKept` | `Spec => []PoolWhole` |

Nothing in a response names its request; the client gives it the id at the head of
`inflight_id`. `PoolInv` says that on a live connection `inflight_id` is exactly
everything on the way (parsed bytes, what the server has answered, what it holds, what
waits in the write buffer, joined in this order), and on a connection that has ended at
least begins with what can still be read from it. Pings are ids like others. That an id
is in flight once, which the caller sees to, and that the pool holds every connection
once but for the one `write_request` holds, are parts of it.

### `HttpReaders`

| Theorem | Statement |
|---|---|
| `ReaderInvariance` | `Spec => []ReaderInv`, the inductive invariant |
| `ReaderTypes` | `Spec => []TypeOK` |
| `ReadersReturnMessages` | `Spec => []MessagesWhole` |
| `ReadersHoldNothingBack` | `Spec => []NothingHeldBack` |
| `ReadersRefuseBad` | `Spec => []OnlyBadRefused` |

They hold for any streams, segments and limits, so also for lengths no instance of TLC could
have. `MessagesWhole` says nothing of what is buffered, and the next message comes from
there. `ReaderInv` says where in the stream everything comes from that a reader keeps. What
was read and is no more in `header_buffer` ends at `Base`, and the buffer is the stream from
there on. In the empty state `Base` is where the next message begins; a request that outgrew
the buffer is the stream from its beginning, a response's body from its own; and in a
chunked body the invariant names the chunk: what was joined before is the body up to it, its
buffer is the part of its data behind `Base`, and its room for the line end is there or has
been cut off. The lemmas below it say what the code can find in such a buffer: that the
first blank line is the end of the head of the message that is due (`HeadFound`), though
chunks end in two line ends as well; that the first line end ends the length of a chunk, of
which `parse_hex_uint` makes the size that was sent, or which it refuses (`BadLine`,
`HeaderRefused`); and that a message which is wholly there has its head there too, so a call
that finds none holds nothing back. Taking the head or a body then moves `Base` to the
beginning of what follows. Streams are given by where their messages lie and not by a
function that encodes them, because the prover has no induction over data; every message is
found from the account of its place instead.

The premise `clean` is needed: section 3 says what happens to a client without it. A
server needs none.

### Only model-checked

All liveness: `EveryRequestTaken`, `ClosingEnds`, `AnswersEveryone`,
`EveryMessageTaken`, `WsClosingEnds`, `Reconnects`, `CallsReturn`,
`AnsweredOrLost`. The prover has neither fairness nor `ENABLED`. For the same reason
`Implementation` and `WsImplementation` say that the steps of the servers are steps of
`Exchange`; that the fairness of `HttpServer` implies that of `Exchange` is the run
`server`. Every safety property of a passing run is stated by a theorem, under the premises
given above.

## 5. What is not modelled

* The builders, `Uri` and `HttpMethod` (formatting and accessors without state), and
  `lib.rs` (re-exports).
* The syntax of heads, which `httparse` and `http_req` check: `HttpReaders` knows where a
  head ends and its Content-Length. Heads that are no HTTP at all are the kind `"bad"` of
  `HttpServer`.
* The splitting of a message into frames by `frame_size` and the loop counters of
  `read_msg`; the payloads of messages, so also the rule that a message that ends with
  the keep-alive payload is a pong (`ws_stream.rs:664`).
* A request on a path that is no valid endpoint, after which the handshake of a server's
  stream fails in every later call (`ws_stream.rs:375`).
* TLS, the proxy protocol, the sockets and `WriteBuffer`, which belong to other
  crates: modelled by what the code here relies on, and marked external in the map.
* `max_idle_secs`: the code never reads it.

## 6. Plan

1. *Done:* `HttpServer` with `Exchange`, `WsServer`, `WsStream` for both ends,
   `HttpClient`, `PipelinedClient`, `HttpReaders`, with their runs.
2. *Done:* an inductive invariant for each of these, and from it every safety property
   the runs check, under the premises that section 4 gives.
3. *Done:* `HttpServer` implements `Exchange`, for any clients and number of requests.
4. *Done:* `WsServer` implements `Exchange` as well, handshakes and messages included.
