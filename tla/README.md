# A TLA+ model of NexusRPC

NexusRPC is a C++17 RPC framework: a multi-reactor TCP layer on edge-triggered
epoll (`src/src/net`), a framed RPC protocol with a threaded server and a
blocking client (`src/src/rpc`), and an MCP gateway that exposes RPC methods as
tools over stdin/stdout (`src/src/mcp`). This directory holds TLA+ modules that
model the concurrent core of that program, TLC configurations that check them
on small instances, and TLAPS proofs of the properties that matter most for
every size. `PROJECT.json` maps each definition to the source lines it stands
for. Paths below are relative to the repository (`src/` in `PROJECT.json`).

## 1. Inventory

### Parts and how they interact

| Part | State it keeps | Operations | Talks to |
|---|---|---|---|
| `EventLoop` | `looping_`, `quit_`, eventfd, `pending_functors_`, epoll set | `loop`, `quit`, `runInLoop`, `queueInLoop`, `updateChannel`, `removeChannel` | runs channel callbacks and functors on its own thread; any thread may post |
| `Channel` | interest set, reported events | `enable*/disable*`, `handleEvent` | registered with one `EventLoop`, calls back one `TcpConnection` or `Acceptor` |
| `TcpConnection` | `state_`, input and output buffers, channel | `send`, `shutdown`, `forceClose`, `handleRead/Write/Close`, `connectEstablished/Destroyed` | public calls from any thread are posted to the owning loop |
| `Buffer` | one vector, reader and writer index | `append`, `retrieve*`, `ensureWritableBytes`, `readFd` | owned by a `TcpConnection`, loop thread only |
| `Acceptor` | listening socket, reserved descriptor | `listen`, `handleRead` | hands descriptors to `TcpServer` |
| `TcpServer` | `connections_`, `sub_loops_`, threads, round-robin index | `start`, `stop`, `onNewConnection`, `removeConnectionInLoop` | main loop accepts, sub-reactor threads serve |
| `FrameParser`, frame codec | partial frame, state, decoded header | `feed`, `reset`, encode/decode | one per server connection |
| `RpcServer` | `running_`, `stopping_`, connection table, work queue, in-flight counters | `start`, `stop`, `onConnection`, `onMessage`, `enqueue`, `workerLoop` | I/O thread with a `TcpServer` without sub-reactors; worker threads |
| `RpcClient` | mutex, one socket, next request id | `call`, `callFuture`, `callAsync`, `close` | a server, over one connection |
| `McpServer` | session state, `stopped` | `run`, `stop`, `dispatch` and one handler per method | stdin/stdout, `ToolRegistry`, `RpcClient` |
| `ToolRegistry` | tools by name, under a mutex | `registerTool`, `findTool`, `listTools` | protobuf descriptors; hands out pointers into its table |
| JSON-RPC codec | none | parse, serialise, validate a request | `McpServer` |

### What is hard, and the properties that answer it

* **Hand-over between threads** (`queueInLoop`, `quit`, eventfd): a push and its
  wakeup are two steps, and the loop drains the eventfd before it swaps the
  functors. Nothing posted may be lost, repeated or left without a wakeup.
* **Edge-triggered readiness**: a missed edge is never repeated. The accept loop
  and the flush of the output buffer must not stop with work left and no edge.
* **Close and removal**: a close is decided on the loop thread, its removal
  deferred to a functor, its notification given once, while other threads send,
  shut down or force-close and `stop()` destroys connections underneath.
* **Resource limits**: a full descriptor table, per-connection and global request
  limits, buffers that grow. Every slot taken must be given back on every path.
* **Thread life cycles**: `start()` that fails half-way, `stop()` that joins
  threads which still need to be woken, restart after either.
* **Timeouts in the client**: a late answer on a reused connection, and a
  request id that wraps, must not give one call another call's answer.
* **Framing**: TCP cuts the stream anywhere, and the metadata inside a frame is a
  protobuf map decoded by hand.
* **The gateway**: replies are matched to requests by line and id, text is quoted
  inside text, a tool found under a lock is used after it, `stop()` comes while
  `run()` is blocked on input, and the advertised schema must agree with
  protobuf's converter.

The hazards, each at its line and with the properties that cover it, are listed
in `PROJECT.json` under `hazards`.

## 2. Modules and their correspondence to the code

Each module states its variables next to the members they stand for. The
granularity is that of shared-memory accesses and system calls: whatever another
thread or the kernel can get between is a step of its own; code that runs to its
end under a mutex or on one thread without touching shared state is one step.

| Module | Models | Notes |
|---|---|---|
| `EventLoop` | `net/event_loop.cpp` | Loop thread: enter, reset of `quit_`, check, `epoll_wait`, dispatch, swap, each functor, exception, a failing `epoll_wait`. Foreign threads: push or store, then the eventfd write. User code is a choice of what it can do to the loop: nothing, queue, quit, throw. |
| `SubReactor` | thread function of `TcpServer::start`, quit and join in `stop` | Extends `EventLoop` with the owner of the thread and the life of the loop object on the thread's stack. |
| `TcpConnection` | `net/tcp_connection.cpp`, `channel.cpp`, `updateChannel`, the close callback and `removeConnectionInLoop` of `TcpServer` | One connection with its loop thread and the application's callbacks on it, foreign threads and a kernel socket: a bounded send buffer, epoll's ready list, the peer. Bytes carry message and position, so reordering shows. |
| `Acceptor` | `net/acceptor.cpp` | Every system call of `handleRead` is a step; the rest of the process opens and closes descriptors in between. |
| `TcpServer` | `net/tcp_server.cpp` | The map, round robin over `num` sub-reactors (chosen initially, as `setThreadNum` does), deferred removal and `stop()`. `removeConnectionInLoop` is two steps: the erase under the mutex, and the notification after the unlock (`removing` in between, when `connectionCount()` no longer counts a connection whose close was not told). `shutdown()` of any thread is a check and a store, as in `TcpConnection`, so that a close can run twice and queue two removals. |
| `Buffer` | `net/buffer.cpp` | Index arithmetic, compaction, growth and `readFd` with its overflow block; bytes are numbered. |
| `ByteQueue` | what `Buffer` promises | Put at one end, take at the other, nothing else. |
| `FrameMetadata` | `encodeMetadata`, `decodeMetadata` and the varints of `rpc/frame_codec.cpp` | Bytes are numbers; the base of a varint is a parameter, so that lengths of two digits are short. |
| `FrameParser` | `FrameParser::feed/reset`, header validation, the loop in `RpcServer::onMessage` | A byte of the stream is the frame and offset it stands for; the payload's bytes are decoded with `FrameMetadata`. Misaligned bytes fail header validation. A frame is well-formed or not; of one that is not, `Meaning` is what `decodeMetadata` makes of its whole payload. The client sends while the server reads; `starts` is a history of where each frame begins. |
| `RpcServer` | `rpc/rpc_server.cpp` | Controller, I/O thread, workers, work queue, functors posted back. |
| `RpcClient` | `rpc/rpc_client.cpp` | Callers, the mutex, one connection per epoch, a server that may answer late on an abandoned epoch, ids modulo `IdModulus`. |
| `SerialCalls` | what `RpcClient` promises | Calls one at a time, each ending with its own answer or a failure. |
| `JsonText` | `JsonValue` and the parser of `mcp/json_rpc.cpp` | A text is a sequence of symbols: characters where quoting tells them apart, whole numbers and words elsewhere. Only TLC uses it (it is recursive). |
| `ToolSchema` | `buildSchema`, `buildParameter`, `mapScalarType` of `mcp/tool_registry.cpp`; `buildToolSchema`, `buildPropertySchema` of `mcp/mcp_server.cpp` | From message types to JSON Schema. |
| `ToolRegistry` | `mcp/tool_registry.cpp` | The table, and names that may collide in snake_case. |
| `McpServer` | `mcp/mcp_server.cpp`, `parseRequest` and the responses of `mcp/json_rpc.cpp` | Extends `ToolRegistry`. One step per handler, except that `tools/call` is two: the backend call leaves time for others. The codec and protobuf are parameters. |
| `EventLoopProofs`, `TcpConnectionProofs`, `TcpServerProofs`, `BufferProofs`, `FrameParserProofs`, `RpcServerProofs`, `RpcClientProofs`, `McpServerProofs` | — | Theorems about the module each is named after, and the inductive invariants they need. `EventLoopProofs` also has those about `SubReactor`, `TcpServerProofs` those about `Acceptor`. |
| `MCTcpServer`, `MCRpcClient`, `MCFrameParser`, `MCMcpServer` | — | Values TLC needs that a configuration cannot write; the last also joins `McpServer` with `ToolSchema` and `JsonText` and states `AdvertisedIsCallable`. |

Composition is by reduction. A detailed component appears in the next one as
what that one can observe: `TcpConnection` uses a loop whose post and wakeup are
one step (the gap is `EventLoop`'s subject); `TcpServer` keeps of a connection
its state and notifications, and of a loop its queue; `RpcServer` keeps of a
connection its state and of a frame what `onMessage` tells apart; `RpcClient`
assumes a server that answers a request at most once, which `RpcServer` checks
(`AtMostOneAnswer`). `McpServer` keeps of `RpcClient::call` its possible outcomes.
`MCMcpServer` composes the server with the registry, the schemas and the codec
as they are: every line goes through the parser, every reply through the
serialiser.

Two components are shown to implement an abstract specification by a refinement
mapping: `Buffer` implements `ByteQueue` with `queue <- Contents`, what `peek()`
shows; `RpcClient` implements `SerialCalls` with `call <- callInProgress`, the
serial number of the call that holds the mutex.

Definitions named `Mut...` are deliberate faults: variants of the definition
that follows them, used to confirm that each property is violated when the code
is wrong in that way. Nothing in a specification uses them.

### External behaviour assumed

* epoll reports a channel when it becomes ready, and on `EPOLL_CTL_ADD/MOD` when
  it is ready then; `DEL` takes it off the ready list. A socket reports
  writability again after a write found it full and the peer read.
* `accept4` allocates its descriptor before it looks at the queue, as Linux does,
  so a full table yields `EMFILE` even with an empty backlog. `accept4` may also
  fail with an errno the loop does not name, with the connection consumed
  (`ECONNABORTED`) or left in the backlog (`EINTR`, `ENOMEM`).
* Once reset, a socket's reads and writes fail and unread data is gone; epoll reports
  `EPOLLHUP` and `EPOLLERR`, and `Channel::handleEvent` stops there without `EPOLLIN`.
* protobuf's `JsonStringToMessage` refuses unknown fields, as the code asks it to,
  takes a number for an integer field, the wrapped value for a wrapper type and an
  object for any other message (`ProtobufReads` in `MCMcpServer`). A string stands
  for one in the format its field needs (RFC 3339, base64). `FieldMask` and `Any`,
  which protobuf reads otherwise, and `oneof` are absent, as they are from the list of
  supported types in `docs/mcp.md` section 8. What protobuf prints
  for a response is any object, and may fail.
* The application's high-water-mark callback may close the connection by force.
  It is assumed not to send or shut down (section 5).

## 3. Runs

The type invariants document the variables and are proved (section 4); the runs check
the other properties.

Deadlock checking is off in every run: a server with no clients, a `run()` that
returned, or a model at its bounds, may stop. `tcp_server`, which has no liveness property,
uses symmetry over connections and callers; no other run uses any.

| Run | Bounds | Shows |
|---|---|---|
| `event_loop` | 2 foreign threads, 3 functors, `loop()` entered twice | Exactly-once FIFO hand-over (`FifoHandOver`), no lost wakeup for a post (`ForeignPostWakes`) or a quit (`QuitWakes`), functors from outside or from I/O callbacks run (`QueuedFunctorRuns`), `quit()` ends the loop (`QuitReturns`). Three functors let one be run, one be batched and one be pending; two entries cover the reset of `quit_`. |
| `sub_reactor` | owner and one user thread, 2 functors | A connection posted while the thread starts is established; a `stop()` that finds the loop past its reset returns. |
| `tcp_connection` | 1 foreign thread with 2 calls, send buffer of 1 byte, high-water mark of 2, messages of 1 and 2, 2 messages out, 1 chunk in | Byte order across direct and buffered writes, FIN after data, one notification, nothing after it, the buffer drains, `shutdown()` completes, a close from I/O ends in removal, also when the connection, message or write-complete callback sends, shuts down or closes, the last in the middle of a flush, and when the high-water-mark callback closes the connection under `sendInLoop`. A message of 2 overflows the send buffer, a second one queues behind it and crosses the mark. |
| `tcp_connection_functor_close` | the same | **Violation**, see section 5. |
| `acceptor` | table of 4, 2 other descriptors, 4 arrivals | Descriptors are accounted for on every path of the `EMFILE` branch, no connection is stranded, the loop returns once the table has room. The table is full with and without the reserved descriptor. |
| `acceptor_full` | table of 4, 4 arrivals | **Violation**, see section 5. |
| `tcp_server` | 0, 1 or 2 sub-reactors, 3 connections, 2 threads calling `shutdown()` | Notifications are paired although a close may run twice and removals and `stop()` race; the map and what the application was told differ only by the removals between their erase and their notification; main-loop connections are all reported by `stop()`. Three connections put two on one of two sub-reactors; two callers let `kDisconnected` be overwritten after a second close too. |
| `rpc_server` | 2 workers, 1 connection, 3 requests, per-connection limit 2, queue limit 1, 2 starts | Exact in-flight counters, the connection table in step with the toggling callback, at most one answer and it follows the handler, a worker is awake whenever work is queued, `stop()` drains the queue, `start()` (also one that fails) and `stop()` return, enqueued requests are answered while their connection lives. Both limits are reached. |
| `rpc_client` | 2 callers, 2 request ids, 4 calls, 3 connections | The client implements `SerialCalls` (`IsSerialCalls`), and a connection found open is clean. With two ids the third call reuses the first one's. |
| `frame_parser` | header of 2, metadata up to 40, body up to 2, varints to base 4, 21 kinds of frame, streams of up to 2 | For every stream, sent at any pace, and every way to cut it, `onMessage` takes the requests a reference definition finds in the whole stream, each with the metadata its client encoded, and gives up the connection when a bad header or the last byte of a refused frame has arrived, not before and not later. The kinds include two-digit lengths, unknown fields, repeated keys and fields, missing keys, one malformed metadata for each error return of `decodeMetadata`, the two kinds it accepts although a length reaches too far, and every header fault; a second frame shows what trailing bytes do. |
| `buffer` | prepend 2, room for 3, overflow block of 2, lengths 0–5, 12 bytes | The buffer implements `ByteQueue` (`IsByteQueue`); storage stays within twice the peak demand. |
| `mcp_server` | 23 kinds of line in any number and order, 3 methods, two of them of one tool name, and 2 hand-made descriptors, every outcome of a call | Every error and result a handler may give on its request comes out of the codec as a line that reads back, the two forms of a call's result in agreement (`RepliesReadBack`); each request with an id, and each line that is no request, gets one answer, in order, and whatever is written carries its request's id (`AnsweredInOrder`); nothing succeeds before the handshake, which succeeds once (`OneHandshake`); a call is answered with the tool it was looked up as (`CallUsesOneTool`); `stop()` lets at most one more line through (`StopTakesOneLine`) and `run()` returns (`RunReturns`); arguments that follow the advertised schema are accepted (`AdvertisedIsCallable`). No history grows, so the number of lines needs no bound. |

### Fairness

Weak fairness only, and only for steps the operating system must schedule or a
thread must finish: the loop threads, the rest of a call already begun, workers
(handlers are assumed to return), the controller inside `start()` or `stop()`.
Nobody is obliged to call `loop()`, `quit()`, `send()` or `stop()`, and no I/O has
to arrive. `TcpConnection` also assumes the peer keeps reading, because the code
has no write timeout: a peer that never reads may stall a flush for ever.
`McpServer` assumes that the thread in `run()` keeps running and that
`RpcClient::call` returns, which its deadline sees to; the client owes no line
and no end of input. The fairness of its handlers is stated on `pc`
(`Leaves`), because one of them is enabled in every state that has a request.
`epoll_wait` and `accept4` are not obliged to fail.
That a loop gets to the functors posted to it is not assumed anywhere:
`EventLoop` shows when it does, and section 5 when it does not.

## 4. Proofs

For every set of threads, workers, callers, connections or tools and every value of
the bounds and limits:

| Module | Theorem | States |
|---|---|---|
| `EventLoopProofs` | `HandOverCorrect` | `Spec => []FifoHandOver` |
| | `NoLostPost`, `NoLostQuit` | `Spec => []ForeignPostWakes`, `Spec => []QuitWakes` |
| | `SubReactorIsEventLoop` | `SubSpec => Spec`, `SubReactor` implements `EventLoop` |
| | `SubReactorHandOver` | `SubSpec => [](FifoHandOver /\ ForeignPostWakes /\ QuitWakes)` |
| `TcpConnectionProofs` | `StreamIsIntact` | `Spec => []StreamIntegrity` |
| | `FinIsLast` | `Spec => []FinAfterData` |
| | `NotifiesOnce` | `Spec => []NotifiedOnce` |
| | `SilentAfterNotification` | `Spec => NoMessageAfterNotification`, an action property |
| `TcpServerProofs` | `NotificationsArePaired` | `Spec => []NotificationsPaired` |
| | `MapIsExact` | `Spec => []MapMatchesNotifications` |
| | `StopNotifies` | `Spec => []StopNotifiesMainLoop` |
| | `NoDescriptorLeak` | `AcceptorSpec => []DescriptorsAccounted` |
| | `NobodyStranded` | `AcceptorSpec => []NoStrandedConnection` |
| `BufferProofs` | `StorageIsBounded` | `Spec => []StorageBounded` |
| | `ImplementsByteQueue` | `Spec => IsByteQueue`, a refinement |
| `FrameParserProofs` | `ParserChunkingIndependent` | `MetadataReadsBack => (Spec => []ChunkingIndependent)` |
| | `ParserRefusesAtOnce` | `MetadataReadsBack => (Spec => []RefusedAtOnce)` |
| `RpcServerProofs` | `PendingIsExact` | `Spec => []PendingExact` |
| | `TableStaysInStep` | `Spec => []TableInStep` |
| | `AnswersAreUnique` | `Spec => []AtMostOneAnswer` |
| | `NoWorkAsleep` | `Spec => []WorkKeepsWorkerAwake` |
| | `QueueIsDrained` | `Spec => []StopDrainsQueue` |
| `RpcClientProofs` | `CallGetsItsAnswer` | `Spec => AnswersOwnCall`, an action property |
| | `ReusedConnectionIsClean` | `Spec => []IdleConnectionClean` |
| | `ImplementsSerialCalls` | `Spec => IsSerialCalls`, a refinement |
| `McpServerProofs` | `EveryLineIsAnswered` | `Spec /\ []RepliesReadBack => []AnsweredInOrder` |
| | `HandshakeIsFirst` | `Spec /\ []RepliesReadBack => []OneHandshake` |
| | `PointerStaysGood` | `Spec => []CallUsesOneTool` |
| | `StopIsPrompt` | `Spec => []StopTakesOneLine` |
| all but the last | `TypeCorrect`; `SubTypeCorrect`, `AcceptorTypeCorrect`, `ParserTypeCorrect` | `Spec => []TypeOK`, of each module |

Each inductive invariant was checked by TLC on the run of its module before it was
proved (`RequestsInv` of `FrameParserProofs` without its typing conjunct, which TLC
cannot evaluate for frames that do not decode). What each adds to the properties, and why:

*EventLoop, hand-over.* `FifoHandOver` is not inductive: if a batch could be left over
outside `doPendingFunctors`, the swap would overwrite it. `HandOverInv` adds
`NoBatchOutside` (the swapped-out vector is a local of that function) and the
types. Two lemmas on sequences carry the argument: a push at the back of the last
part is a push at the back of the whole, and moving a head to the back of the
preceding part changes nothing.

*EventLoop, wakeups.* `WakeInv` is the types with `ForeignPostWakes` and `QuitWakes`.
The case that matters is the drain of the eventfd: it clears the signal, and the loop
thread is then on its way to the swap, which takes what was pushed before it; a
thread that pushed and has not yet written the eventfd will do so.

*SubReactor.* Every step of the thread function, of `start()` and `stop()` and of a user
of the loop is a step of `EventLoop` or leaves the loop alone, so `SubReactor` implements
`EventLoop` with the identity as the mapping, and its invariants carry over.

*TcpConnection.* `ConnectionInv` has four parts beside the types. `StreamInv` is
`StreamIntegrity` with the kernel's buffer within its capacity, so that what a write
takes is never more than there is room for. The bytes are sequences of any length:
`MessageLast` (part of a message goes to the socket only when nothing is buffered, and
the rest behind it), `FlushMoves` and `HeadMoves` say that `wire`, `sndbuf` and `out`
still make up the same stream; after a reset, that what the peer has read stays a
prefix. `FinInv` adds to `FinAfterData` that the state is past `kConnected`, because
`sendInLoop` would otherwise buffer after SHUT_WR. That `kConnected` is not entered
again is `EstablishInv`: `connectEstablished` is queued once, is alone in the queues
while the connection is new, and nobody else has the connection then. `NotifyInv` says
that a notified connection is out of the map and neither interested in reading nor
holding a read event, and that no event is left when functors run, which is why
`message_callback_` cannot follow. That a stale `enableWriting()` re-registers a
closed channel (section 5) does not break this: it asks for writing only.

*Acceptor.* `DescriptorsAccounted` with the types is inductive, and the types are not
without it: that `close` finds a descriptor to give back is what the account says.
`NoStrandedConnection` is inductive with the types.

*TcpServer.* `NotificationInv` ties the queues to the life of a connection:
`EstablishInv` (`connectEstablished` is queued at most once, on the connection's own
sub-reactor, before anyone was notified), `RemoveInv` (a removal is queued only after
the first notification), `StateInv` (what the state says of the notifications given),
`RemovingInv` (a connection between the erase and the notification of its removal was
reported open, not yet closed, and is served by a loop that lives) and `ShuttingInv` (a
thread inside `shutdown()` has an established connection). Two removals of one
connection may be queued, because the store of `shutdown()` may overwrite
`kDisconnected`; the map decides which counts.

*Buffer.* `BufferInv` says that the indices are in order and inside the vector, and
that the readable bytes are the last ones put in, in order. Without the order of the
indices neither a compaction nor the copy from the overflow block stays inside the
vector. With it each operation maps to `Put`, `Take` or a stutter of `ByteQueue` under
`queue <- Contents`. `StorageBounded` is inductive with it: growth happens only when
compaction cannot make room.

*FrameParser.* `feed()` is called with whatever arrived, and the theorems say that the
cuts do not matter. `ParserInv` has three parts. `WireInv` says where the bytes of each
frame lie on the wire. `PositionInv` says where the parser stands when n requests were
taken and so many bytes have arrived: before the header of frame n + 1, between its
header and the end of its payload, or behind it, with the buffer holding exactly the
bytes from there to what has arrived; and that the link is open as long as nothing that
has arrived of this frame is to be refused. `RequestsInv` says that each request taken is
the one its frame makes. The argument is that a `feed()` takes one such position to
the position of a parser that had been given all the bytes at once (`HeaderOutcome`,
`PayloadOutcome`, then `FeedAtHeader` and `FeedAtPayload` for any chunk), that `reset()`
keeps the bytes of the next frame (`ResetStands`), and that a refused frame stays in the
parser while `handleRead` goes on delivering (`RefusalStays`). Nothing in it
depends on how metadata is decoded. The two properties do, since they speak of what the
client meant: `MetadataReadsBack` says that `decodeMetadata` accepts metadata that is
well-formed and finds the map the client encoded. Of other metadata nothing is assumed:
whatever `decodeMetadata` makes of the whole payload, the cuts make no difference to it.
`MetadataReadsBack` is about constants only, and TLC evaluates it for the kinds of frame
of the run (`DecoderAssumption` in `MCFrameParser`).

*RpcServer.* `ServerInv` relates the three kinds of thread (`ControlInv`: a worker
exits only from an empty queue that nothing enters any more; `ConnInv`: no connection
outlives the loop) and says where a request is (`QueueInv`, `HoldInv`, `ReplyInv`): in
the queue, with one worker, or in one functor of the loop, never at two of them, with
the history that belongs to the place. `PendingExact` counts those places; its proof
adds and removes one element of a finite set at a time. `StopDrainsQueue` follows from
`NothingDropped`: an unhandled request is queued or with a busy worker, and `stop()`
has seen the workers exit.

*RpcClient.* `AnswersOwnCall` is an action property proved from `ClientInv`: the
types; `MutexHeld` (only the holder of the mutex is inside the exchange);
`UnopenedClean` (a connection not opened yet carries nothing); `IdleClean`; and
for each caller `Exchange`, which says what the open connection carries at each
point of a call: nothing, its request, its whole answer, or its payload. Since
every failure closes the connection, a connection is only kept when it is clean,
so an answer read with a matching id is the answer to the call that reads it,
whatever the width of the id.

*RpcClient, refinement.* `ImplementsSerialCalls` takes each step of the client to a
step of `SerialCalls` or a stutter. Taking the mutex in `call()` is `Begin`, for which
no other call may be in progress; the read of a good payload is `Succeed`, and
`ClientInv` says the answer read is the current call's; every failure is `Fail`.
`close()` takes and releases the mutex in one step and is a stutter. `Counted` adds
that a held mutex means a call has begun: its number is then not 0.

*McpServer.* The codec is a parameter of the module, and `RepliesReadBack` is what the
proofs ask of it: that whatever a handler may have to say on its request is printed as
one line that reads back with its id and kind, and that the object a call's result
quotes as text is the one beside it. The run `mcp_server` checks it for
`JsonText`, the model of the code's codec. `AnswerInv` is the rest: an answer is owed
exactly while a request with an id, other than `notifications/initialized`, is handled (`OwedInv`), the session
is initialised if and only if an `initialize` request was handled (`HandshakeInv`), and
what was written last answers the last line (`WrittenInv`). `ServeInv` needs nothing
of the codec: tools are added and never replaced, so what `findTool` found is there
after the backend call; and a line read after `stop()` takes `run()` to the top of its
loop, which it leaves.

Assumptions on constants are the `ASSUME`s of the modules: limits and bounds are
natural numbers, the descriptor limit, the send buffer, a message and the pool of
workers are not empty, workers and connections are finitely many, the main loop is none
of the sub-reactors, there is a non-zero request id, a valid frame header gives the length
of its payload. TLC evaluates them in the runs.

What stays with TLC:

* Liveness (`QueuedFunctorRuns`, `QuitReturns`, `OutputDrains`, `ShutdownCompletes`,
  `IoCloseIsRemoved`, `ReturnsWhenRoom`, `EnqueuedIsAnswered`, `StopTerminates`,
  `RunReturns` and both properties of `SubReactor`) needs fairness and `ENABLED`, which
  the prover does not handle.
* `MetadataReadsBack`, which the theorems of `FrameParserProofs` assume, is about a decoder
  that recurses over the bytes of the metadata: its proof is an induction over data.
* `RepliesReadBack`, which theorems of `McpServerProofs` assume, and
  `AdvertisedIsCallable` are about what the recursive codec and the recursive schemas
  compute.

## 5. Disagreements with the code's own statements

Checked by a run of their own (`findings` in `PROJECT.json`):

* **A close inside a functor is not followed up** (`tcp_connection_functor_close`).
  `queueInLoop` on the loop thread writes no eventfd while the loop runs, and a
  functor runs after the swap, so the removal queued by `handleClose` waits for an
  unrelated event. `forceClose()` from another thread, or a failed write in a
  posted `send()`, leaves the connection in the map and the application untold.
* **The accept loop spins at the descriptor limit** (`acceptor_full`). With an
  empty backlog and a full table the `EMFILE` branch restores the reserved
  descriptor and tries again, so it never sees `EAGAIN` and never returns.
  `ReturnsWhenRoom` is what does hold.

Seen while modelling; the properties above are stated so that they hold in spite
of them:

* `quit()` before the loop thread's reset of `quit_` (`event_loop.cpp:68`) is lost,
  and `TcpServer::stop()` then waits in `join()` for ever. `LateStopReturns`
  requires the loop to be past the reset.
* A sub-reactor's loop can leave and be destroyed between `quit()`'s store and its
  eventfd write (`event_loop.cpp:113-118`, `tcp_server.cpp:51-56`).
* An errno the accept loop does not name, also one that concerns a single connection
  or call, ends it (`acceptor.cpp:87`) with connections in the backlog and no edge to
  come, against `acceptor.h:18-20`; `NoStrandedConnection` excludes a loop that gave up.
* `decodeMetadata` compares a length with what is left before the varint of that
  length is taken (`frame_codec.cpp:279`, `:302-303`), so an entry may end in the body and
  a field after its entry, by up to the size of the varint, and the frame is accepted,
  where `kMetadataParseError` ("Metadata protobuf wire-format error.",
  `frame_constants.h:71`) is due. Both kinds of frame are sent in `frame_parser`
  (`Overrunning`), and TLC confirms that `decodeMetadata` takes them
  (`DecoderAssumption`). `ChunkingIndependent` and `RefusedAtOnce` hold with them because
  they say when a frame is refused, and leave to `decodeMetadata` which malformed
  metadata is.
* `TcpServer::stop()` drops sub-reactor connections without a notification, against
  the comment at `tcp_server.cpp:82-83`; `StopNotifiesMainLoop` is about the rest.
* `RpcServer::isRunning()` is true before the listener exists, against
  `rpc_server.h:92`.
* `RpcServer::stop()` closes connections before calls in progress are answered,
  against the order in `docs/design.md:159`. `StopDrainsQueue` shows that they are
  at least handled.
* `RpcServer::stop()` joins the I/O thread, which destroys its `EventLoop`, before
  the workers (`rpc_server.cpp:193`). A worker past the state check of
  `TcpConnection::send` (`tcp_connection.cpp:91`) then posts to a loop that is gone,
  against `rpc_server.h:29-30`. In the model the response is lost.
* The high-water-mark callback runs before the rest of its message is buffered
  (`tcp_connection.cpp:294-300`). A `send()` in it goes out in the middle of that
  message, a `shutdown()` sends FIN before its end, and a `forceClose()` is followed
  by `enableWriting()`, which puts the closed channel back into epoll until the
  removal. Only the last is modelled.
* `registerService` checks `running_` under a mutex `start()` does not take
  (`rpc_server.cpp:107`), so a method can be added after `start()` returned.
* MCP requests without an id, other than `notifications/initialized`, are answered
  with a null id, because nothing asks `isNotification()`, against
  `json_rpc.cpp:604-607`, `docs/mcp.md:11` and `mcp_server.h:51-52`; and
  `notifications/initialized` with an id gets no answer. `AnsweredInOrder` asks for an
  answer in neither case: a server that kept to the documents would satisfy it too.
* An id of `-inf` or `-nan` is taken, because `strtod` takes it, and comes back as it
  came: a reply the server's own parser reads and a JSON parser would not.
* `stop()` while `run()` waits in `getline` lets one more line be served, and
  `isStopped()` is true before the loop has ended, against `mcp_server.h:84-87`;
  `StopTakesOneLine` states what holds.
* Required parameters are advertised and not enforced: protobuf fills in defaults.
  `AdvertisedIsCallable` is about the other direction. A tool registered without
  a request type is listed and can never be called.
* A batch, like anything that is no request, is answered with -32700, whatever is
  wrong with it. -32002 stands both for a server that is not initialised and for
  an unavailable backend.
* Of two methods whose names come to the same snake_case name the first stays and
  the second is refused.
* Duplicate keys of an object overwrite one another, against the comment at
  `json_rpc.cpp:262`; the halves of a surrogate pair are encoded one by one; an id
  of 1.0 comes back as 1 (`SameId`).
* `buildSchema` does not end on a message type that contains itself
  (`tool_registry.cpp:201`); `NoRecursiveMessage` excludes such types.

## 6. Not modelled

* `send()` or `shutdown()` inside the high-water-mark callback of `TcpConnection`:
  they break the stream (section 5).
* `RpcServer::registerService` and what a worker answers (a handler's result, a
  missing handler, a deadline that passed: a response in every case);
  `length_error` near 2^64 in `Buffer`; the wrap of the 32-bit round-robin counter;
  the 64-bit wrap of a ten-byte varint.
* Frames whose metadata lengths reach past the whole payload. What `decodeMetadata`
  would read there lies outside the buffer it was given.
* The byte layout of the frame header, which is a fixed sequence of stores and
  loads; a header is its fields.
* `Socket`, `InetAddress`, `Status` and message types: wrappers and plain values.
* Descriptions and enum value lists in tool schemas; the escapes `\b` and `\f`,
  which are treated like `\n`; positions in parse errors.
* What a worker's post does to a loop that was destroyed (section 5): the response is lost.
* `Any`, `FieldMask` and `oneof` in request types (section 2, external behaviour).
* Wording, logging, thread-affinity checks that only abort, and moves of
  callbacks before `start()`.

## 7. What could follow

In order of importance:

1. More refinements: a FIFO executor implemented by `EventLoop`, a byte stream with
   an end implemented by `TcpConnection`; composition of `RpcClient` and
   `RpcServer`.
2. More action properties, and their proofs from the invariants of section 4: what
   `state_` may become, that a request is rejected only at a limit, that `stop()` keeps
   its order.
3. `TcpConnection`: the re-entrant calls of the high-water-mark callback, once the
   code orders them; `RpcServer::registerService`.
