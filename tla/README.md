# RmqMgr: specification, model checking and proofs

RmqMgr is a small C++ class library that talks to RabbitMQ: `RmqMgrBase` keeps a
session (channels, an exchange, a queue, consumption, publication), `TcpMgr`
gives the AMQP-CPP library a TCP transport over Boost.Asio, and
`MyConnectionHandler` joins the two. AMQP-CPP itself is in the repository as
headers (`src/include/amqpcpp`) and a prebuilt binary (`src/lib/amqpcpp.lib`).
This directory models the program and the logic in those headers in TLA+, checks
the models with TLC and proves their main safety properties with TLAPS.

Line numbers below are of `src/RmqMgrBase.cpp` unless another file is named.

## 1. Inventory

### Components, their state and operations

| component | state | operations |
|---|---|---|
| `TcpMgr` (480-721) | `m_sock`, `m_socketStarted`, `m_pending_recvs`, `m_recv_buffer`, `m_pending_sends`, `m_pConnect`, `m_is_ready`, the strand | `Init`/`Start`, `OnConnect`, `RecvData`/`DispatchRecv`/`StartRecv`/`HandleRecv`, `SendData`/`SendMsg`/`StartSend`/`HandleWrite`, `ReConnectServer`, `CloseSocket`/`StartCloseSocket`, `SetLoginReady`/`WaitForReady`, `Finit` |
| framing (572-620; `connectionimpl.h`, `receivedframe.h`) | `m_parseBuf`, `_expected` | the append of `HandleRecv`, the loop of `ParseAmqpData`, `parse`, `expected` |
| `RmqMgrBase` (11-439) | `m_connection`, `m_channel`, `m_channelPub`, the status given to the user | `StartMqInstance`, `CreateMqChannel`, `ChannelOkCb`, `ChannelErrCb` and five more error callbacks, `CreateMqPubChannel`, `PublishMsg`, `ConsumeRecvedCb`, `ReleaseMqInstance` |
| `MyConnectionHandler` (442-478) | none | `onData` sends, `onReady` ends the login, `onError` and `onClosed` report |
| `TestBase`, `main.cpp` | `m_mqConnState` | the user: start, publish, print what is received |
| AMQP channel (`channelimpl.h`, `channel.h`, `deferred.h`, `monitor.h`) | `_state`, `_synchronous`, the list of `Deferred`, the queue of frames, `_readyCallback` | every request of `channel.h`, `onReady`, `reportReady`, `reportSuccess`, `reportError`, `reportClosed`, close, destruction |
| `Deferred` and its classes (`deferred*.h`) | the callbacks, `_failed` | the methods that register callbacks, `reportSuccess`, `reportError`, the destructor |
| reception of messages (`deferredreceiver.h` and its classes, `message.h`, `stack_ptr.h`) | `_consumers`, `_receiver`, `_bodySize`, `_message` | deliver, get, return, header, body; install and cancel a consumer |
| AMQP connection (`connectionimpl.h`, `connection.h`) | `_state`, `_closed`, `_channels`, `_expected` | `parse`, `expected`, `add`, `remove`, `close`, `fail` |
| AMQP values and wire formats (`table.h`, `array.h`, `field*.h`, `booleanset.h`, `metadata.h`, `copiedbuffer.h`, ...) | the properties of a message and their flags | set, `size`, `fill`, read |
| `address.h` | an address | print, read |
| event loop handlers (`libev.h`, `libboostasio.h`, `libuv.h`, `libevent.h`) | a watcher for each descriptor, pending flags, a timer for each connection | `monitor`, the callbacks of the loop, `onNegotiate`, the timer; shipped with the library, not used by RmqMgr |
| `linux_tcp/` | in the binary library | `TcpHandler::monitor` and `TcpConnection::process` join it to an event loop |

### How they interact

Two threads matter. The **user thread** calls `RmqMgrBase`. The **worker
thread** runs the `io_service` of `TcpMgr` (`kNumOfWorkThreads` is 1); each of
its handlers goes through one strand. On the worker, `HandleRecv` feeds
`AMQP::Connection::parse`, which runs the callbacks of `RmqMgrBase` and, through
`onData`, posts new frames to the strand. On the user thread, `RmqMgrBase` uses
the same connection and channels with no lock; its frames too are posted to the
strand. `WaitForReady` is the only place where one thread waits for the other.

### What is hard

* an operation that fails leaves its entry in a queue; the queue's emptiness is
  what decides whether the next operation is started;
* the close of a socket is posted while its next connect is issued at once;
* a read and a write of one link fail apart, and each reconnects;
* the stream is cut anywhere, and callbacks may throw out of `parse`;
* two threads work on channels that are not thread safe;
* one refusal of the broker runs several callbacks, each replacing `m_channel`;
* an acknowledgement, a request or a close goes to the channel a pointer holds
  *now*, not to the one it was meant for;
* a connection that is lost under the session;
* every report of a channel calls the user back, who may make requests, close or
  destroy the channel while the report is not done;
* messages come in pieces for receivers that come and go meanwhile;
* a loop holds events for watchers that are changed or gone by the time they are
  called back, and numbers of descriptors are used again;
* one timer serves the next heartbeat and the end of the server's silence.

`PROJECT.json` lists each with its line ("hazards") and the properties about it.

### What makes each component correct

* transport: one transfer of a kind at a time, frames in order and never twice,
  reconnection that does not multiply, no bytes of one link parsed for another,
  data received once connected, the socket closed in the end;
* framing: every frame is processed, in order, none skipped, none held back;
* session: setup runs for every channel that opens, no channel leaks, consumers
  are on `m_channel`, deliveries are acknowledged where they belong, the status
  is honest, and a session in which nothing is under way consumes;
* channel: no request is lost from the list, each is told one thing, by the
  answer that is its own, and the server gets requests in turn;
* receivers: a message arrives whole, once, and for its receiver;
* event loops: a connection is called only for what it wants at that moment, and
  goes on being called for it; heartbeats and timeouts come in time.

## 2. Modules

| module | models | role |
|---|---|---|
| `TcpMgr.tla` | class `TcpMgr` and the asynchronous operations of its socket | detailed model |
| `SendPipe.tla` | what the sending side promises | abstract specification; `TcpMgr` implements it (`IsPipe`) |
| `TcpMgrProofs.tla` | | theorems about `TcpMgr`, and that it implements `SendPipe` |
| `AmqpFraming.tla`, `MCAmqpFraming.tla` | `m_parseBuf` and `ParseAmqpData`; the frame sizes TLC uses | detailed model |
| `AmqpFramingProofs.tla` | | theorems about `AmqpFraming` |
| `MqSession.tla` | class `RmqMgrBase` on one AMQP connection, its channels and the broker | detailed model |
| `MqSessionProofs.tla` | | theorems about `MqSession` |
| `AmqpChannel.tla` | `ChannelImpl` and the list of its `Deferred` objects | detailed model |
| `DeferredKinds.tla` | the callbacks of a `Deferred` of each class | detailed model |
| `AmqpDelivery.tla` | consumers, receivers and the assembly of messages | detailed model |
| `AmqpValues.tla` | `MetaData`, flags, fields and tables, through a frame | operators and their setters |
| `AmqpAddress.tla` | `Address`, printed and read | operators |
| `AmqpObjects.tla` | the five above, one at a time, for TLC | composition |
| `AmqpObjectsProofs.tla` | | theorems about `AmqpChannel` in `AmqpObjects` |
| `AmqpPartsProofs.tla` | | theorems about `DeferredKinds`, `AmqpDelivery` and `AmqpAddress` in `AmqpObjects` |
| `AmqpValuesProofs.tla` | | theorems about `AmqpValues` in `AmqpObjects` |
| `FdWatch.tla` | what AMQP-CPP asks of an event loop handler | abstract specification |
| `LibEv.tla`, `LibPoll.tla`, `LibBoostAsio.tla` | the handlers for libev; libuv and libevent; boost::asio | detailed models; each implements `FdWatch` |
| `EventLoops.tla` | a program with one of the four handlers | composition |
| `EventLoopsProofs.tla` | | theorems about `EventLoops` |
| `RangeInduction.tla` | | induction over numbers, for the proofs |

### `TcpMgr`

`strand` is the FIFO of handlers ready to run; each handler of the class is one
action that takes the head of it (`OnConnect`, `DispatchRecv`, `HandleRecvOk`,
`HandleRecvErr`, `SendMsg`, `HandleWriteOk`, `HandleWriteErr`,
`StartCloseSocket`). `sock`, `live` and `doomed` are what Asio and the system
keep: the state of `m_sock`, the operations under way, and the operations
aborted whose error handler has still to be queued. `ConnectOk`, `ReadOk`,
`WriteOk`, `TransferErr`, `ReportError` and `LinkDown` are the environment.
`m_pending_recvs` holds only zeros, so it is its length (`recvs`). A block of
bytes is a frame that names the AMQP connection that sent it. Where the
operating system may do either of two things (a transfer on a socket that is
connecting, a second connect on one that has failed) both are disjuncts.

### `AmqpFraming`

The stream is a sequence of frames, given by their end offsets (`End`), which
are at least 8 bytes apart as `ReceivedFrame::totalSize` makes them. `recvd`,
`base` and `pos` are offsets in it: what has been read, where `m_parseBuf`
starts, and `parsed_bytes`. `HandleRecv` reads any number of bytes; `Parse` and
`ParseThrows` are one round of the loop; `Erase` is the end of the call. `times`
counts how often each frame has been processed. Any frame may be the close-ok,
after which the connection is `closed`, and one frame (`bad`) may be malformed,
which `parse` notices when it has the bytes up to `seen`: its header, or all of it.
What `ConnectionImpl::parse` does then is read from the object code in
`src/lib/amqpcpp.lib`: closed, it returns 0; for an exception of the constructor of
`ReceivedFrame` it reports an error and returns what it took before; in neither case
does it set what `expected()` returns. `Stuck` is the state of the loop from then on.

### `MqSession`

`chan` is the sequence of AMQP channels ever made, each with its state, the
requests it has sent and the broker has not served (`req`), and the `Deferred`
objects that wait (`todo`). `main` and `pub` are `m_channel` and `m_channelPub`
(0 is null). `inbox` is what is on its way to the worker, and `cbs` the
callbacks of the frame being parsed: one `Callback` step runs one of them, so
the user thread may act between two. Every error callback of `RmqMgrBase` but
that of the channel for publishing does the same three things (report, status,
`CreateMqChannel`) and is `ErrCb`. `pc` is the user thread, inside
`StartMqInstance` up to `started` and inside `ReleaseMqInstance` from
`releasing`. The broker (`broker`, `Serve`, `Refuse`, `Route`, `TakeAck`,
`CloseChannel`, `Deliver`) is external: it serves each channel in order and the
channels in any order. Calls of `parse` and of a callback are atomic, except for
`onReady`, whose store and load on the user thread are two steps against
`reportReady`'s store and load; with `MayReorder` the load may overtake the
store, as it may on the x86 the project builds for. The other data races between
the threads, which the comment at 364 warns of, are not refined. `Quiet` says that
nothing is under way: no frame, no callback, and no request but on a channel that the
broker has closed, where nothing is answered.

### `AmqpObjects`: `AmqpChannel`, `DeferredKinds`, `AmqpDelivery`, `AmqpValues`, `AmqpAddress`

`AmqpChannel`: `oldest` and `newest` are the ends of the list, `deferred[d].next`
is `_next`, `told` what a `Deferred` has been told. `Answers` and `Refuses` are
frames of the server; each runs its report up to the first call of a user
callback and leaves what remains in `report`. `Returns` is the rest, once the
callback is back; between the two the user may do anything (`Declare`, `Publish`,
`Close`, `Destroy`, ...). `alive` is what `Monitor` tells. The methods of
`channel.h` differ in the frame they send and the class of their `Deferred`; here
what counts is whether they are answered.

`DeferredKinds` has one `Deferred` of any class, `slots` its members for
callbacks. `AmqpDelivery` sends messages in frames cut anywhere, and lets
consumers come and go, and register callbacks, between any two. `AmqpValues`
writes the properties of a message to bytes and reads them; a byte has `Byte`
values instead of 256. `AmqpAddress` compares `Read` with two ways of printing.

### `EventLoops`: `LibEv`, `LibPoll`, `LibBoostAsio`, `FdWatch`

`wrapper[c]` of `LibEv` is the `Wrapper` of a connection: its timer (`armed`,
`due`, `repeat`), `_next` and `_expire` as the time that is left until then, and
`refs`, what the timer adds to the loop's count of watchers. `beat` and `seen` are
observers: the time since the last heartbeat and since the last data. `Poll` is
an iteration of the loop, which leaves events in `active` and timers in `fired`;
`OnActive` and `OnExpired` call them back one by one, and while they do the
connection may change or withdraw any descriptor, be negotiated, become ready,
be lost or be destroyed (`Reactions`). `LibPoll` has the watchers of libuv and
libevent, which differ in how errors are told and are else the same, with the
owner of each descriptor beside. `LibBoostAsio` has the two flags of each
direction and counts the operations under way. `IsFdWatch` maps the watchers to
the interest of `FdWatch` and the calls of `process` to its steps.

## 3. Runs

| run | bounds | shows |
|---|---|---|
| `tcp_faults` | 2 links, 2 faults, 7 frames | the safety of the transport under failures, `IsPipe`, and, until a link fails, that data is received, the login completes and every frame arrives (`ReceivesUntilFault`, `LoginCompletes`, `FramesDelivered`) |
| `tcp_receive_after_failure` | 2 links, 1 fault | **violated**: a reconnection is never read |
| `tcp_finit` | 1 link | **violated**: `Finit` may leave the socket open |
| `framing_stream` | 5 frames of 8 to 15 bytes, reads of up to 20 bytes, 2 exceptions, one frame malformed or none, any frame a close-ok | no frame lost, held back or, before an exception, repeated; the loop ends unless it is `Stuck` |
| `session_messages` | 1 message, 1 refusal of `consume`, release, loss and reordering, 2 frames in flight, 7 channels | acknowledgements, consumers, honest status, no channel leaks |
| `session_refusals` | 1 refusal, of `bind` or `consume`, 12 channels, a queue with a fixed name | the program never comes to rest without consuming; its start never misses a ready channel |
| `session_own_message` | 1 message | **violated**: the message of `main.cpp` is not received |
| `session_loss` | a lost link | **violated**: the loss is never reported |
| `session_ready_race` | reordering | **violated**: `ChannelOkCb` may never run |
| `amqp_objects` | 5 requests; 3 callbacks; 2 messages of up to 3 bytes, 3 changes of receivers; 2 properties; every address over 2 words and 3 ports | the list of a channel, its verdicts and its order; which callbacks are called; messages arrive whole; what is written is read again |
| `event_loops` | libev: 1 connection, 1 descriptor, intervals 0, 1 and 4 s, a loop up to 0.5 s late; libuv and libevent: 2 connections, 2 descriptors; boost::asio: 1 descriptor, 3 operations | the handlers implement `FdWatch`; the timer of libev; asio keeps an operation for what is wanted |
| `libev_timer` | 1 connection | **violated**: the timer of an idle connection outlives it |

Why the bounds are enough. Two links and two faults let a read and a write of one
link fail apart and let the reconnection of one meet the other's socket; a third
link only repeats the second, since the write queue is then stuck for good. Two
reads can hold part of a frame, several frames, or both, and 20 bytes span three
of the small ones. One refusal of `bind` already makes three replacements, each of
which sets up its channel. `MaxChannels` stops the worker before a callback that
could exceed it, in a state that is not `Quiet`, so `SettlesConsuming` speaks of the
cascades that come to rest within 12 channels. That of one refusal does, of `bind` and of
`consume`, except where both threads ran the setup of the same channel before it was
refused; `AlwaysConsumes` (section 4) is for any number of refusals and channels.
`MaxInbox` 2 lets one answer wait behind another.
Five requests are a close with one before and three behind it, or three that wait
while one is reported to. A body of three bytes comes in up to three frames, so one
that is pointed to, one that is copied and one in between; three changes stop a
consumer, start it again and give it a callback in the middle of a message. Two
connections and two descriptors let one connection close a descriptor and the
other get its number while the loop holds events for both. Intervals of 1 and
4 seconds are on both sides of the code's `max(timeout / 2, 1)`; a second
connection shares nothing with the first but the loop, and the proofs are for any
number of both. `MaxRefs` only caps a count that the leftover timer of
`libev_timer` raises for ever; `MaxOps` caps the operations of one watcher. A
library that is not used stays as it is, and a part of `amqp_objects` that is not
in question too, so one run asks each of them everything at the cost of their sum.
`tcp_faults` has no deadlock: a stopped instance stutters explicitly. The framing
stops when the stream has been parsed, a session when the broker and the user have
nothing more to do, the parts of `amqp_objects` when their bounds are used up and
libev when its connection is gone, so those runs do not look for deadlock.

### Fairness

* `TcpMgr`: the worker thread runs, since `m_work` keeps `io_service::run` from
  returning; the system completes the operations it can. A connect is tried
  again every second, so a broker that accepts one now and then accepts one in
  the end: strong fairness on `ConnectOk`. Nothing is assumed of the user, of
  `Finit` or of the failures.
* `AmqpFraming`: the loop goes on, on the worker, which nothing holds up.
* `MqSession`, for `session_own_message` and `session_loss`: the worker runs the
  callbacks, a start that has begun goes on, and the broker serves what it is sent.
  The user need neither publish nor release, and the broker need not refuse.
* `EventLoops`: the program runs its loop (`Poll`, `Callbacks` for libev,
  `Handler` for asio) and time passes. `Tick` has strong fairness because the loop
  may turn for events again and again between two ticks: each turn takes time, which
  adds up. Descriptors need not be ready, except for `Served`, which is about
  what happens when they are. The connections need not do anything.
* `AmqpObjects`: user callbacks return (`Returns`), and the server answers what it
  is sent (`Answers`); it need not refuse.

### What the violations mean

1. **A reconnection is never read.** `HandleRecv` pops `m_pending_recvs` only on
   success (588), so after a failure `DispatchRecv` finds it not empty and starts
   nothing. The repository's own `README.md` notes that reconnection fails for
   ever after the first failure. With `recvs' = recvs - 1` in `HandleRecvErr`
   both this run and `tcp_faults` hold within their bounds; but `m_parseBuf`,
   whose content this module leaves out, would still start with what the old link
   left unparsed, and no code empties it.
2. **`Finit` may leave the socket open**: it stops the `io_service` after only
   posting the close.
3. **The program's own message is not received**: `StartMqInstance` returns
   before the broker has answered, `m_channelPub` is null until `ChannelOkCb`.
4. **A lost link is never reported**: `AMQP::Connection::fail` is not called, so
   `m_connection` stays usable, `GetMqConnection` never takes the new
   connection, and the last status the user saw is `true`.
5. **The ready callback can be missed**: `CreateMqChannel` registers it after the
   open frame has been sent, on a library whose channels are not thread safe
   (364).
6. **The timer of an idle connection outlives it**: when the server was silent
   for too long `onExpired` resets `_next`, `_expire` and `_timeout` and closes
   (`libev.h` 256), but the timer repeats and is not stopped; `timed()` is false
   from then on, so the destructor takes it for stopped (334-336). It expires on
   a `Wrapper` that is freed. Until then each expiry calls `ev_ref`, because a timer
   that expired is no longer counted (235-236); but this one repeats, so the loop
   counts one watcher more each time and does not end, although "the timer should not
   keep the event loop active" (319). `LoopCountsWatchers` says that the count is
   never too high in any other case.

No violation, but worth knowing: one refusal replaces several channels. Every
request that waits fails with the channel, and each callback makes a channel,
the later ones replacing channels that are usable. Each of them runs the whole
setup when it opens, so several setups, and consumers, end on the last one. When the
cascade is over the program consumes, which `SettlesConsuming` shows; that it is
ever over is not checked.

The two chains of connects that `ReconnectChains` allows do occur. What keeps
them from growing is the other defect of the queues: after a failed write the
message stays in front of `m_pending_sends` and no second write is ever started.

Other things the models show, without a run of their own:

* The loop of `ParseAmqpData` may not end: it goes on while `m_parseBuf` holds
  `expected()` bytes (607), and a connection that is closed, or before a malformed
  frame, takes none of them, although `expected()` is what the next `parse` needs "to do
  something meaningful with it" (`connection.h` 189-190). The worker then never leaves
  the handler (`Stuck` and the theorem `StuckForEver`).
* `reportReady` flushes the queue after the user's callback, and `flush` starts by
  forgetting that a request is synchronous, so one more may be sent behind one that
  is not answered (`SentInTurn` says how far this goes).
* The `Deferred` of a second `close()` of a closed channel is never told anything
  (`Answered` excepts it).
* `DeferredGet::onError` hides the one that calls a late callback at once
  (`deferredget.h` 112), so a `get` that has failed already tells nobody
  (`ErrorsTold` excepts it). "Successive calls to this function will clear
  callbacks registered before" (`deferred.h` 230) does not hold between the two
  kinds of `onSuccess` of a derived class: the one of its own is called.
* `Message::append` says "true if the message is now complete" and says false for
  a body that comes in one frame (`message.h` 128); no header looks at it.
* A `ShortString` of more than 255 characters is written in full behind a length
  that is cut (`stringfield.h` 159): no overrun, but the rest is misread.
* `amqps://` with port 5672 loses its port when it is printed (`address.h` 230).
* The handlers for libuv, libevent and boost::asio accept the interval of heartbeats
  that a server proposes (`tcphandler.h` 121) and send none.
* `Addresses` does not compile (`addresses.h` 45, a `const char *` from `memchr`),
  and would drop the last character of every address but the last one.
* A `Channel` that was moved from calls `close()` through null when it is destroyed
  (`channel.h` 53-62).

## 4. Proofs

Eight modules prove, for every value of the constants that the assumptions allow,
what the runs check on small ones.

* `TcpMgr`. `IInv` is type correctness, `OneTransferEach`, `RecvBacklog`,
  `StartedTracksLink` and `Chains`. `ReconnectChains` is not inductive: a
  connect is one form of a chain, and the others (a queued `DispatchRecv`, an
  outstanding read) become a connect when they fail. `Chains` counts all three,
  at most two, and at most one while a write can still fail, since only a failed
  write starts the second. The handlers in the strand are counted by
  `Cardinality`; the lemmas `CountConcat`, `CountOne` and `CountRun` say how the
  counts change when the head leaves and handlers join, and one lemma for each
  action does the arithmetic.
  `OwnBytesOnly` holds because reads and writes end early: a receive or a send that fails stays at the front of its queue, and none is ever started
  again. So a second AMQP connection, which needs a failure, finds one of them dead
  (`FirstLink`): with reads dead nothing is parsed, with writes dead the broker is sent
  no header and sends nothing back (`WireOfFirst`, `ReadOfFirst`). `LinkStep` says what
  any step does to the counts this rests on. `ReceivesTillFault` needs all that can
  precede the first fault (`Undisturbed`, `QuietBeforeFault`): connects that fail, the
  one that does not, its header on the way, and then frames that are not a header.
  `ImplementsPipe` is the refinement. The mapping takes for `out` what is left in
  `m_pending_sends`, without a front that was written and not popped yet, then
  the frames of the queued `SendMsg` handlers (`FramesOf`). `SendMsg` and
  `HandleWrite` leave it as it is, since a write that succeeded is the only one
  and its frame still heads the queue (`WrittenMeans`, from `OneTransferEach`);
  `async_write` takes its head; every other step adds frames at the back or
  none. `FramesOf` is a recursive function of the queue's length. That the frames
  of two queues in a row are those of the first and then those of the second
  (`FramesConcat`) is an induction, done with a set of numbers in the place of a
  predicate: `RangeInduction`, from the library's `WFMin`.
* `AmqpFraming`. `IInv` says that `base` and `pos` are ends of frames
  (`AtFrames`), how often a frame behind and ahead of `pos` has been processed
  (`Counts`), and that `want` never exceeds the next frame unless its bytes are
  there already (`WantsLittle`), which is why nothing is held back.
  `NoFrameHeldBack`, `LoopAdvances` and `StuckForEver` are action properties, from the
  same invariant. `LoopAdvances` is what `LoopEnds` rests on: a turn of the loop that
  does not move `pos` makes `want` larger, and `want` stays within the size of the
  next frame, unless the loop is `Stuck`. That it is then left is liveness and checked by
  TLC. `StuckForEver` is the other side: from a state that is `Stuck` no step changes
  anything, so those are the only states in which the loop does not end.

* `MqSessionProofs`. `IInv` says of every channel (`Fine`) that it is usable only if
  `m_channel` or `m_channelPub` holds it; that the broker has closed what the program
  thinks closed, and has closed or will what is closing; that its requests declare a
  queue before they consume; and that only `m_channel` consumes, or asks to, unless
  it will be closed. The last two need each other's history: `ChannelOkCb` makes its
  requests on the `m_channel` of the moment, and an error callback may replace that
  before they are served, which is why a replaced channel must carry its close behind
  them. A frame that says closed is on the way only from a channel the broker has
  closed (`Sent`). One lemma for each action; `RenewMain`, `RenewPub` and
  `RequestClient` are about the three things callbacks do to channels.
  `ReadyNoticed` assumes `~MayReorder` and adds `Noticed`: until `ChannelOkCb` has
  run, an `m_channel` that is ready is one that the start has still to look at, or
  its callback waits (`Waits`). With `MayReorder` the property is false, as the run
  `session_ready_race` shows, so the theorem says that nothing else can break it.
  `OneKeeper` (`Orderly`) is about the time between a request and its answer: only
  `m_channel`, and not even that one while its error callbacks run, has requests of
  `ChannelOkCb` under way or consumes (`Keeper`), and nothing of a channel comes
  behind its last word (`LastWords`). A delivery is therefore behind the answer
  that made `m_channel` what it is, and `AcksOwn` follows: `AckMessage` finds the
  channel that delivered. `StatusTrue` needs to know what is still to come: after the
  user was told `true`, `m_channelPub` is usable or its error callback has to run, and
  `m_channel` consumes, or its request to, a refusal of it or an error callback is on
  the way (`Comes`, `Told`). The lemmas on `Active` and `AnswersBehind` say
  that taking one answer or adding one request loses none of these.
  `AlwaysConsumes` rests on the same invariant: while a session has not told `true`,
  either what is to make `m_channel` consume is on the way (`Comes`), or its setup is
  still to begin (`Opens`), or an error callback is to replace it, and when it is closed by
  the broker the program hears of it (`Heard`). So when nothing is under way
  `m_channel` consumes (`AllQuiet`). It assumes `~MayReorder`, since a ready callback
  that is missed leaves a session that never sets anything up.
* `AmqpObjectsProofs`. Three invariants of the channel. `Linked` says that the list is
  what was made last: from `_oldestCallback` on, each `Deferred` is followed by the
  one that was made next, the newest by none, and all before it have been told
  something. A report tells the oldest (`Reporting`), so that the list may go on
  behind it when the callback has returned, whatever was linked meanwhile. That
  every `Deferred` from the oldest on is reached is an induction
  (`LinkedListed`). `TurnInv` says why no more than two synchronous requests are
  ever unanswered: a second one is the last of all and what follows is held back
  (`Held`), since the flush after `reportReady()` and the one before an answer is
  told start with at most one. `Requested`, what was sent and then what is queued,
  is in order, and a flush does not change it. `VerdictInv`, behind `OwnAnswers`,
  counts: `Served` of the requests that were answered and `Asked` of all requests have
  a `Deferred`, and the `Deferred` objects up to `Frontier` have been told something.
  While the channel lives and is not closed the two meet (`Served = Frontier`): the
  next answer is told to the oldest that waits, which is that of its request. A
  `Deferred` that had failed when it was made is behind all that could be sent
  (`InStep`), and an error is told only on a channel that is closed (`ReportEnds`), so no
  success follows one. That sending, queueing and answering move the counts by one
  or not at all are lemmas on `Cardinality` (`CountNumber` and those that follow).
* `AmqpPartsProofs`. `CallsPromised` rests on `KindInv`: each member of a `Deferred` holds the
  last callback that was registered with its method (`Holds`), but that a callback
  for a success is in one of two members, which the classes replace differently
  (`HoldsSuccess`); and until a `Deferred` is told something the only calls are those for
  callbacks that came after a failure at birth (`Untold`). Each way to report a success
  adds calls of its own, so each has its lemma.
  `MessagesComplete` rests on `DeliveryInv`: only the receiver has a message, what it has is
  the part of the message that was sent (`PartOf`), and `left` is the rest
  (`Holding`); of the message under way nobody has heard but its receiver, and only of
  bytes that were sent (`Behind`, `Before`). A frame that is handed on is then behind all that
  was told (`WholeMore`), and the last one makes the message whole (`AppendTogether`), whether the
  body is pointed to or copied. It needs tags to differ from `get`, `returned` and
  `none`, the model's names for what is not a consumer (`AmqpObjectsAssumption`).
  `AddressesReadBack` is about operators alone. `Cut` says what the first separator makes of
  a text: what is before it, what is after it, and how long both are. The lemmas follow
  `Read` from the left, for texts of any length (`AnyReadBack`); the theorem is about
  the texts that the run enumerates, of any words.
* `AmqpValuesProofs`. `WrittenIsReadBack` is `RoundTrip`, for a byte of any size, any names in
  the headers and any number of sets. The invariant is small (`ValueTypes`): each property
  has a value of its kind, each field of the headers one that can be told from its
  bytes (`Proper`), and no entry of the headers is longer than `Byte + 8` bytes, which is
  the longest that a setter makes. The work is in the operators, which are folds over the
  fields, over the entries of a table and over the bytes of a number. What a fold makes
  of every input is an induction over data, and is done here with sets of numbers, as in
  `FramesConcat`: `Recursion` says that a function that is defined of each number by the
  one before exists, `TotalUpTo`, `FlattenUpTo` and `NumberUpTo` that a sum, a flattened
  sequence and a number are what one gets step by step. `FlattenFromFront` turns the
  flattened sequence around: the first part, then the rest, where the rest is flattened in
  its turn. So `fill()` is a first field and the bytes of the others (`FillLayout`), and a
  table is its size and a first entry and the others (`TableLayout`). `TakeFront` takes
  what is in front and leaves the rest; `NextField` and `NextEntry` are one turn of each
  reader; and what a reader has after `i` turns (`AtField`, `AtEntry`) follows for every
  `i`. A table is read in as many turns as it has bytes, of which the last do nothing; that
  there are enough of them is `LayoutGrows`. A length can be read again if it fits:
  `OneByte` for a short string, `FourBytes` for a long one and for a table, which is small
  enough since it has at most `Byte` keys (`TableSmall`). That the buffer has room
  (`FlattenLength`, `FieldRoom`) needs none of this and holds for strings that do not fit
  as well. No field's flag is another's (`OwnFlags`).
* `EventLoopsProofs`. For libev, `EvInv` relates phase, timer and count. A timer is in between
  when it has fired: the loop may have stopped it and counted it (`refs` is -1), and
  `onExpired` will make up for that. So `Counted` distinguishes a wrapper that is
  timed and not fired (the timer runs, `refs` is 0), one that is timed and fired,
  and one that is not timed, whose timer, if it runs on, repeats and so is never
  stopped by the loop. `ConnInv` adds what each phase implies: a connection that is
  being set up has its timer; without a wrapper nothing is watched. The other half
  of `EvInv` is that the loop holds events only for what is watched (`Waited`), from
  which the refinement follows.
  `LoopCountsWatchers` follows: the loop never
  counts too few, and a surplus is of a timer that is not needed any more. The surplus
  does occur, see `libev_timer`.
  The moments of the timer are in `Clocks`: `_next` is half an interval behind the
  last byte sent, `_expire` an interval and a half behind the last byte received, and
  a timer that has not fired is due no later than either. Data that arrives moves
  `_expire` and not the timer, which then comes too early and is set again; it never
  comes too late. How late the loop may be enters in one place, the guard of `Tick`.
  For libuv and libevent: a watcher keeps the connection it was made for, so
  `WatchedForOwner` needs that a descriptor without an owner has no watcher
  (`Owned`), and `CallsOwner` that the loop holds events only for descriptors that
  are watched (`Awaited`): what it held for an earlier owner was dropped.
  For boost::asio, `Good` says that the pending flags are true
  and cover what is wanted; inside a handler, which has cleared a flag, it holds but
  for that one (`GoodBut`), whatever the connection does to its watcher meanwhile.
  `ImplementsFdWatch` puts the three handlers together. The refinement
  mapping is the interest of each watcher and the last call of `process`; every
  step of a handler is a `Monitor`, a `Process` or a stutter of `FdWatch`.

Assumptions: `BoundsAssumption`, `SessionAssumption`, `EventLoopsAssumption`, `AmqpObjectsAssumption`, and the framing's
assumption that frames are at least 8 bytes apart. `AmqpObjectsAssumption` says of a byte
that it has more than 10 values, since the class of a field, one of eleven, must fit into
one; 2^8 in the code, 12 in the run. Every invariant and every action property that a
run expects to hold is a theorem. Only model-checked is liveness (`LoginCompletes`,
`FramesDelivered`, `LoopEnds`, `ConnectTimesOut`, `ClosingEnds`,
`Served`, `Answered`): it needs fairness and `ENABLED`, which the prover does not handle.

No module declares a recursive operator.

## 5. Not modelled, and abstractions

* Bytes of frames, text of errors, logging, the one second pauses.
* `SetQosValue`, which nothing calls, and `MqInfoInit`, a copy.
* In `MqSession`, the transport is a reliable FIFO until `LinkLost`, after which
  nothing is answered. The late frames of an old AMQP connection that the new
  TCP connection would carry are in `TcpMgr` (`CleanWire`, `Farewell`). A
  release that crosses a lost link keeps the old connection.
* Redelivery of messages that were not acknowledged: `received` is the set of
  messages that came at least once.
* A channel beyond the 65535 that a connection can number, and whether the channels
  that one refusal leads to are ever at an end.
* What an old link left unparsed in `m_parseBuf`: `TcpMgr` has frames, not bytes. The
  present code parses nothing behind it, since after any failure the reads or the
  writes have stopped for good.
* What `PublishMsg` returns: `true` also when `publish` refused (395).
* The binary library: what the source relies on is marked external in
  `PROJECT.json`.
* The registry of channels and the login handshake of an AMQP connection, the
  states of a Linux TCP connection: the headers only declare them.
* `Array`, whose names are places, tables within the headers, `endian.h`, and the classes that only hold
  something (`Login`, `ByteBuffer`, `Envelope` beyond its body, exceptions,
  callback types).
* In `AmqpChannel`: a callback that makes the connection itself fail, so that an
  error is reported inside of the report; that code is in the binary library.
* In `AmqpDelivery`: callbacks that destroy the channel in the middle of a message.
  Returned messages of several publishers are one receiver.
* In `LibEv` a timer that is called after its wrapper was freed: undefined, and the
  loop stops there. The `Timer` of `libboostasio.h` is not used by its handler.
* Times shorter than half a second, and that `ev_now()` stands still within one
  iteration of the loop.

## 6. Plan

1. done: the transport, the framing, the session, the channel with its `Deferred`
   objects and receivers, values and addresses, the event loops; proofs of all their
   invariants and action properties, and of both refinements.
2. left: the wrap of `ReceivedFrame::totalSize`, together with `Array`, if a wire
   format below `AmqpValues` is ever modelled byte for byte.
