# A TLA+ model of libpitaya-cpp

libpitaya-cpp is a client for pitaya game servers: it opens a TCP connection,
does a handshake, sends requests and heartbeats, and tells the application of
events. This directory holds TLA+ modules translated from its C++ source, TLC
configurations that check them on small instances, and TLAPS proofs.

Paths in this file and in the modules are relative to the repository (`src/connection.cpp`,
`include/pitaya/...`). The build modelled is the one of the Makefile's `build-mac`
target, Release: asserts are compiled out and execution goes on after one that
would fail.

## The system

Two threads. The application's thread calls `Client`, which forwards to
`Connection::Start`, `PostRequest` and `AddEventListener`. The worker thread,
started by the constructor, runs the handlers of one boost::asio `io_context`,
one at a time and in the order in which they became ready. `PostRequest` only
posts to it; `Start` works on the socket from the application's own thread.

| Component | State | Operations | Interacts with |
|---|---|---|---|
| Packet (`protocol/packet`) | none | `SerializeInto`, `PacketTypeFromByte` | both stream paths |
| TcpPacketStream, receiving | `_readBuffer`, `_readBufferHead` | `ReceivePackets`, `ReadToBuffer`, `ParsePacketsFromReadBuffer` | socket, Connection |
| TcpPacketStream, sending | `_packetSendQueue`, `_writeId`, `_writeBuffers` | `SendPacket`, `SendNextPacket`, its completion handler | socket, Connection, State |
| AsioTcpSocket | the asio socket | `Connect`, `Shutdown`, `Close`, `Receive`, `Send` | TCP |
| Connection | `_reqId`, `_inFlightRequests` | `Start`, `PostRequest`, the handshake, `ReceivePackets`, `ProcessPacket`, `ProcessMessage`, the two error paths, request timeouts | everything |
| State | `Inited` or `Connected` with two timers and the route dictionary | `SetInited`, `SetConnected`, `HeartbeatTick`, `ExtendHeartbeatTimeout` | Connection |
| Request | a handler and a timer | constructor, destruction | Connection |
| EventListeners | the listeners | `Add`, `Broadcast` | the application |
| Message (`protocol/message`) | none | `NewRequest`, `SerializeInto`, `Deserialize` | Connection, gzip |
| gzip (`utils/gzip`) | the locals of `Decompress` | `Decompress`, `IsCompressed` | Message, Connection, zlib |
| Client | a Connection | `Connect`, `AddEventListener`, `Request` | the application |
| example | a semaphore | `main`, its listener | Client |
| SplitHostAndPort, error codes, logger | none | | |

What makes it hard: reads that cut the stream anywhere; a queue of packets and
a queue of posted calls that must stay in step; completions that arrive after
the connection they belong to has ended; timers whose handlers are already
queued when they are cancelled; an application that starts again at an
inconvenient moment; two clocks, one of which may be set; a thread that starts
before its object is constructed, and a destructor that waits for it; error
paths that do only half of what they say.

## Modules

| Module | Models |
|---|---|
| `Packet` | the wire format: type, three length bytes, body |
| `TcpPacketReader` | the receive path; one action is one completion of `async_receive` or one iteration of the parsing loop |
| `PacketChannel` | what `PacketStream::ReceivePackets` promises: packets in order until the connection fails |
| `TcpPacketWriter` | the send path and the socket's write queue |
| `PacketSender` | what `PacketStream::SendPacket` promises: each handler once, in order |
| `Connection` | Connection, State, Request, Broadcast, and the stream as seen by them |
| `ClientContract` | what `Client` promises its application: events and answers |
| `Heartbeat` | State with time: two timers on two clocks |
| `Message` | the bytes of a message, written and read, as operators |
| `Gzip` | the loop of `Decompress` around zlib and realloc |
| `Decoder` | `Message` and `Gzip` together: from a request to what the client makes of the reply |
| `Lifecycle` | `Connection` inside the program: constructor, worker thread, `main`, destructor |
| `MC...` | instances for TLC, and the properties that the source states and the code does not have |
| `TcpPacketReaderProofs`, `TcpPacketWriterProofs` | the proofs of the two paths of the stream |
| `ProtocolProofs` | the proofs of `Heartbeat`, `Gzip`, `Message` and `Decoder` |
| `ConnectionProofs` | facts about sequences; of `Connection`: heartbeats, reads, ids, requests and responses |
| `AccountProofs` | builds on it: the count of pending handlers and the account of the requests |
| `TypeProofs` | builds on that: the types of `Connection` |
| `AttemptProofs` | builds on `AccountProofs`: attempts to connect, ends, what a connection leaves to the next |
| `LifecycleProofs` | builds on `AttemptProofs`: one reader, the program, the contract |

How they fit together: `Connection` relies on what the reader and the writer
are shown to provide (`PacketChannel`, `PacketSender`), and provides
`ClientContract`. `Lifecycle` extends `Connection`: its steps are steps of
`Connection` (`LifecycleImplementsConnection`). `Decoder` extends `Gzip` and
uses it as `GzipSpec` allows (`CallsDecompress`). `Heartbeat` looks at the
timers of `Connection` alone, with durations; its guard of `SetConnected`, that
no handler of an old timer is left, is what `Connection` checks, for timeouts and
for ticks, as `TimeoutOfThisConnection`.

An operator introduced by a comment "Mutant of X" is X with a bug. Put in the
place of X it makes one of the properties fail, which shows that the property
depends on X. Nothing else refers to it.

### TcpPacketReader

`readBuffer`, `readBufferHead`, `packetStartOffset` and `packets` are the
variables and locals of that name. `stream` is what the server sends on the
current connection: a sequence of packets with its bytes. `ReceiveBytes(n)` is
a completion with any number of bytes that the buffer and the stream allow;
zero when the buffer is full, as asio does. `ReturnPackets` is both early
returns of the parser with the rotation, and what `ReadToBuffer` then does. A
HandshakeAck falls through the switch without advancing: the model goes to
"spinning" and stays there. `Reconnect` keeps the buffer, as `Connect` and
`Disconnect` do.

### TcpPacketWriter

`posts` holds the handlers bound in the posted calls of `SendNextPacket`,
`packetSendQueue` the packets: the code keeps them apart and so does the model.
`sends` is the write queue of the socket, `completions` the completion handlers
ready to run. A write may be short, because `async_send` is a single write, and
one that has to wait may send other bytes, because `AsioTcpSocket::Send` takes
its buffer by value (undefined behaviour, so a choice).

### Connection

`ioQueue` is the queue of the io_context. An action named `On...` runs the
handler at its front. A handler is one step, except that `work` holds what is
left of it after an event was broadcast (`Disconnect`, and the next
`ReceivePackets`) or while it goes through the packets of one read, so that the
application can call `Start` in between. The stream is reduced to what the two
modules above establish: the send queue is the posted `SendNextPacket` calls in
`ioQueue` (PostsMatchQueue), and a read gives whole packets (ImplementsChannel).
What is lost by that, bytes kept over a reconnect and packets longer than the
buffer, is what the violated properties of the reader show.

A packet is its type, and a route dictionary, or a request and its id, where
these matter. "BadHandshake" stands for every response that `Decompress`, the
JSON parser or the checks of `SendHandshakeAck` reject, "BadData" for every
message that `Deserialize` rejects. Timers are pending or not; they may expire
at any time. `SetInited` destroys the timers of `Connected`, which cancels
waits that have not expired; handlers already in `ioQueue` stay.

`Restart` says when the application calls `Start` again: "when idle" (it heard
that the attempt ended, and the worker is at rest), "after event" (as soon as
it heard it), or "anytime". The source has no rule, so the runs say for each
property under which use it holds.

`lost` holds requests that `SendPacket` ignored because its queue was full.
`abandoned` says that the attempt ended in one of the places where nobody is
told: an invalid handshake response (`ConnectionError` does nothing before the
state is Connected), an acknowledgement that could not be sent, a full queue.
`alive` becomes false when `routeDict.at` throws out of the worker.

### Heartbeat

`tick` and `timeout` are the waits on the two timers: none, pending, or ready,
when the handler is queued and cannot be cancelled any more. `heartbeatTimer`
is a `steady_timer` and runs on `now`; `heartbeatTimeout` is a `system_timer` and
runs on `now + skew`, and `SetWallClock` changes `skew` at any time. A handler
runs at most `MaxLag` after its timer has expired. `ExtendTimeout` is `expires_at`:
it cancels the wait and starts none.

### Message, Gzip and Decoder

A route is the sequence of its bytes and a dictionary a function to codes.
`ReadHeader` is `Deserialize` up to the data, with what the code really does:
the route code is cut to a byte, and a route sent as a string is built by a
constructor of `std::string` that repeats a character. The server's reading and
writing of messages (`Server...`) is the reference.

Of compressed data only sizes matter: `inflate` writes its output in order, so
what is in the block is a prefix of the content. A stream is whole, truncated
or corrupt; the content of a truncated one is what can be inflated of it.
`Realloc` and `Inflate` are the two halves of a round of the loop; either may
fail. `realloc` returns a block for size zero, as it does on macOS.

### Lifecycle

`main` is where the main thread stands, from the constructor through the
`main` function of `src/example.cpp` to the destructor. The worker runs the
handlers of `Connection` and returns from `run()` when the guard is gone and no
handler, operation or wait is left (`HasWork`). The constructor is two steps:
the initializer of `_workerThread` starts the thread, and the members declared
after it are constructed later.

External behaviour, from how the source uses it (boost::asio): a handler is
never called inside the function that starts its operation; handlers run in the
order in which they became ready (taken from the kqueue reactor of the macOS
build; ResponseReachesItsRequest rests on it, because the completion of a write
must run before that of the read that brings the answer, and the reactors of
other systems may promise less); `close` completes what is pending with an
error, reads first; `async_connect` closes the socket and opens it again; a
receive or send on a connecting socket waits; on a closed one it fails; a
connect handler that runs after the socket was closed reports an error.

## Runs

Deadlock is not checked anywhere: the bounds (packets, requests, starts) are
used up and the system then rests, as the real one does when nobody calls it.

### Passing

| Run | Instance | Shows |
|---|---|---|
| `reader` | streams of up to 2 packets of 6 kinds, buffer of 9 bytes, 2 connections, fair | TypeOK, Framing, NothingHeldBack, RoomToRead, AllDelivered; the reader implements PacketChannel |
| `writer` | 3 packets, queue of 2, 2 connections, fair | TypeOK, PostsMatchQueue, BuffersAccounted, NextIdFree, AllCalled; the writer implements PacketSender |
| `connection` | 2 requests, up to 2 packets in a read (handshakes, kicks, responses), queue of 2, 2 starts, "when idle" | TypeOK, RequestAccounted, ResponseReachesItsRequest, IdsIdentify, OneReader, EndedIsClosed, StartHasSocketAlone, RequestTimed |
| `connection_restart` | 1 request, every kind of packet but pushes and messages that cannot be decoded (`lifecycle` has them), a dictionary that may be empty, queue of 1, 2 starts, "after event", fair | StateMatchesEvents, TimeoutOfThisConnection, HandshakeUndisturbed, HeartbeatScheduled, ConnectedIsReading, RequestAnswered, AttemptResolved; Connection implements ClientContract |
| `heartbeat` | intervals 0 to 2, factor 3, lag 1, skew up to 2, 13 units of time | HeartbeatsKeepPace, EndedOnlyBySilence, MuteServerGivenUp |
| `decoder` | ids of one to three digits, codes of one and two bytes, plain payloads of 1 to 4 bytes, compressed ones of 0, 3 and 4 bytes for contents of 0 to 17, fair | InflatesInBounds, DecompressedWhole, RequestIsRead, ReplyIsWhole, ReplyIsNamed, Decodes; Decoder implements GzipSpec |
| `lifecycle` | the example with 1 request, every kind of packet, up to 2 in a read, queue of 2, fair | DestroyedQuietly, ProgramEnds |

Why the bounds are enough for the cases that matter.

- Reader: one kind of packet fills the buffer of 9 bytes exactly, one is longer,
  and shorter ones leave part of the next packet behind, so that every cut,
  rotation and carry-over happens; bodies look like headers, so that a wrong offset
  shows; an acknowledgement and an unknown type reach the other branches.
- Writer: a queue of 2 fills, overflows and drains, with writes pending, failed
  and completed at the same time on either side of a reconnect.
- Connection: two requests are enough for one to take the place of another, two
  starts for anything of the first connection to meet the second; a heartbeat
  (MaxHeartbeats = 1 under way) and a request fill a queue of 1 or 2. Requests
  are interchangeable in `connection`, which uses symmetry.
- Heartbeat: 13 units hold two timeouts of the longest interval (6) with the lag, and
  several connections with the shorter ones; an interval of zero makes every
  timer expire at once.
- Decoder: the block grows by twice the input, 6 or 8 bytes. Contents up to 17
  fall short of one, two and three rounds, fill them exactly, or exceed them.
- Lifecycle: one request and one start are what the example makes.

### Fairness

Weak fairness of the worker: the operating system runs the thread, and
`io_context::run` runs what is ready. Weak fairness of a pending connect or
write ending in success or failure, and of timers expiring: TCP and the clock.
Reader: the client asks for packets again after each batch (`Connection::ReceivePackets`
does), and bytes that were sent arrive. Decoder: the code runs on. Lifecycle: both
threads run; the rest as for Connection. Nothing is assumed of the server: no fairness
on what it sends, so that RequestAnswered rests on the request timer alone, and
ProgramEnds has a server that keeps the connection up as one of its outcomes.

### Violated

Each of these properties states what a comment, a log line or an assert says;
TLC shows a behaviour of the code that contradicts it. `PROJECT.json` quotes the
lines.

| Run | What happens |
|---|---|
| `reader_stale_bytes` | bytes of an old connection are parsed in front of the new one's |
| `writer_dangling_buffer` | a write that waits reads a buffer that is gone |
| `heartbeat_silent_server` | after one heartbeat from the server the timeout is cancelled for good, and a server that then falls silent is never given up |
| `decompress_failure` | data that cannot be decompressed are taken for a message, because `inflateEnd` returns zero |
| `worker_thread_id` | the worker's thread id is overwritten by the constructor, and the assert of the connect handler fails in a debug build |

Other behaviours one might not expect are in the model without a run of their
own. The properties that hold name them as exceptions where they matter.

- A packet longer than the buffer ends in reads of zero bytes, for ever (`ReceiveBytes`).
- A read with two packets fails the assert of `src/connection.cpp:397` in a debug
  build (`OnReceive`).
- A HandshakeAck from the server makes the parsing loop endless (`ParseUnexpectedPacket`).
- A short write is reported as success (`TcpPacketWriter`).
- Requests and heartbeats still queued when a connection ends are written on the
  next one, before its handshake, when the application starts again at once
  (`HandshakeUndisturbed` says that none gets behind or into the handshake).
- A message with the gzip bit and no data keeps `Decompress` in its loop for ever,
  as long as `realloc` gives a block for size zero (`Decodes`). With glibc, where
  it frees the block and returns NULL, the loop ends at once.
- A compressed body that was cut short is accepted: `Decompress` returns zero with
  what it could inflate (`DecompressedWhole`).
- With a full queue a request is never answered (`lost`).
- An invalid handshake response, or one of several packets or of another type,
  leaves the socket open; the invalid one also gives no event (`abandoned`).
- A route outside the dictionary ends the process (`alive`).
- `NewRequest` drops the data of a request, and `SerializeInto` writes no type
  bits, which is right only because a request has type 0.
- A pushed route is not read as it was sent when it comes as a string or with a code
  above 255 (`ReplyIsNamed`). The client ignores pushes.
- The destructor waits as long as the server keeps the connection up, and the
  example waits for ever when its attempt fails (`ProgramEnds`).

## Proofs

For every value of the constants, from the assumptions named in the modules.
A proof module begins with `USE SMTT(30), ZenonT(30)`: the provers may take 30
seconds over a step that names no prover. Nearly every step takes far less.

**Reader** (`ReaderAssumption`: a positive buffer size, and streams whose bytes
are those of `SerializeInto`, with bodies that three bytes can measure).
`ReaderTypes`, `ReaderFraming`, `ReaderHoldsNothingBack`: the invariants for any
buffer, any streams and any cuts. Framing is not inductive: it says nothing of
the bytes in the buffer. `IInv` adds that, as long as no old bytes were kept,
the first `readBufferHead` bytes of the buffer are the last ones received, that
the parse offset stands at the start of a packet of the stream, that the locals
are reset between parses, and that the packet at the front is incomplete while
the reader waits. The lemma `TakePacket` shows that one iteration of the loop
takes exactly the next packet sent, from `LengthRoundTrip` (the length bytes
written are the length read). `ReaderImplementsChannel` is the refinement, over any number
of connections: on a connection that kept old bytes or whose stream has packets
no server sends (`Sound` is false) the abstract channel counts as failed, and on
every other one each step of the reader delivers the next packets, fails,
connects or does nothing. That kept bytes do break a connection is the run
`reader_stale_bytes`.

`ReaderHasRoom` needs, besides, that what is kept in the buffer is part of one
packet, and so less than a packet that fits.

**Writer** (`WriterAssumption`: positive bounds). `WriterTypes`,
`WriterPostsMatchQueue` and `WriterHandlersInOrder` (every accepted packet is
called, completed, pending or posted, in the order of submission) with the inductive invariant
`OrderInv`, their conjunction: the order of handlers is preserved only because
the front of `posts` is the front of the queue. `WriterImplementsSender` follows:
`Complete` calls the first handler not yet called, and every other step is a
submission or a stutter. `WriterBuffersAccounted` and `WriterNextIdFree` use
`BufferInv`: all ids in use are below the next one, and no two writes share one, or
the erase of one completion would take the buffer of another.

**Heartbeat** (`HeartbeatAssumption`: all constants are natural numbers).
`HeartbeatTypes`, `HeartbeatPace`, `HeartbeatSilence` and `HeartbeatMute`, for every interval,
factor, lag and skew. The inductive invariant says that while connected the tick
is always set for one interval after the last heartbeat (`TickRuns`), and that the
timeout stays set for its first expiry until the server is first heard of, and not
longer (`TimeoutRuns`): that is also why a server that falls silent later
is not noticed.

**Gzip** (no assumption). `GzipInBounds`, `GzipWhole`, `GzipEnded`, for input and
content of any size. The inductive invariant `LoopInv`: in the loop
`size_uncompressed` is what inflate has written, and the block has room for it and
for the round under way.

**Message and Decoder** (`IdsAssumption`: ids below 128^3, the range of the
server's reading as modelled; `RoutesAssumption`: two-byte codes, one route for
each, and plain routes that one byte can measure; `PayloadsAssumption`: what is
not compressed is its own content, what is compressed has a zlib header or is
empty). `DecoderRequestIsRead`, `DecoderReplyIsWhole`, `DecoderReplyIsNamed` and
`DecoderCallsDecompress`. The first part is about bytes. The digits that the loop of
`SerializeInto` writes exist for every number (`VarintDefined`, by
well-founded induction) and are those of the id (`IsDigits`); the digits that
the server writes are too (`ServerDigitsFacts`). The sums that the loop of
`Deserialize` forms exist for every buffer (`IdSumsDefined`), and over a buffer that
begins with the digits of an id they give that id back. From there on `Understood` says what the
server made of a request, and `HeaderFits` what the client makes of each kind of
reply: where its body begins, and that what is left of the buffer is as long as
the body sent. The second part is the inductive invariant `DecoderInv`, which
says at each of the five places of the round trip which of these facts hold. It
is kept together with `DecompressInv`, because the size a message is
given after `Decompress` is whole only by what is proved of its loop; the same two
steps give the refinement.

**Connection** (`ConnectionAssumption`). `ConnectionHeartbeats` and
`ConnectionReads`, for any requests, packets, bounds and use of `Start`. Both speak of
the queue, so that the invariant adds that queues are sequences and that a
successful read carries packets; the argument is that every step keeps what it
does not run (`Kept`). `ConnectionTimesRequests` needs no more.

The rest rests on one count. Every handler, whether ready to run in `ioQueue` or
waiting in `sends`, `recvs` or `connect`, belongs to a class: the attempt to
connect, the reading of packets, a request, or none of these (`TaskClass`,
`HandlerClass`, `ReaderClass`). `Pending(c)` is the number of handlers of class
c, wherever they are. The lemmas of `AccountProofs` say what a step
does to it: the completion, the failure or the cancellation of an operation moves
a handler and keeps the count, also in `Disconnect` and `Start`, which cancel
everything at once (`AbortPending`); only the step that begins or ends an
activity changes it.

*Requests* (`ConnectionProofs`, and `AccountProofs` for the account), with calls of
`Start` at any time.
`ConnectionIds` needs that every id in sight is below `reqId` (`SmallIds`).
`ConnectionKeepsRequests`: no request disappears, from where every request is
posted. `ConnectionAccountsRequests`: the pending handlers of a request, its
entries in flight, its answers and its loss add up to one (`AccountInv`); it uses
`ConnectionIds` where an id takes an entry out of `inFlight`.
`ConnectionAnswers` is about order. `ResponseInv` says that whatever the server
has received is registered, or the `SendDone` that will register it is in the
queue, and that a read that brings a response stands behind that `SendDone`. A
response is then processed only after its request was registered, and finds it in
flight or answered; ids that are never reused do the rest.

*Attempts* (`AttemptProofs`), when the application calls `Start` again only after
it heard the previous attempt end (`Restart # "anytime"`, an assumption of the
theorems). `ConnectionAttempts`: `Pending` of the attempt is one while it is under
way and zero otherwise, from which follow `ConnectionState` and, with `EndInv`
(the handler that reports the end still has its `Disconnect` to do),
`ConnectionEnds`. `ConnectionTimeouts` and `ConnectionHandshakes` are about what an
established connection leaves in the queue: ticks, timeouts, and packets not yet
written (`IsOld`). Neither property is inductive. `OldInv` adds that in the queue
all of this stands before anything of the next attempt but its `ConnectDone`, and
that none is left while an attempt waits on the socket, so that it is handled before
the handshake packet is queued. For the handshake `WriteInv` adds where
its packets may be in `sends`; that the packet being written is the only
one of the attempt is the count of `ConnectionAttempts`.

*Start with the worker at rest* (`LifecycleProofs`, `StartsWhenIdle`): `ConnectionReadsOnce`
and `ConnectionStartsAlone`. `ReadInv`: the
reading of packets is under way at most once (a pending read, a completed one, or
`ReceivePackets` at the end of the loop over packets), and not at all until the
connection is established. `ShapeInv`: `ReceivePackets` is the last step of a
handler's remaining work.

*The contract of the client* (`LifecycleProofs`). `ConnectionImplementsContract`,
for the same applications as the attempts: `AnswerSteps` shows that a step answers
no request or one that had no answer, with a status that agrees with the state
(from `AccountInv`), and `EventSteps` that the application hears at most one event,
which may come next (from `AttemptInv`). `LifecycleImplementsContract` carries it
over to the program.

*Types* (`TypeProofs`). `ConnectionTypes`, with `Start` at any time. Most of
it is inductive beside the invariants above (`AllTypes`). The bound on ids is not: that there are
no more ids than requests needs that no request's call begins twice, and so
`CountInv` counts the posted requests whose call has left the queue; `AccountInv`
says that the call that begins was in the queue only once, so that it adds one.

**Lifecycle**. `LifecycleImplementsConnection`: a step of the program is a step
of `Connection` or a stutter. `LifecycleQuiet`: a worker that has ended left no
work (`EndedInv`), so that no timer and no handler is left; the connection is then
over by HeartbeatScheduled, no request is in flight by RequestTimed, and each has its
answer by NoRequestLost.

Only model-checked: liveness (AllDelivered, AllCalled, RequestAnswered,
AttemptResolved, Decodes, ProgramEnds), because fairness is out of the prover's
reach. Every invariant and every refinement that a passing run checks is proved as well.
Induction over data is done in `ProtocolProofs` from the library's theorem that a
set of naturals has a least element (`LeastOf`, `Induction`).

## Not modelled

- `Compress` in `utils/gzip`: nothing calls it.
- The JSON of the handshake and the splitting and resolving of addresses: their
  outcomes are choices (`BadHandshake`, and the three outcomes of `Connect` in
  `Lifecycle`).
- `AddEventListener` while events are broadcast: the only program here adds its
  listener before it connects.
- Two threads inside the socket object at once: `Start` is one step. When it is
  called with the worker at rest nothing of the worker is on the socket
  (StartHasSocketAlone).
- Messages that a pitaya server does not write: `Deserialize` checks no bounds
  (`src/protocol/message.cpp:103-154`), and the replies of `Decoder` are well formed.
- The wrap of `_writeId` at 2^32 and of `_reqId` at 2^64.
- Durations of request timers: they may expire at any time.
- Error codes, the logger, exceptions: texts without state.
