-------------------------- MODULE TcpPacketWriter --------------------------
(***************************************************************************)
(* The send path of TcpPacketStream                                        *)
(* (src/connection/tcp_packet_stream.cpp): SendPacket, SendNextPacket and  *)
(* the completion handler of async_send, over the socket of                *)
(* src/tcp_socket.cpp.                                                     *)
(*                                                                         *)
(* A packet stands for itself and for its SendHandler: the client submits  *)
(* each packet once, so that the handler of p can be told by p.            *)
(***************************************************************************)
EXTENDS Naturals, Sequences

CONSTANTS
    Packets,        \* the packets of the client
    MaxQueued,      \* kMaxQueuedPackets
    MaxConnections  \* bound: TCP connections made one after the other

ASSUME WriterAssumption ==
    /\ MaxQueued \in Nat \ {0}
    /\ MaxConnections \in Nat \ {0}

VARIABLES
    posts,          \* handlers bound in posted calls of SendNextPacket
    packetSendQueue,\* _packetSendQueue
    writeId,        \* _writeId
    writeBuffers,   \* the keys of _writeBuffers
    open,           \* the socket is connected
    sends,          \* operations in the socket's write queue
    completions,    \* completion handlers of async_send ready to run
    wire,           \* what was written on the current TCP connection
    submitted,      \* history: packets SendPacket accepted, in order
    dropped,        \* history: packets SendPacket ignored
    called,         \* history: packets whose handler was called, in order
    failed,         \* history: write ids whose completion was an error
    connections     \* history: TCP connections made so far

vars == << posts, packetSendQueue, writeId, writeBuffers, open, sends,
           completions, wire, submitted, dropped, called, failed, connections >>

queueVars == << posts, packetSendQueue >>
bufferVars == << writeId, writeBuffers >>
socketVars == << open, sends, wire, connections >>
historyVars == << submitted, dropped, called, failed >>

\* An operation of the socket: the handler it reports to, the packet whose bytes
\* it writes, and the id of its write buffer.
Op(h, p, id) == [handler |-> h, packet |-> p, id |-> id]

\* The completion of an operation with an error_code.
Completion(op, ec) == [handler |-> op.handler, id |-> op.id, ec |-> ec]

Init ==
    /\ posts = << >>
    /\ packetSendQueue = << >>
    /\ writeId = 0
    /\ writeBuffers = {}
    /\ open = TRUE
    /\ sends = << >>
    /\ completions = << >>
    /\ wire = << >>
    /\ submitted = << >>
    /\ dropped = {}
    /\ called = << >>
    /\ failed = {}
    /\ connections = 1

-----------------------------------------------------------------------------
(* SendPacket *)

Fresh(p) == p \notin dropped /\ \A i \in 1..Len(submitted) : submitted[i] # p

\* Mutant of QueueFull: one packet too many.
QueueOverfull == Len(packetSendQueue) > MaxQueued

QueueFull == Len(packetSendQueue) >= MaxQueued

SendPacket(p) ==
    /\ Fresh(p)
    /\ ~QueueFull
    /\ packetSendQueue' = Append(packetSendQueue, p)
    /\ posts' = Append(posts, p)
    /\ submitted' = Append(submitted, p)
    /\ UNCHANGED << bufferVars, socketVars, completions, dropped, called, failed >>

\* The queue is full: the packet is ignored and its handler never called.
IgnorePacket(p) ==
    /\ Fresh(p)
    /\ QueueFull
    /\ dropped' = dropped \union {p}
    /\ UNCHANGED << queueVars, bufferVars, socketVars, completions, submitted, called, failed >>

-----------------------------------------------------------------------------
(* SendNextPacket *)

\* Mutants of NextWriteId: counting down, and not counting.
PreviousWriteId == writeId' = writeId - 1

SameWriteId == UNCHANGED writeId

\* _writeId++
NextWriteId == writeId' = writeId + 1

\* The posted call runs: it takes the front of the queue, and the next id.  The
\* handler is the one bound in the call; the bytes are those of the front.
TakeNext ==
    /\ posts # << >>
    /\ packetSendQueue # << >>
    /\ posts' = Tail(posts)
    /\ packetSendQueue' = Tail(packetSendQueue)
    /\ NextWriteId
    /\ writeBuffers' = writeBuffers \union {writeId}

NextOp == Op(Head(posts), Head(packetSendQueue), writeId)

\* What one write puts on the wire: the packet or only its first bytes
\* (async_send is a single write and nwritten is not looked at).
Write(p, form) == [packet |-> p, form |-> form]

\* async_send on a closed socket fails; its handler runs later.
SendOnClosedSocket ==
    /\ TakeNext
    /\ ~open
    /\ completions' = Append(completions, Completion(NextOp, "error"))
    /\ UNCHANGED << socketVars, historyVars >>

\* async_send writes at once when no operation waits before it.
SendAtOnce ==
    /\ TakeNext
    /\ open
    /\ sends = << >>
    /\ \E f \in {"whole", "part"} : wire' = Append(wire, Write(Head(packetSendQueue), f))
    /\ completions' = Append(completions, Completion(NextOp, "success"))
    /\ UNCHANGED << open, sends, connections, historyVars >>

\* The socket is not writable, or another operation waits before this one, or
\* the write fails at once (WriteError follows).
SendWhenReady ==
    /\ TakeNext
    /\ open
    /\ sends' = Append(sends, NextOp)
    /\ UNCHANGED << open, wire, connections, completions, historyVars >>

SendNextPacket == SendOnClosedSocket \/ SendAtOnce \/ SendWhenReady

-----------------------------------------------------------------------------
(* The socket *)

\* The socket became writable.  The operation refers to the bytes of the
\* by-value parameter of AsioTcpSocket::Send, which no longer exists.
Writable ==
    /\ open
    /\ sends # << >>
    /\ \E f \in {"whole", "part", "garbled"} : wire' = Append(wire, Write(Head(sends).packet, f))
    /\ sends' = Tail(sends)
    /\ completions' = Append(completions, Completion(Head(sends), "success"))
    /\ UNCHANGED << queueVars, bufferVars, open, connections, historyVars >>

WriteError ==
    /\ open
    /\ sends # << >>
    /\ sends' = Tail(sends)
    /\ completions' = Append(completions, Completion(Head(sends), "error"))
    /\ UNCHANGED << queueVars, bufferVars, open, wire, connections, historyVars >>

\* The completions of operations that the socket gives up.
Aborted(ops) == [i \in 1..Len(ops) |-> Completion(ops[i], "error")]

\* Mutant of Disconnect: pending writes are not given up.
DisconnectKeepsSends ==
    /\ open
    /\ open' = FALSE
    /\ UNCHANGED << queueVars, bufferVars, sends, wire, connections, completions, historyVars >>

\* TcpPacketStream::Disconnect, or the close that precedes a new connect.  The
\* queue of packets is left alone.
Disconnect ==
    /\ open
    /\ open' = FALSE
    /\ sends' = << >>
    /\ completions' = completions \o Aborted(sends)
    /\ UNCHANGED << queueVars, bufferVars, wire, connections, historyVars >>

\* TcpPacketStream::Connect succeeds.
Connect ==
    /\ ~open
    /\ connections < MaxConnections
    /\ open' = TRUE
    /\ wire' = << >>
    /\ connections' = connections + 1
    /\ UNCHANGED << queueVars, bufferVars, sends, completions, historyVars >>

-----------------------------------------------------------------------------
\* Mutant of CallHandler: the error path does not call it.
CallHandlerOnSuccess(c) == called' = IF c.ec = "success" THEN Append(called, c.handler) ELSE called

CallHandler(c) == called' = Append(called, c.handler)

\* Mutant of EraseBuffer: nothing is erased.
EraseNoBuffer(c) == UNCHANGED writeBuffers

\* The error path returns before the erase.
EraseBuffer(c) == writeBuffers' = IF c.ec = "success" THEN writeBuffers \ {c.id} ELSE writeBuffers

\* The completion handler of async_send: the SendHandler is called, and the
\* write buffer is erased on success only.
Complete ==
    LET c == Head(completions) IN
    /\ completions # << >>
    /\ completions' = Tail(completions)
    /\ CallHandler(c)
    /\ EraseBuffer(c)
    /\ failed' = IF c.ec = "success" THEN failed ELSE failed \union {c.id}
    /\ UNCHANGED << queueVars, writeId, socketVars, submitted, dropped >>

Next ==
    \/ \E p \in Packets : SendPacket(p) \/ IgnorePacket(p)
    \/ SendOnClosedSocket
    \/ SendAtOnce
    \/ SendWhenReady
    \/ Writable
    \/ WriteError
    \/ Disconnect
    \/ Connect
    \/ Complete

Spec == Init /\ [][Next]_vars

(***************************************************************************)
(* The worker thread runs the calls and handlers that are ready, and the   *)
(* peer or TCP settles a pending write: it is acknowledged, refused or     *)
(* times out.                                                              *)
(***************************************************************************)
FairSpec ==
    /\ Spec
    /\ WF_vars(SendNextPacket)
    /\ WF_vars(Complete)
    /\ WF_vars(Writable \/ WriteError \/ Disconnect)

-----------------------------------------------------------------------------
(* Properties *)

Ops == [handler : Packets, packet : Packets, id : Nat]

Completions == [handler : Packets, id : Nat, ec : {"success", "error"}]

Writes == [packet : Packets, form : {"whole", "part", "garbled"}]

\* Types of the writer's state.
TypeOK ==
    /\ posts \in Seq(Packets)
    /\ packetSendQueue \in Seq(Packets)
    /\ writeId \in Nat
    /\ writeBuffers \subseteq Nat
    /\ open \in BOOLEAN
    /\ sends \in Seq(Ops)
    /\ completions \in Seq(Completions)
    /\ wire \in Seq(Writes)
    /\ submitted \in Seq(Packets)
    /\ dropped \subseteq Packets
    /\ called \in Seq(Packets)
    /\ failed \subseteq Nat
    /\ connections \in 1..MaxConnections

\* There is one posted SendNextPacket for each queued packet, in the same order:
\* assert(!_packetSendQueue.empty()) holds, each handler reports on its own
\* packet, and the queue stays within kMaxQueuedPackets.
PostsMatchQueue == posts = packetSendQueue /\ Len(packetSendQueue) <= MaxQueued

HandlersOf(ops) == [i \in 1..Len(ops) |-> ops[i].handler]

\* Across errors, Disconnect and reconnects every accepted packet is in one
\* place, and the places follow one another in the order of SendPacket: no
\* SendHandler is lost, called twice or called out of turn.
HandlersInOrder ==
    submitted = called \o HandlersOf(completions) \o HandlersOf(sends) \o posts

\* _writeBuffers holds the buffers of the writes under way and, for ever, of
\* the failed ones (the error path of the completion handler returns before
\* the erase).
BuffersAccounted ==
    writeBuffers = failed \union {sends[i].id : i \in 1..Len(sends)}
                          \union {completions[i].id : i \in 1..Len(completions)}

\* The assert before _writeBuffers[id]: the id that _writeId names next is free.
NextIdFree == writeId \notin writeBuffers

Sender == INSTANCE PacketSender

\* TcpPacketStream::SendPacket keeps the promise of PacketStream::SendPacket for
\* the packets it does not ignore.
ImplementsSender == Sender!Spec

\* Every packet that SendPacket accepts has its handler called.
AllCalled == []<>(called = submitted)
=============================================================================
