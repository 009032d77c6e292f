-------------------------- MODULE TcpPacketReader --------------------------
(***************************************************************************)
(* The receive path of TcpPacketStream                                     *)
(* (src/connection/tcp_packet_stream.cpp): ReceivePackets, ReadToBuffer    *)
(* and the loop of ParsePacketsFromReadBuffer, over a TCP byte stream that *)
(* arrives in pieces of any size.                                          *)
(*                                                                         *)
(* One action is one completion of async_receive or one iteration of the   *)
(* parsing loop.  All of it runs on the worker thread.  The build modelled *)
(* has NDEBUG set (Makefile, build-mac: Release), so that execution goes   *)
(* on after a failed assert; the asserts are stated as properties.         *)
(***************************************************************************)
EXTENDS Packet, Integers

CONSTANTS
    BufSize,         \* ReadBufferMaxSize: the capacity of _readBuffer
    Streams,         \* what the server may send on one TCP connection
    MaxConnections   \* bound: TCP connections made one after the other

(***************************************************************************)
(* A stream is a sequence of packets, sent, the bytes that carry them,     *)
(* wire (indexed from 0), and the offset at[k] of packet k in wire.        *)
(***************************************************************************)
IsStream(s) ==
    LET n == Len(s.sent) IN
    /\ s.sent \in Seq([type : Byte, body : Seq(Byte)])
    /\ s.at \in [1..n+1 -> Nat]
    /\ s.wire \in [0..s.at[n+1] - 1 -> Byte]
    /\ s.at[1] = 0
    /\ \A k \in 1..n :
        /\ Len(s.sent[k].body) <= MaxBodyLen
        /\ s.at[k+1] = s.at[k] + kPacketHeaderSize + Len(s.sent[k].body)
        /\ s.at[k+1] <= s.at[n+1]
        /\ \A j \in 1..kPacketHeaderSize + Len(s.sent[k].body) :
            s.wire[s.at[k] + j - 1] = SerializeInto(s.sent[k])[j]

ASSUME ReaderAssumption ==
    /\ BufSize \in Nat \ {0}
    /\ MaxConnections \in Nat \ {0}
    /\ \A s \in Streams : IsStream(s)

(***************************************************************************)
(* The packets a pitaya server sends to a client: no HandshakeAck, and     *)
(* heartbeats and kicks without a body.                                    *)
(***************************************************************************)
IsServerPacket(p) ==
    /\ IsPacketType(p.type)
    /\ p.type # HandshakeAck
    /\ p.type \in {Heartbeat, Kick} => p.body = << >>

IsServerStream(s) == \A k \in 1..Len(s.sent) : IsServerPacket(s.sent[k])

VARIABLES
    stream,             \* the stream of the current TCP connection
    received,           \* how many of its bytes async_receive has returned
    readBuffer,         \* _readBuffer
    readBufferHead,     \* _readBufferHead
    pc,                 \* what the worker does for the reader
    packetStartOffset,  \* local of ParsePacketsFromReadBuffer
    packets,            \* local of ParsePacketsFromReadBuffer
    delivered,          \* history: packets passed to ReceiveHandlers
    stale,              \* history: bytes of an older connection were kept
    connections         \* history: TCP connections made so far

vars == << stream, received, readBuffer, readBufferHead, pc,
           packetStartOffset, packets, delivered, stale, connections >>

bufferVars == << readBuffer, readBufferHead >>
parserVars == << packetStartOffset, packets >>
streamVars == << stream, stale, connections >>

Init ==
    /\ stream \in Streams
    /\ received = 0
    /\ readBuffer = [i \in 0..BufSize - 1 |-> 0]
    /\ readBufferHead = 0
    /\ pc = "idle"
    /\ packetStartOffset = 0
    /\ packets = << >>
    /\ delivered = << >>
    /\ stale = FALSE
    /\ connections = 1

-----------------------------------------------------------------------------
(* ReadToBuffer *)

\* Mutant of ReceivePackets: also after an error.
ReceivePacketsAfterError ==
    /\ pc \in {"idle", "closed"}
    /\ pc' = "reading"
    /\ UNCHANGED << received, bufferVars, parserVars, delivered, streamVars >>

\* The client asks for packets.
ReceivePackets ==
    /\ pc = "idle"
    /\ pc' = "reading"
    /\ UNCHANGED << received, bufferVars, parserVars, delivered, streamVars >>

Minimum(a, b) == IF a < b THEN a ELSE b

\* How many bytes an async_receive into the rest of the buffer may return.  A
\* read into an empty buffer completes at once with none (boost::asio).
ReadSizes ==
    LET space == BufSize - readBufferHead
        arrived == Len(stream.sent) + 1
    IN IF space = 0 THEN {0}
       ELSE 1..Minimum(space, stream.at[arrived] - received)

\* async_receive completes with n bytes, stored from _readBufferHead on.
ReceiveBytes(n) ==
    /\ pc = "reading"
    /\ n \in ReadSizes
    /\ readBuffer' = [i \in 0..BufSize - 1 |->
                        IF i \in readBufferHead..readBufferHead + n - 1
                        THEN stream.wire[received + (i - readBufferHead)]
                        ELSE readBuffer[i]]
    /\ readBufferHead' = readBufferHead + n
    /\ received' = received + n
    /\ packetStartOffset' = 0
    /\ packets' = << >>
    /\ pc' = "parsing"
    /\ UNCHANGED << delivered, streamVars >>

\* async_receive completes with an error: the handler is told, nothing is kept
\* of the read, and the connection reads no more.
ReceiveError ==
    /\ pc = "reading"
    /\ pc' = "closed"
    /\ UNCHANGED << received, bufferVars, parserVars, delivered, streamVars >>

-----------------------------------------------------------------------------
(* ParsePacketsFromReadBuffer *)

sizeLeft == readBufferHead - packetStartOffset

packetType == readBuffer[packetStartOffset]

length == HeaderLength(readBuffer[packetStartOffset + 1],
                       readBuffer[packetStartOffset + 2],
                       readBuffer[packetStartOffset + 3])

HasHeader == sizeLeft >= kPacketHeaderSize

\* Mutants of HasPacket: the body is not waited for, and the last byte of a
\* packet is not enough.
HasPacketHeader == HasHeader

HasPacketAndMore == HasHeader /\ sizeLeft > kPacketHeaderSize + length

HasPacket == HasHeader /\ sizeLeft >= kPacketHeaderSize + length

\* Mutant of Rotated: the parsed packets stay at the front.
Unrotated(buf, by) == buf

\* std::rotate of the whole buffer to the left.
Rotated(buf, by) ==
    [i \in 0..BufSize - 1 |-> IF i + by < BufSize THEN buf[i + by] ELSE buf[i + by - BufSize]]

\* Mutant of HeadAfterReturn: what was parsed still counts.
HeadUnchanged == readBufferHead

\* _readBufferHead after the packets were taken out.
HeadAfterReturn == sizeLeft

\* Mutant of Continue: parses again instead of reading.
ContinueParsing == pc' = IF packets = << >> THEN "parsing" ELSE "idle"

\* What the completion handler of ReadToBuffer does next: read on when there is
\* no packet.
Continue == pc' = IF packets = << >> THEN "reading" ELSE "idle"

\* The two early returns, with the packets handed over.
ReturnPackets ==
    /\ pc = "parsing"
    /\ ~HasHeader \/ (HasHeader /\ IsPacketType(packetType) /\ ~HasPacket)
    /\ readBuffer' = Rotated(readBuffer, packetStartOffset)
    /\ readBufferHead' = HeadAfterReturn
    /\ Continue
    /\ delivered' = delivered \o packets
    /\ packets' = << >>
    /\ packetStartOffset' = 0
    /\ UNCHANGED << received, streamVars >>

\* The exception on an unknown type: the packets parsed so far are lost and the
\* handler gets InvalidPacketType.  The buffer keeps its contents.
ThrowInvalidType ==
    /\ pc = "parsing"
    /\ HasHeader
    /\ ~IsPacketType(packetType)
    /\ pc' = "closed"
    /\ packets' = << >>
    /\ packetStartOffset' = 0
    /\ UNCHANGED << received, bufferVars, delivered, streamVars >>

\* The bytes of the body of the packet at packetStartOffset.
Body(n) == [j \in 1..n |-> readBuffer[packetStartOffset + kPacketHeaderSize + j - 1]]

\* The cases of the switch that keep the body.
ParsePacketWithBody ==
    /\ pc = "parsing"
    /\ HasPacket
    /\ packetType \in {Handshake, Data}
    /\ packets' = Append(packets, PacketOf(packetType, Body(length)))
    /\ packetStartOffset' = packetStartOffset + kPacketHeaderSize + length
    /\ UNCHANGED << received, bufferVars, pc, delivered, streamVars >>

\* The cases of the switch that skip the header only (assert(length == 0)).
ParseEmptyPacket ==
    /\ pc = "parsing"
    /\ HasPacket
    /\ packetType \in {Heartbeat, Kick}
    /\ packets' = Append(packets, PacketOf(packetType, << >>))
    /\ packetStartOffset' = packetStartOffset + kPacketHeaderSize
    /\ UNCHANGED << received, bufferVars, pc, delivered, streamVars >>

\* The default case of the switch: without assert(false) the loop goes round
\* again at the same offset, for ever.
ParseUnexpectedPacket ==
    /\ pc = "parsing"
    /\ HasPacket
    /\ packetType = HandshakeAck
    /\ pc' = "spinning"
    /\ UNCHANGED << received, bufferVars, parserVars, delivered, streamVars >>

-----------------------------------------------------------------------------
(* TcpPacketStream::Connect and Disconnect leave the read buffer alone. *)

\* What a new TCP connection leaves in the buffer.
BufferAfterConnect == readBufferHead

Reconnect ==
    /\ pc \in {"idle", "closed"}
    /\ connections < MaxConnections
    /\ connections' = connections + 1
    /\ stream' \in Streams
    /\ readBufferHead' = BufferAfterConnect
    /\ stale' = (stale \/ BufferAfterConnect > 0)
    /\ received' = 0
    /\ delivered' = << >>
    /\ pc' = "idle"
    /\ UNCHANGED << readBuffer, parserVars >>

Next ==
    \/ ReceivePackets
    \/ \E n \in ReadSizes : ReceiveBytes(n)
    \/ ReceiveError
    \/ ReturnPackets
    \/ ThrowInvalidType
    \/ ParsePacketWithBody
    \/ ParseEmptyPacket
    \/ ParseUnexpectedPacket
    \/ Reconnect

Spec == Init /\ [][Next]_vars

(***************************************************************************)
(* The worker thread runs whatever handler is ready, the client asks for   *)
(* packets again after each batch (Connection::ReceivePackets), and TCP    *)
(* delivers what was sent or reports an error.                             *)
(***************************************************************************)
Parse ==
    \/ ReturnPackets
    \/ ThrowInvalidType
    \/ ParsePacketWithBody
    \/ ParseEmptyPacket
    \/ ParseUnexpectedPacket

Fairness ==
    /\ WF_vars(ReceivePackets)
    /\ WF_vars(\E n \in ReadSizes : ReceiveBytes(n))
    /\ WF_vars(Parse)

FairSpec == Spec /\ Fairness

-----------------------------------------------------------------------------
(* Properties *)

\* Types of the reader's state; in particular _readBufferHead never passes the
\* end of _readBuffer (the assert in the completion handler of ReadToBuffer).
TypeOK ==
    /\ stream \in Streams
    /\ received \in 0..stream.at[Len(stream.sent) + 1]
    /\ readBuffer \in [0..BufSize - 1 -> Byte]
    /\ readBufferHead \in 0..BufSize
    /\ pc \in {"idle", "reading", "parsing", "closed", "spinning"}
    /\ packetStartOffset \in 0..readBufferHead
    /\ packets \in Seq([type : Byte, body : Seq(Byte)])
    /\ delivered \in Seq([type : Byte, body : Seq(Byte)])
    /\ stale \in BOOLEAN
    /\ connections \in 1..MaxConnections

\* The bytes of the current connection, and no packet was malformed.
Sound == ~stale /\ IsServerStream(stream)

\* Packets taken from the stream, handed over or about to be.
Parsed == delivered \o packets

IsPrefixOfSent(s) ==
    /\ Len(s) <= Len(stream.sent)
    /\ \A k \in 1..Len(s) : s[k] = stream.sent[k]

\* However TCP cuts the stream into reads, the packets taken out of the buffer
\* are exactly the ones the server sent, in order, none lost, repeated or
\* merged (ParsePacketsFromReadBuffer with the rotation of the buffer).
Framing == Sound => IsPrefixOfSent(Parsed)

\* ReadToBuffer waits for more bytes only while the next packet is incomplete:
\* a packet that has arrived in full is never left in the buffer.
NothingHeldBack ==
    Sound /\ pc = "reading" /\ Len(delivered) < Len(stream.sent)
        => received < stream.at[Len(delivered) + 2]

Deliverable ==
    /\ Sound
    /\ \A k \in 1..Len(stream.sent) :
        kPacketHeaderSize + Len(stream.sent[k].body) <= BufSize

\* As long as every packet fits the buffer ReadToBuffer has room to read into,
\* also for packets of exactly the size of the buffer: a read never returns
\* nothing, as the assert in its completion handler says.
RoomToRead == Deliverable /\ pc = "reading" => 0 \notin ReadSizes

\* Every packet of a stream whose packets fit the buffer reaches a handler,
\* unless the connection fails or a new one takes its place first: ReadToBuffer
\* keeps reading.
AllDelivered ==
    Deliverable ~> (delivered = stream.sent \/ pc = "closed" \/ ~Deliverable)

-----------------------------------------------------------------------------
(* The reader implements the interface it overrides. *)

Channel == INSTANCE PacketChannel
    WITH Messages <- {s.sent : s \in Streams},
         sent <- stream.sent,
         delivered <- IF Sound THEN delivered ELSE << >>,
         open <- Sound /\ pc # "closed"

\* ReadToBuffer and ParsePacketsFromReadBuffer deliver what the interface
\* PacketStream::ReceivePackets promises, on each connection that carries server
\* packets and found no bytes of an older one in the buffer; any other one
\* counts as failed.
ImplementsChannel == Channel!Spec
=============================================================================
