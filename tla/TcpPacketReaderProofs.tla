----------------------- MODULE TcpPacketReaderProofs -----------------------
(***************************************************************************)
(* Proofs about TcpPacketReader, for every buffer size, every set of       *)
(* streams and every way TCP cuts a stream into reads.                     *)
(***************************************************************************)
EXTENDS TcpPacketReader, TLAPS

\* How long a prover may take over a step.
USE SMTT(30), ZenonT(30)

Packets == [type : Byte, body : Seq(Byte)]

\* The three length bytes written by Packet::SerializeInto are read back by
\* ParsePacketsFromReadBuffer as the same length.
LEMMA LengthRoundTrip ==
    ASSUME NEW n \in Nat, n <= MaxBodyLen
    PROVE  HeaderLength(ThirdByte(n), SecondByte(n), FirstByte(n)) = n
BY DEF HeaderLength, ThirdByte, SecondByte, FirstByte, MaxBodyLen

\* A byte is a number.
LEMMA ByteIsNat == Byte \subseteq Nat
BY DEF Byte

\* The bytes of a length are numbers.
LEMMA LengthBytes ==
    ASSUME NEW n \in Nat
    PROVE  ThirdByte(n) \in Nat /\ SecondByte(n) \in Nat /\ FirstByte(n) \in Nat
BY DEF ThirdByte, SecondByte, FirstByte

\* Where Packet::SerializeInto puts the parts of a packet.
LEMMA SerializedParts ==
    ASSUME NEW p \in Packets
    PROVE  /\ SerializeInto(p)[1] = p.type
           /\ SerializeInto(p)[2] = ThirdByte(Len(p.body))
           /\ SerializeInto(p)[3] = SecondByte(Len(p.body))
           /\ SerializeInto(p)[4] = FirstByte(Len(p.body))
           /\ \A j \in 1..Len(p.body) : SerializeInto(p)[4 + j] = p.body[j]
<1>. DEFINE n == Len(p.body)
            h == << p.type, ThirdByte(n), SecondByte(n), FirstByte(n) >>
<1>1. p.body \in Seq(Byte) /\ n \in Nat
  BY DEF Packets
<1>2. h \in Seq(Nat) /\ Len(h) = 4
  <2>1. p.type \in Nat
    BY ByteIsNat DEF Packets
  <2>2. ThirdByte(n) \in Nat /\ SecondByte(n) \in Nat /\ FirstByte(n) \in Nat
    BY <1>1, LengthBytes
  <2>. QED
    BY <2>1, <2>2
<1>3. SerializeInto(p) = h \o p.body
  BY DEF SerializeInto
<1>4. \A j \in 1..4 : (h \o p.body)[j] = h[j]
  BY <1>1, <1>2 DEF Byte
<1>5. \A j \in 1..n : (h \o p.body)[4 + j] = p.body[j]
  BY <1>1, <1>2 DEF Byte
<1>. QED
  BY <1>3, <1>4, <1>5

-----------------------------------------------------------------------------
(* Types *)

LEMMA StreamType ==
    ASSUME NEW s \in Streams
    PROVE  /\ s.sent \in Seq(Packets)
           /\ Len(s.sent) \in Nat
           /\ s.at \in [1..Len(s.sent) + 1 -> Nat]
           /\ s.wire \in [0..s.at[Len(s.sent) + 1] - 1 -> Byte]
           /\ s.at[Len(s.sent) + 1] \in Nat
<1>1. IsStream(s)
  BY ReaderAssumption
<1>. QED
  BY <1>1 DEF IsStream, Packets

LEMMA LengthType ==
    ASSUME TypeOK, HasHeader
    PROVE  length \in Nat /\ packetType \in Byte
<1>1. /\ packetStartOffset \in Nat /\ readBufferHead \in Nat /\ BufSize \in Nat
      /\ packetStartOffset + 3 < BufSize
  BY ReaderAssumption DEF TypeOK, HasHeader, sizeLeft, kPacketHeaderSize
<1>2. \A j \in 0..3 : readBuffer[packetStartOffset + j] \in Byte
  BY <1>1 DEF TypeOK
<1>3. \A j \in 0..3 : readBuffer[packetStartOffset + j] \in Nat
  BY <1>2, ByteIsNat
<1>4. packetStartOffset + 0 = packetStartOffset
  BY <1>1
<1>. QED
  BY <1>2, <1>3, <1>4 DEF length, packetType, HeaderLength

\* A parsed body is a sequence of bytes of the buffer.
LEMMA BodyType ==
    ASSUME TypeOK, HasPacket
    PROVE  Body(length) \in Seq(Byte) /\ Len(Body(length)) = length
<1>1. length \in Nat
  BY LengthType DEF HasPacket
<1>2. \A j \in 1..length : packetStartOffset + kPacketHeaderSize + j - 1 \in 0..BufSize - 1
  BY <1>1, ReaderAssumption DEF TypeOK, HasPacket, HasHeader, sizeLeft, kPacketHeaderSize
<1>3. \A j \in 1..length : readBuffer[packetStartOffset + kPacketHeaderSize + j - 1] \in Byte
  BY <1>2 DEF TypeOK
<1>. QED
  BY <1>1, <1>3 DEF Body

LEMMA TypeInit == Init => TypeOK
<1>. SUFFICES ASSUME Init PROVE TypeOK
  OBVIOUS
<1>1. received \in 0..stream.at[Len(stream.sent) + 1]
  BY StreamType DEF Init
<1>2. 0 \in Byte
  BY DEF Byte
<1>. QED
  BY <1>1, <1>2, ReaderAssumption DEF Init, TypeOK

LEMMA TypeNext == TypeOK /\ [Next]_vars => TypeOK'
<1>. SUFFICES ASSUME TypeOK, [Next]_vars PROVE TypeOK'
  OBVIOUS
<1>1. CASE ReceivePackets
  BY <1>1 DEF TypeOK, ReceivePackets, bufferVars, parserVars, streamVars
<1>2. ASSUME NEW n \in ReadSizes, ReceiveBytes(n) PROVE TypeOK'
  <2>1. /\ n \in Nat
        /\ readBufferHead + n <= BufSize
        /\ n > 0 => received + n <= stream.at[Len(stream.sent) + 1]
    <3>. DEFINE total == stream.at[Len(stream.sent) + 1]
    <3>1. total \in Nat /\ received \in 0..total
      BY StreamType DEF TypeOK
    <3>2. BufSize \in Nat /\ readBufferHead \in 0..BufSize
      BY ReaderAssumption DEF TypeOK
    <3>3. n \in IF BufSize - readBufferHead = 0 THEN {0}
                ELSE 1..Minimum(BufSize - readBufferHead, total - received)
      BY <1>2 DEF ReadSizes
    <3>. HIDE DEF total
    <3>4. /\ n \in Nat
          /\ readBufferHead + n <= BufSize
          /\ n > 0 => received + n <= total
      BY <3>1, <3>2, <3>3 DEF Minimum
    <3>. QED
      BY <3>4 DEF total
  <2>2. readBuffer' \in [0..BufSize - 1 -> Byte]
    <3>1. ASSUME NEW i \in 0..BufSize - 1, i \in readBufferHead..readBufferHead + n - 1
          PROVE  stream.wire[received + (i - readBufferHead)] \in Byte
      <4>1. received + (i - readBufferHead) \in 0..stream.at[Len(stream.sent) + 1] - 1
        <5>. DEFINE total == stream.at[Len(stream.sent) + 1]
        <5>1. total \in Nat /\ received \in 0..total
          BY StreamType DEF TypeOK
        <5>2. /\ n \in Nat /\ readBufferHead \in Nat /\ i \in Nat
              /\ n > 0 => received + n <= total
          BY <2>1, ReaderAssumption DEF TypeOK
        <5>. HIDE DEF total
        <5>3. received + (i - readBufferHead) \in 0..total - 1
          BY <3>1, <5>1, <5>2
        <5>. QED
          BY <5>3 DEF total
      <4>. QED
        BY <4>1, StreamType DEF TypeOK
    <3>. QED
      BY <1>2, <3>1 DEF TypeOK, ReceiveBytes
  <2>3. received' \in 0..stream.at[Len(stream.sent) + 1] /\ readBufferHead' \in 0..BufSize
    BY <1>2, <2>1, StreamType, ReaderAssumption DEF TypeOK, ReceiveBytes
  <2>4. packetStartOffset' \in 0..readBufferHead'
    BY <1>2, <2>3, ReaderAssumption DEF ReceiveBytes
  <2>. QED
    BY <1>2, <2>2, <2>3, <2>4 DEF TypeOK, ReceiveBytes, streamVars
<1>3. CASE ReceiveError
  BY <1>3 DEF TypeOK, ReceiveError, bufferVars, parserVars, streamVars
<1>4. CASE ReturnPackets
  <2>1. readBuffer' \in [0..BufSize - 1 -> Byte]
    <3>1. \A i \in 0..BufSize - 1 :
            /\ i + packetStartOffset < BufSize => i + packetStartOffset \in 0..BufSize - 1
            /\ ~(i + packetStartOffset < BufSize) => i + packetStartOffset - BufSize \in 0..BufSize - 1
      BY ReaderAssumption DEF TypeOK
    <3>. QED
      BY <1>4, <3>1 DEF ReturnPackets, HeadAfterReturn, Continue, Rotated, TypeOK
  <2>2. readBufferHead' \in 0..BufSize /\ packetStartOffset' \in 0..readBufferHead'
    BY <1>4, ReaderAssumption DEF TypeOK, ReturnPackets, HeadAfterReturn, Continue, sizeLeft
  <2>3. delivered' \in Seq([type : Byte, body : Seq(Byte)])
    BY <1>4 DEF TypeOK, ReturnPackets, HeadAfterReturn, Continue
  <2>. QED
    BY <1>4, <2>1, <2>2, <2>3 DEF TypeOK, ReturnPackets, HeadAfterReturn, Continue, streamVars
<1>5. CASE ThrowInvalidType
  <2>1. packetStartOffset' \in 0..readBufferHead'
    BY <1>5 DEF TypeOK, ThrowInvalidType, bufferVars
  <2>. QED
    BY <1>5, <2>1 DEF TypeOK, ThrowInvalidType, bufferVars, streamVars
<1>6. CASE ParsePacketWithBody
  <2>1. packetStartOffset' \in 0..readBufferHead
    BY <1>6, LengthType
    DEF TypeOK, ParsePacketWithBody, HasPacket, HasHeader, sizeLeft, kPacketHeaderSize
  <2>2. PacketOf(packetType, Body(length)) \in [type : Byte, body : Seq(Byte)]
    BY <1>6, LengthType, BodyType DEF ParsePacketWithBody, HasPacket, PacketOf
  <2>3. packets' \in Seq([type : Byte, body : Seq(Byte)])
    BY <1>6, <2>2 DEF TypeOK, ParsePacketWithBody
  <2>. QED
    BY <1>6, <2>1, <2>3 DEF TypeOK, ParsePacketWithBody, bufferVars, streamVars
<1>7. CASE ParseEmptyPacket
  <2>1. packetStartOffset' \in 0..readBufferHead
    BY <1>7, LengthType
    DEF TypeOK, ParseEmptyPacket, HasPacket, HasHeader, sizeLeft, kPacketHeaderSize
  <2>2. PacketOf(packetType, << >>) \in [type : Byte, body : Seq(Byte)]
    BY <1>7, LengthType DEF ParseEmptyPacket, HasPacket, PacketOf
  <2>3. packets' \in Seq([type : Byte, body : Seq(Byte)])
    BY <1>7, <2>2 DEF TypeOK, ParseEmptyPacket
  <2>. QED
    BY <1>7, <2>1, <2>3 DEF TypeOK, ParseEmptyPacket, bufferVars, streamVars
<1>8. CASE ParseUnexpectedPacket
  BY <1>8 DEF TypeOK, ParseUnexpectedPacket, bufferVars, parserVars, streamVars
<1>9. CASE Reconnect
  <2>1. received' \in 0..(stream.at[Len(stream.sent) + 1])'
    BY <1>9, StreamType DEF Reconnect
  <2>2. connections' \in 1..MaxConnections
    BY <1>9, ReaderAssumption DEF TypeOK, Reconnect
  <2>. QED
    BY <1>9, <2>1, <2>2 DEF TypeOK, Reconnect, BufferAfterConnect, parserVars
<1>10. CASE UNCHANGED vars
  BY <1>10 DEF TypeOK, vars
<1>. QED
  BY <1>1, <1>2, <1>3, <1>4, <1>5, <1>6, <1>7, <1>8, <1>9, <1>10 DEF Next

\* TypeOK is an invariant of the reader: _readBufferHead stays within
\* _readBuffer and the parser never looks past the bytes received.
THEOREM ReaderTypes == Spec => []TypeOK
BY TypeInit, TypeNext, PTL DEF Spec

-----------------------------------------------------------------------------
(* Framing *)

\* What the bytes of a stream are at the offset of one of its packets.
LEMMA PacketOnWire ==
    ASSUME NEW s \in Streams, NEW k \in 1..Len(s.sent)
    PROVE  LET p == s.sent[k]
               n == Len(p.body)
               o == s.at[k]
           IN /\ p \in Packets /\ n \in Nat /\ o \in Nat
              /\ s.at[k + 1] = o + kPacketHeaderSize + n
              /\ s.at[k + 1] <= s.at[Len(s.sent) + 1]
              /\ s.wire[o] = p.type
              /\ HeaderLength(s.wire[o + 1], s.wire[o + 2], s.wire[o + 3]) = n
              /\ \A j \in 1..n : s.wire[o + kPacketHeaderSize + j - 1] = p.body[j]
<1>. DEFINE p == s.sent[k]
            n == Len(p.body)
            o == s.at[k]
<1>1. IsStream(s)
  BY ReaderAssumption
<1>2. p \in Packets /\ p.body \in Seq(Byte) /\ n \in Nat /\ o \in Nat
  <2>1. s.sent \in Seq(Packets) /\ s.at \in [1..Len(s.sent) + 1 -> Nat] /\ Len(s.sent) \in Nat
    BY StreamType
  <2>2. p \in Packets /\ o \in Nat
    BY <2>1
  <2>. QED
    BY <2>2 DEF Packets
<1>3. /\ n <= MaxBodyLen
      /\ s.at[k + 1] = o + kPacketHeaderSize + n
      /\ s.at[k + 1] <= s.at[Len(s.sent) + 1]
      /\ \A j \in 1..kPacketHeaderSize + n : s.wire[o + j - 1] = SerializeInto(p)[j]
  BY <1>1 DEF IsStream
<1>. HIDE DEF p, n, o
<1>4. /\ s.wire[o + 1 - 1] = SerializeInto(p)[1]
      /\ s.wire[o + 2 - 1] = SerializeInto(p)[2]
      /\ s.wire[o + 3 - 1] = SerializeInto(p)[3]
      /\ s.wire[o + 4 - 1] = SerializeInto(p)[4]
      /\ \A j \in 1..n : s.wire[o + (4 + j) - 1] = SerializeInto(p)[4 + j]
  BY <1>2, <1>3 DEF kPacketHeaderSize
<1>5. /\ o + 1 - 1 = o /\ o + 2 - 1 = o + 1 /\ o + 3 - 1 = o + 2 /\ o + 4 - 1 = o + 3
      /\ \A j \in 1..n : o + (4 + j) - 1 = o + kPacketHeaderSize + j - 1
  BY <1>2 DEF kPacketHeaderSize
<1>6. /\ SerializeInto(p)[1] = p.type
      /\ SerializeInto(p)[2] = ThirdByte(n)
      /\ SerializeInto(p)[3] = SecondByte(n)
      /\ SerializeInto(p)[4] = FirstByte(n)
      /\ \A j \in 1..n : SerializeInto(p)[4 + j] = p.body[j]
  BY <1>2, SerializedParts DEF n
<1>7. HeaderLength(ThirdByte(n), SecondByte(n), FirstByte(n)) = n
  BY <1>2, <1>3, LengthRoundTrip
<1>8. /\ s.wire[o] = p.type
      /\ HeaderLength(s.wire[o + 1], s.wire[o + 2], s.wire[o + 3]) = n
      /\ \A j \in 1..n : s.wire[o + kPacketHeaderSize + j - 1] = p.body[j]
  BY <1>4, <1>5, <1>6, <1>7
<1>. QED
  BY <1>2, <1>3, <1>8 DEF p, n, o

(***************************************************************************)
(* The inductive invariant: the bytes before _readBufferHead are the last  *)
(* ones received, and the parser stands at the start of the packet that    *)
(* follows those it has taken.                                             *)
(***************************************************************************)
base == received - readBufferHead

LocalsReset == pc \notin {"parsing", "spinning"} => packetStartOffset = 0 /\ packets = << >>

BufferMirrorsWire ==
    /\ readBufferHead <= received
    /\ \A i \in 0..readBufferHead - 1 : readBuffer[i] = stream.wire[base + i]

AtPacketStart ==
    /\ IsPrefixOfSent(Parsed)
    /\ base + packetStartOffset = stream.at[Len(Parsed) + 1]

NextIncomplete ==
    pc \in {"idle", "reading"} /\ Len(delivered) < Len(stream.sent)
        => received < stream.at[Len(delivered) + 2]

IInv ==
    /\ TypeOK
    /\ LocalsReset
    /\ Sound => BufferMirrorsWire /\ AtPacketStart /\ NextIncomplete

\* The header at packetStartOffset is the one of the next packet sent.
LEMMA NextHeader ==
    ASSUME IInv, Sound, HasHeader
    PROVE  /\ Len(Parsed) + 1 \in 1..Len(stream.sent)
           /\ packetType = stream.sent[Len(Parsed) + 1].type
           /\ length = Len(stream.sent[Len(Parsed) + 1].body)
<1>. DEFINE k == Len(Parsed) + 1
            N == Len(stream.sent)
            total == stream.at[N + 1]
            o == stream.at[k]
<1>1. /\ stream \in Streams /\ N \in Nat /\ total \in Nat
      /\ received \in 0..total /\ readBufferHead \in Nat /\ packetStartOffset \in Nat
  BY StreamType, ReaderAssumption DEF IInv, TypeOK
<1>2. Parsed \in Seq(Packets) /\ Len(Parsed) \in Nat /\ k \in 1..N + 1
  BY DEF IInv, TypeOK, AtPacketStart, IsPrefixOfSent, Parsed, Packets
<1>3. /\ readBufferHead <= received
      /\ base + packetStartOffset = o
      /\ readBufferHead - packetStartOffset >= 4
  BY DEF IInv, BufferMirrorsWire, AtPacketStart, HasHeader, sizeLeft, kPacketHeaderSize
<1>4. o + 4 <= total
  BY <1>1, <1>3 DEF base
<1>5. k \in 1..N
  BY <1>1, <1>2, <1>4
<1>6. \A j \in 0..3 : readBuffer[packetStartOffset + j] = stream.wire[base + (packetStartOffset + j)]
  BY <1>1, <1>3 DEF IInv, BufferMirrorsWire
<1>. HIDE DEF o, k
<1>7. /\ packetStartOffset + 0 = packetStartOffset
      /\ base + (packetStartOffset + 0) = o
      /\ base + (packetStartOffset + 1) = o + 1
      /\ base + (packetStartOffset + 2) = o + 2
      /\ base + (packetStartOffset + 3) = o + 3
  BY <1>1, <1>3 DEF base
<1>8. /\ readBuffer[packetStartOffset] = stream.wire[o]
      /\ readBuffer[packetStartOffset + 1] = stream.wire[o + 1]
      /\ readBuffer[packetStartOffset + 2] = stream.wire[o + 2]
      /\ readBuffer[packetStartOffset + 3] = stream.wire[o + 3]
  BY <1>6, <1>7
<1>9. /\ stream.wire[o] = stream.sent[k].type
      /\ HeaderLength(stream.wire[o + 1], stream.wire[o + 2], stream.wire[o + 3])
            = Len(stream.sent[k].body)
  BY <1>1, <1>5, PacketOnWire DEF o
<1>. QED
  BY <1>5, <1>8, <1>9 DEF k, packetType, length

\* The body at packetStartOffset is the one of the next packet sent.
LEMMA NextBody ==
    ASSUME IInv, Sound, HasPacket
    PROVE  PacketOf(packetType, Body(length)) = stream.sent[Len(Parsed) + 1]
<1>. DEFINE k == Len(Parsed) + 1
            p == stream.sent[k]
            n == Len(p.body)
            o == stream.at[k]
<1>1. k \in 1..Len(stream.sent) /\ packetType = p.type /\ length = n
  BY NextHeader DEF HasPacket
<1>2. stream \in Streams
  BY DEF IInv, TypeOK
<1>3. /\ p \in Packets /\ n \in Nat /\ o \in Nat
      /\ \A j \in 1..n : stream.wire[o + kPacketHeaderSize + j - 1] = p.body[j]
  BY <1>1, <1>2, PacketOnWire
<1>4. /\ received \in Nat /\ readBufferHead \in Nat /\ packetStartOffset \in Nat
      /\ readBufferHead <= received
      /\ base + packetStartOffset = o
      /\ readBufferHead - packetStartOffset >= 4 + n
  BY <1>1, <1>2, StreamType, ReaderAssumption
  DEF IInv, TypeOK, BufferMirrorsWire, AtPacketStart, HasPacket, sizeLeft, kPacketHeaderSize
<1>. HIDE DEF k, p, n, o
<1>5. ASSUME NEW j \in 1..n
      PROVE  readBuffer[packetStartOffset + kPacketHeaderSize + j - 1] = p.body[j]
  <2>1. packetStartOffset + kPacketHeaderSize + j - 1 \in 0..readBufferHead - 1
    BY <1>3, <1>4 DEF kPacketHeaderSize
  <2>2. base + (packetStartOffset + kPacketHeaderSize + j - 1) = o + kPacketHeaderSize + j - 1
    BY <1>3, <1>4 DEF kPacketHeaderSize, base
  <2>. QED
    BY <1>3, <2>1, <2>2 DEF IInv, BufferMirrorsWire
<1>6. Body(length) = p.body
  <2>1. p.body \in Seq(Byte) /\ Len(p.body) = n
    BY <1>3 DEF Packets, n
  <2>2. p.body = [j \in 1..n |-> p.body[j]]
    BY <2>1
  <2>. QED
    BY <1>1, <1>5, <2>2 DEF Body
<1>7. p = [type |-> p.type, body |-> p.body]
  BY <1>3 DEF Packets
<1>. QED
  BY <1>1, <1>6, <1>7 DEF PacketOf, p, k

LEMMA FirstOffsets ==
    ASSUME NEW s \in Streams
    PROVE  s.at[1] = 0 /\ (0 < Len(s.sent) => 0 < s.at[2])
<1>1. s.at[1] = 0 /\ Len(s.sent) \in Nat
  BY ReaderAssumption, StreamType DEF IsStream
<1>. SUFFICES ASSUME 0 < Len(s.sent) PROVE 0 < s.at[2]
  BY <1>1
<1>2. 1 \in 1..Len(s.sent)
  BY <1>1
<1>3. /\ s.at[1 + 1] = s.at[1] + kPacketHeaderSize + Len(s.sent[1].body)
      /\ Len(s.sent[1].body) \in Nat
  BY <1>2, PacketOnWire
<1>. QED
  BY <1>1, <1>3 DEF kPacketHeaderSize

LEMMA IInvInit == Init => IInv
<1>. SUFFICES ASSUME Init PROVE IInv
  OBVIOUS
<1>1. TypeOK /\ stream \in Streams
  BY TypeInit DEF TypeOK
<1>2. Len(Parsed) = 0 /\ Len(delivered) = 0
  BY DEF Init, Parsed
<1>3. Len(stream.sent) \in Nat /\ stream.at[1] = 0 /\ (0 < Len(stream.sent) => 0 < stream.at[2])
  BY <1>1, FirstOffsets, StreamType
<1>4. BufferMirrorsWire
  BY DEF Init, BufferMirrorsWire
<1>5. AtPacketStart
  BY <1>2, <1>3 DEF Init, AtPacketStart, IsPrefixOfSent, base
<1>6. NextIncomplete
  BY <1>2, <1>3 DEF NextIncomplete, Init
<1>. QED
  BY <1>1, <1>4, <1>5, <1>6 DEF IInv, LocalsReset, Init

\* Taking the next packet keeps the parser at the start of a packet.
LEMMA TakePacket ==
    ASSUME IInv, Sound, HasPacket, TypeOK',
           UNCHANGED << stream, received, readBufferHead, delivered >>,
           packets' = Append(packets, stream.sent[Len(Parsed) + 1]),
           packetStartOffset' = packetStartOffset + kPacketHeaderSize + length
    PROVE  AtPacketStart'
<1>. DEFINE k == Len(Parsed) + 1
            p == stream.sent[k]
<1>1. k \in 1..Len(stream.sent) /\ length = Len(p.body) /\ stream \in Streams
  BY NextHeader DEF HasPacket, IInv, TypeOK
<1>2. /\ p \in Packets /\ Len(p.body) \in Nat /\ stream.at[k] \in Nat
      /\ stream.at[k + 1] = stream.at[k] + kPacketHeaderSize + Len(p.body)
  BY <1>1, PacketOnWire
<1>3. /\ delivered \in Seq(Packets) /\ packets \in Seq(Packets)
      /\ Parsed \in Seq(Packets) /\ Len(Parsed) \in Nat
  BY DEF IInv, TypeOK, Packets, Parsed
<1>4. Parsed' = Append(Parsed, p)
  BY <1>2, <1>3 DEF Parsed
<1>5. Len(Parsed') = k /\ \A j \in 1..k : Parsed'[j] = IF j = k THEN p ELSE Parsed[j]
  BY <1>2, <1>3, <1>4
<1>6. IsPrefixOfSent(Parsed) /\ base + packetStartOffset = stream.at[k]
  BY DEF IInv, AtPacketStart
<1>7. /\ received \in Nat /\ readBufferHead \in Nat /\ packetStartOffset \in Nat
  BY <1>1, StreamType, ReaderAssumption DEF IInv, TypeOK
<1>. HIDE DEF k, p
<1>8. base' + packetStartOffset' = stream.at[k + 1]
  <2>1. base' = base /\ base \in Int /\ length \in Nat
    BY <1>1, <1>2, <1>7 DEF base
  <2>2. base' + packetStartOffset' = base + packetStartOffset + kPacketHeaderSize + length
    BY <1>7, <2>1 DEF kPacketHeaderSize
  <2>. QED
    BY <1>1, <1>2, <1>6, <2>2
<1>9. k = Len(Parsed) + 1 /\ stream.sent[k] = p
  BY DEF p, k
<1>10. \A j \in 1..k : Parsed'[j] = stream.sent[j]
  <2>. TAKE j \in 1..k
  <2>1. CASE j = k
    BY <2>1, <1>5, <1>9
  <2>2. CASE j # k
    <3>1. j \in 1..Len(Parsed)
      BY <2>2, <1>3, <1>9
    <3>. QED
      BY <2>2, <3>1, <1>5, <1>6 DEF IsPrefixOfSent
  <2>. QED
    BY <2>1, <2>2
<1>. QED
  BY <1>1, <1>5, <1>8, <1>10 DEF AtPacketStart, IsPrefixOfSent

LEMMA IInvNext == IInv /\ [Next]_vars => IInv'
<1>. SUFFICES ASSUME IInv, [Next]_vars PROVE IInv'
  OBVIOUS
<1>. USE DEF BufferMirrorsWire, AtPacketStart, NextIncomplete
<1>0. TypeOK /\ TypeOK' /\ stream \in Streams
  BY TypeNext DEF IInv, TypeOK
<1>a. /\ BufSize \in Nat /\ received \in Nat /\ readBufferHead \in 0..BufSize
      /\ packetStartOffset \in 0..readBufferHead
      /\ Len(stream.sent) \in Nat
  BY <1>0, StreamType, ReaderAssumption DEF TypeOK
<1>b. delivered \in Seq(Packets) /\ packets \in Seq(Packets)
  BY <1>0 DEF TypeOK, Packets
<1>1. CASE ReceivePackets
  <2>1. UNCHANGED << stream, stale, received, readBuffer, readBufferHead, packetStartOffset,
                     packets, delivered >> /\ pc = "idle" /\ pc' = "reading"
    BY <1>1 DEF ReceivePackets, bufferVars, parserVars, streamVars
  <2>. QED
    BY <2>1, <1>0 DEF IInv, LocalsReset, Sound, IsServerStream, IsPrefixOfSent, Parsed, base
<1>2. ASSUME NEW n \in ReadSizes, ReceiveBytes(n) PROVE IInv'
  <2>1. /\ UNCHANGED << stream, stale, delivered >>
        /\ received' = received + n /\ readBufferHead' = readBufferHead + n
        /\ packetStartOffset = 0 /\ packetStartOffset' = 0
        /\ packets = << >> /\ packets' = << >>
        /\ pc' = "parsing"
    BY <1>2 DEF ReceiveBytes, streamVars, IInv, LocalsReset
  <2>2. n \in Nat
    <3>1. stream.at[Len(stream.sent) + 1] \in Nat
      BY <1>0, StreamType
    <3>. QED
      BY <3>1, <1>a DEF ReadSizes, Minimum
  <2>3. base' = base /\ base \in Int
    BY <2>1, <2>2, <1>a DEF base
  <2>4. Parsed' = Parsed
    BY <2>1 DEF Parsed
  <2>5. ASSUME Sound PROVE BufferMirrorsWire'
    <3>. SUFFICES ASSUME NEW i \in 0..readBufferHead + n - 1
                  PROVE  readBuffer'[i] = stream.wire[base + i]
      BY <2>1, <2>2, <2>3, <2>5, <1>a DEF IInv
    <3>0. i \in 0..BufSize - 1
      BY <2>1, <2>2, <1>0, <1>a DEF TypeOK
    <3>1. CASE i < readBufferHead
      BY <3>0, <3>1, <2>5, <1>2, <1>a DEF ReceiveBytes, IInv
    <3>2. CASE i >= readBufferHead
      <4>1. i \in readBufferHead..readBufferHead + n - 1
        BY <3>2, <2>2, <1>a
      <4>2. received + (i - readBufferHead) = base + i
        BY <1>a DEF base
      <4>. QED
        BY <3>0, <4>1, <4>2, <1>2 DEF ReceiveBytes
    <3>. QED
      BY <3>1, <3>2, <1>a, <2>2
  <2>. QED
    BY <1>0, <2>1, <2>3, <2>4, <2>5 DEF IInv, LocalsReset, Sound, IsServerStream, IsPrefixOfSent
<1>3. CASE ReceiveError
  <2>1. UNCHANGED << stream, stale, received, readBuffer, readBufferHead, packetStartOffset,
                     packets, delivered >> /\ pc = "reading" /\ pc' = "closed"
    BY <1>3 DEF ReceiveError, bufferVars, parserVars, streamVars
  <2>. QED
    BY <2>1, <1>0 DEF IInv, LocalsReset, Sound, IsServerStream, IsPrefixOfSent, Parsed, base
<1>4. CASE ReturnPackets
  <2>1. /\ UNCHANGED << stream, stale, received >>
        /\ readBufferHead' = readBufferHead - packetStartOffset
        /\ packetStartOffset' = 0 /\ packets' = << >>
        /\ delivered' = delivered \o packets
    BY <1>4 DEF ReturnPackets, HeadAfterReturn, Continue, streamVars, sizeLeft
  <2>2. base' = base + packetStartOffset /\ base' + packetStartOffset' = base + packetStartOffset
    BY <2>1, <1>a DEF base
  <2>3. Parsed' = Parsed /\ delivered' = Parsed /\ Len(Parsed) \in Nat
    BY <2>1, <1>b DEF Parsed
  <2>4. ASSUME Sound PROVE BufferMirrorsWire'
    <3>. SUFFICES ASSUME NEW i \in 0..readBufferHead - packetStartOffset - 1
                  PROVE  readBuffer'[i] = stream.wire[(base + packetStartOffset) + i]
      BY <2>1, <2>2, <2>4, <1>a DEF IInv
    <3>1. i \in 0..BufSize - 1 /\ i + packetStartOffset < BufSize
          /\ i + packetStartOffset \in 0..readBufferHead - 1
      BY <1>a
    <3>2. readBuffer'[i] = readBuffer[i + packetStartOffset]
      BY <3>1, <1>4 DEF ReturnPackets, HeadAfterReturn, Continue, Rotated
    <3>3. base + (i + packetStartOffset) = (base + packetStartOffset) + i
      BY <1>a DEF base
    <3>. QED
      BY <3>1, <3>2, <3>3, <2>4 DEF IInv
  <2>5. ASSUME Sound PROVE NextIncomplete'
    <3>. DEFINE k == Len(Parsed) + 1
                p == stream.sent[k]
    <3>. SUFFICES ASSUME Len(Parsed) < Len(stream.sent) PROVE received < stream.at[k + 1]
      BY <2>1, <2>3
    <3>1. k \in 1..Len(stream.sent)
      BY <2>3, <1>a
    <3>2. /\ Len(p.body) \in Nat /\ stream.at[k] \in Nat
          /\ stream.at[k + 1] = stream.at[k] + kPacketHeaderSize + Len(p.body)
      BY <3>1, <1>0, PacketOnWire
    <3>3. base + packetStartOffset = stream.at[k]
      BY <2>5 DEF IInv
    <3>4. received = stream.at[k] + sizeLeft
      BY <3>3, <1>a DEF base, sizeLeft
    <3>. HIDE DEF k, p
    <3>n. sizeLeft \in Int /\ kPacketHeaderSize \in Nat
      BY <1>a DEF sizeLeft, kPacketHeaderSize
    <3>5. CASE ~HasHeader
      <4>1. sizeLeft < kPacketHeaderSize
        BY <3>5, <3>n DEF HasHeader
      <4>. QED
        BY <3>2, <3>4, <3>n, <4>1
    <3>6. CASE HasHeader /\ ~HasPacket
      <4>1. length = Len(p.body)
        BY <3>6, <2>5, NextHeader DEF k, p
      <4>2. sizeLeft < kPacketHeaderSize + Len(p.body)
        BY <3>2, <3>6, <3>n, <4>1 DEF HasPacket
      <4>. QED
        BY <3>2, <3>4, <3>n, <4>2
    <3>. QED
      BY <3>5, <3>6, <1>4 DEF ReturnPackets, HeadAfterReturn, Continue
  <2>. QED
    BY <1>0, <2>1, <2>2, <2>3, <2>4, <2>5
    DEF IInv, LocalsReset, Sound, IsServerStream, IsPrefixOfSent
<1>5. CASE ThrowInvalidType
  <2>1. ~Sound
    <3>. SUFFICES ASSUME Sound PROVE FALSE
      OBVIOUS
    <3>1. /\ Len(Parsed) + 1 \in 1..Len(stream.sent)
          /\ packetType = stream.sent[Len(Parsed) + 1].type
      BY <1>5, NextHeader DEF ThrowInvalidType
    <3>. QED
      BY <3>1, <1>5 DEF ThrowInvalidType, Sound, IsServerStream, IsServerPacket
  <2>2. UNCHANGED << stream, stale >> /\ packetStartOffset' = 0 /\ packets' = << >>
    BY <1>5 DEF ThrowInvalidType, streamVars
  <2>. QED
    BY <1>0, <2>1, <2>2 DEF IInv, LocalsReset, Sound, IsServerStream
<1>6. CASE ParsePacketWithBody
  <2>1. /\ UNCHANGED << stream, stale, received, readBuffer, readBufferHead, delivered, pc >>
        /\ pc = "parsing" /\ HasPacket
        /\ packets' = Append(packets, PacketOf(packetType, Body(length)))
        /\ packetStartOffset' = packetStartOffset + kPacketHeaderSize + length
    BY <1>6 DEF ParsePacketWithBody, bufferVars, streamVars
  <2>2. ASSUME Sound PROVE AtPacketStart'
    BY <1>0, <2>1, <2>2, NextBody, TakePacket
  <2>. QED
    BY <1>0, <2>1, <2>2 DEF IInv, LocalsReset, Sound, IsServerStream, base
<1>7. CASE ParseEmptyPacket
  <2>1. /\ UNCHANGED << stream, stale, received, readBuffer, readBufferHead, delivered, pc >>
        /\ pc = "parsing" /\ HasPacket /\ packetType \in {Heartbeat, Kick}
        /\ packets' = Append(packets, PacketOf(packetType, << >>))
        /\ packetStartOffset' = packetStartOffset + kPacketHeaderSize
    BY <1>7 DEF ParseEmptyPacket, bufferVars, streamVars
  <2>2. ASSUME Sound PROVE AtPacketStart'
    <3>. DEFINE p == stream.sent[Len(Parsed) + 1]
    <3>1. /\ Len(Parsed) + 1 \in 1..Len(stream.sent)
          /\ packetType = p.type /\ length = Len(p.body)
      BY <2>1, <2>2, NextHeader DEF HasPacket
    <3>2. p.body = << >>
      BY <2>1, <2>2, <3>1 DEF Sound, IsServerStream, IsServerPacket
    <3>3. p \in Packets
      BY <3>1, <1>0, PacketOnWire
    <3>4. PacketOf(packetType, << >>) = p
      BY <3>1, <3>2, <3>3 DEF PacketOf, Packets
    <3>5. length = 0
      BY <3>1, <3>2
    <3>6. packetStartOffset' = packetStartOffset + kPacketHeaderSize + length
      BY <2>1, <3>5, <1>a DEF kPacketHeaderSize
    <3>. QED
      BY <1>0, <2>1, <2>2, <3>4, <3>6, TakePacket
  <2>. QED
    BY <1>0, <2>1, <2>2 DEF IInv, LocalsReset, Sound, IsServerStream, base
<1>8. CASE ParseUnexpectedPacket
  <2>1. UNCHANGED << stream, stale, received, readBuffer, readBufferHead, packetStartOffset,
                     packets, delivered >> /\ pc' = "spinning"
    BY <1>8 DEF ParseUnexpectedPacket, bufferVars, parserVars, streamVars
  <2>. QED
    BY <2>1, <1>0 DEF IInv, LocalsReset, Sound, IsServerStream, IsPrefixOfSent, Parsed, base
<1>9. CASE Reconnect
  <2>1. /\ received' = 0 /\ delivered' = << >>
        /\ packets' = << >> /\ packetStartOffset' = 0 /\ stream' \in Streams
    BY <1>9 DEF Reconnect, parserVars, IInv, LocalsReset
  <2>2. ASSUME Sound' PROVE readBufferHead' = 0
    <3>1. ~(readBufferHead > 0) /\ readBufferHead' = readBufferHead
      BY <1>9, <2>2, Zenon DEF Reconnect, BufferAfterConnect, Sound
    <3>. QED
      BY <3>1, <1>a
  <2>3. /\ (stream.at[1])' = 0 /\ (0 < Len(stream.sent) => 0 < stream.at[2])'
        /\ Len(stream'.sent) \in Nat
    BY <2>1, FirstOffsets, StreamType
  <2>4. Len(Parsed') = 0 /\ Len(delivered') = 0
    BY <2>1 DEF Parsed
  <2>5. ASSUME Sound' PROVE BufferMirrorsWire'
    BY <2>1, <2>2, <2>5
  <2>6. ASSUME Sound' PROVE AtPacketStart'
    BY <2>1, <2>2, <2>3, <2>4, <2>6 DEF IsPrefixOfSent, base
  <2>7. NextIncomplete'
    BY <2>1, <2>3, <2>4
  <2>. QED
    BY <1>0, <2>1, <2>5, <2>6, <2>7 DEF IInv, LocalsReset
<1>10. CASE UNCHANGED vars
  BY <1>10, <1>0 DEF vars, IInv, LocalsReset, Sound, IsServerStream, IsPrefixOfSent, Parsed, base
<1>. QED
  BY <1>1, <1>2, <1>3, <1>4, <1>5, <1>6, <1>7, <1>8, <1>9, <1>10 DEF Next

\* However TCP cuts a stream, the packets taken from the buffer are the ones
\* sent, in order: Framing holds for every buffer size and every stream.
THEOREM ReaderFraming == Spec => []Framing
<1>1. IInv => Framing
  BY DEF IInv, Framing, AtPacketStart
<1>. QED
  BY <1>1, IInvInit, IInvNext, PTL DEF Spec

\* ReadToBuffer reads on only while the next packet is incomplete, for every
\* buffer size and every stream.
THEOREM ReaderHoldsNothingBack == Spec => []NothingHeldBack
<1>1. IInv => NothingHeldBack
  BY DEF IInv, NothingHeldBack, NextIncomplete
<1>. QED
  BY <1>1, IInvInit, IInvNext, PTL DEF Spec

\* An incomplete packet that fits the buffer leaves room in it: RoomToRead holds
\* for every buffer size and every stream, so the assert on bytesRead is safe.
THEOREM ReaderHasRoom == Spec => []RoomToRead
<1>1. ASSUME IInv, Deliverable, pc = "reading" PROVE 0 \notin ReadSizes
  <2>. DEFINE k == Len(delivered) + 1
  <2>1. /\ Sound /\ AtPacketStart /\ NextIncomplete
        /\ packetStartOffset = 0 /\ packets = << >>
    BY <1>1 DEF IInv, LocalsReset, Deliverable
  <2>2. /\ readBufferHead \in Nat /\ received \in Nat /\ BufSize \in Nat \ {0}
        /\ received <= stream.at[Len(stream.sent) + 1]
        /\ stream \in Streams /\ delivered \in Seq(Packets)
    BY <1>1, ReaderAssumption, StreamType DEF IInv, TypeOK, Packets
  <2>3. Parsed = delivered /\ Len(delivered) \in Nat /\ k \in Nat
    BY <2>1, <2>2 DEF Parsed
  <2>4. /\ Len(delivered) <= Len(stream.sent)
        /\ received - readBufferHead = stream.at[k]
    BY <2>1, <2>2, <2>3 DEF AtPacketStart, IsPrefixOfSent, base
  <2>5. Len(stream.sent) \in Nat /\ stream.at \in [1..Len(stream.sent) + 1 -> Nat]
    BY <2>2, StreamType
  <2>6. CASE k \in 1..Len(stream.sent)
    <3>1. received < stream.at[k + 1]
      BY <1>1, <2>1, <2>3, <2>5, <2>6 DEF NextIncomplete
    <3>2. stream.at[k + 1] = stream.at[k] + kPacketHeaderSize + Len(stream.sent[k].body)
      BY <2>2, <2>6, ReaderAssumption DEF IsStream
    <3>3. kPacketHeaderSize + Len(stream.sent[k].body) <= BufSize
      BY <1>1, <2>6 DEF Deliverable
    <3>4. stream.sent[k] \in Packets /\ stream.at[k] \in Nat
      BY <2>2, <2>5, <2>6, StreamType
    <3>5. Len(stream.sent[k].body) \in Nat
      BY <3>4 DEF Packets
    <3>6. readBufferHead < BufSize
      <4>1. PICK a \in Nat : a = stream.at[k]
        BY <3>4
      <4>2. PICK n \in Nat : n = Len(stream.sent[k].body)
        BY <3>5
      <4>3. received < a + 4 + n /\ 4 + n <= BufSize /\ received - readBufferHead = a
        BY <2>4, <3>1, <3>2, <3>3, <4>1, <4>2 DEF kPacketHeaderSize
      <4>. QED
        BY <2>2, <4>3
    <3>. QED
      BY <2>2, <3>6 DEF ReadSizes
  <2>7. CASE k = Len(stream.sent) + 1
    <3>1. readBufferHead = 0
      BY <2>2, <2>4, <2>5, <2>7
    <3>. QED
      BY <2>2, <3>1 DEF ReadSizes
  <2>. QED
    BY <2>3, <2>4, <2>5, <2>6, <2>7
<1>2. IInv => RoomToRead
  BY <1>1 DEF RoomToRead
<1>. QED
  BY <1>2, IInvInit, IInvNext, PTL DEF Spec

-----------------------------------------------------------------------------
(* Refinement *)

\* The initial states of the reader are initial states of the channel.
LEMMA ChannelInit == Init => Channel!Init
<1>1. ASSUME Init PROVE (IF Sound THEN delivered ELSE << >>) = << >>
  BY <1>1 DEF Init
<1>2. (Sound /\ pc # "closed") \in BOOLEAN
  OBVIOUS
<1>3. ASSUME Init PROVE stream.sent \in {s.sent : s \in Streams}
  BY <1>3 DEF Init
<1>. QED
  BY <1>1, <1>2, <1>3 DEF Channel!Init

\* The batch that ReturnPackets hands over is a Deliver step of the channel.
LEMMA ReturnDelivers ==
    ASSUME IInv, Sound, ReturnPackets, packets # << >>
    PROVE  Channel!Deliver
<1>1. /\ delivered' = Parsed /\ stream' = stream
      /\ pc = "parsing" /\ pc' # "closed"
  BY DEF ReturnPackets, Continue, Parsed, streamVars
<1>2. /\ delivered \in Seq(Packets) /\ packets \in Seq(Packets)
      /\ stream \in Streams /\ stream.sent \in Seq(Packets)
  BY StreamType DEF IInv, TypeOK, Packets
<1>3. /\ Parsed \in Seq(Packets) /\ Len(Parsed) \in Nat
      /\ Len(Parsed) = Len(delivered) + Len(packets) /\ Len(packets) > 0
  BY <1>2 DEF Parsed
<1>4. /\ Len(Parsed) <= Len(stream.sent)
      /\ \A k \in 1..Len(Parsed) : Parsed[k] = stream.sent[k]
  BY DEF IInv, AtPacketStart, IsPrefixOfSent
<1>5. Len(Parsed) \in Len(delivered) + 1..Len(stream.sent)
  BY <1>2, <1>3, <1>4
<1>6. Parsed = SubSeq(stream.sent, 1, Len(Parsed))
  BY <1>2, <1>3, <1>4
<1>7. Sound'
  BY <1>1 DEF Sound, ReturnPackets, Continue, streamVars
<1>. QED
  BY <1>1, <1>5, <1>6, <1>7 DEF Channel!Deliver

\* A step that keeps the stream of the connection keeps its soundness.
LEMMA SoundKept ==
    ASSUME UNCHANGED streamVars
    PROVE  Sound' = Sound /\ stream' = stream
BY DEF Sound, streamVars

\* On a sound connection every step but a reconnect is one of the channel.
LEMMA ChannelStep ==
    ASSUME IInv, Sound, [Next]_vars, UNCHANGED streamVars, Sound', stream' = stream
    PROVE  [Channel!Next]_Channel!vars \/ Reconnect
<1>. USE DEF Channel!vars
<1>1. CASE ReceivePackets
  BY <1>1 DEF ReceivePackets
<1>2. ASSUME NEW n \in ReadSizes, ReceiveBytes(n) PROVE [Channel!Next]_Channel!vars
  BY <1>2 DEF ReceiveBytes
<1>3. CASE ReceiveError
  BY <1>3 DEF ReceiveError, Channel!Next, Channel!Fail
<1>4. CASE ReturnPackets
  <2>1. CASE packets # << >>
    BY <1>4, <2>1, ReturnDelivers DEF Channel!Next
  <2>2. CASE packets = << >>
    <3>1. delivered' = delivered
      BY <1>4, <2>2 DEF ReturnPackets, HeadAfterReturn, Continue, IInv, TypeOK
    <3>. QED
      BY <1>4, <3>1 DEF ReturnPackets, HeadAfterReturn, Continue
  <2>. QED
    BY <2>1, <2>2
<1>5. CASE ThrowInvalidType
  BY <1>5 DEF ThrowInvalidType, Channel!Next, Channel!Fail
<1>6. CASE ParsePacketWithBody
  BY <1>6 DEF ParsePacketWithBody
<1>7. CASE ParseEmptyPacket
  BY <1>7 DEF ParseEmptyPacket
<1>8. CASE ParseUnexpectedPacket
  BY <1>8 DEF ParseUnexpectedPacket
<1>9. CASE UNCHANGED vars
  BY <1>9 DEF vars
<1>. QED
  BY <1>1, <1>2, <1>3, <1>4, <1>5, <1>6, <1>7, <1>8, <1>9 DEF Next

\* Every step of the reader is a step of the channel or leaves it unchanged.
LEMMA ChannelNext ==
    ASSUME IInv, [Next]_vars
    PROVE  [Channel!Next]_Channel!vars
<1>1. CASE Reconnect
  <2>1. stream'.sent \in {s.sent : s \in Streams} /\ delivered' = << >>
    BY <1>1 DEF Reconnect
  <2>2. (IF Sound' THEN delivered' ELSE << >>) = << >>
    BY <2>1
  <2>3. (Sound' /\ pc' # "closed") \in BOOLEAN
    OBVIOUS
  <2>. QED
    BY <2>1, <2>2, <2>3 DEF Channel!Next, Channel!Connect
<1>2. CASE ~Reconnect
  <2>1. UNCHANGED streamVars
    BY <1>2 DEF Next, vars, streamVars, ReceivePackets, ReceiveBytes, ReceiveError,
        ReturnPackets, Continue, ThrowInvalidType, ParsePacketWithBody, ParseEmptyPacket, ParseUnexpectedPacket
  <2>2. Sound' = Sound /\ stream' = stream
    BY <2>1, SoundKept
  <2>3. CASE Sound
    BY <1>2, <2>1, <2>2, <2>3, ChannelStep
  <2>4. CASE ~Sound
    BY <2>2, <2>4 DEF Channel!vars
  <2>. QED
    BY <2>3, <2>4
<1>. QED
  BY <1>1, <1>2

\* The reader implements the channel that PacketStream::ReceivePackets promises,
\* for every buffer, every set of streams and any number of connections.
THEOREM ReaderImplementsChannel == Spec => ImplementsChannel
<1>1. IInv /\ [Next]_vars => [Channel!Next]_Channel!vars
  BY ChannelNext
<1>. QED
  BY <1>1, ChannelInit, IInvInit, IInvNext, PTL DEF Spec, ImplementsChannel, Channel!Spec
=============================================================================
