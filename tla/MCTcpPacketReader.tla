------------------------- MODULE MCTcpPacketReader -------------------------
(***************************************************************************)
(* TcpPacketReader for TLC: the streams are all the sequences of at most   *)
(* MaxPackets packets of a small set, laid out by SerializeInto.           *)
(***************************************************************************)
EXTENDS TcpPacketReader, SequencesExt

CONSTANTS PacketSet, MaxPackets

\* The bytes of a sequence of packets and the offset of each packet in them.
StreamOf(sent) ==
    LET bytes == FlattenSeq([k \in 1..Len(sent) |-> SerializeInto(sent[k])])
        offset(k) == Len(FlattenSeq([i \in 1..k - 1 |-> SerializeInto(sent[i])]))
    IN [sent |-> sent,
        wire |-> [i \in 0..Len(bytes) - 1 |-> bytes[i + 1]],
        at   |-> [k \in 1..Len(sent) + 1 |-> offset(k)]]

MCStreams == {StreamOf(sent) : sent \in BoundedSeq(PacketSet, MaxPackets)}

\* Server packets, with bodies that look like headers so that a wrong offset is
\* noticed, of the size of the buffer and longer; and packets a server does not
\* send: an acknowledgement and an unknown type.
MixedPackets ==
    { PacketOf(Handshake, << Data >>),
      PacketOf(Heartbeat, << >>),
      PacketOf(Data, << Kick, 0, 0, 0, 7 >>),
      PacketOf(Data, << Kick, 0, 0, 0, 7, 8 >>),
      PacketOf(HandshakeAck, << >>),
      PacketOf(0, << >>) }

FewPackets == { PacketOf(Kick, << >>), PacketOf(Data, << Kick, 0, 0, 0, 7 >>) }

-----------------------------------------------------------------------------
(* What the source says and the code does not do *)

\* "_readBufferHead points to the first position that does not contain a valid
\* byte" (src/connection/tcp_packet_stream.cpp:166-167): the bytes before it are
\* bytes received on this connection.
BufferHoldsThisConnection == readBufferHead <= received
=============================================================================
