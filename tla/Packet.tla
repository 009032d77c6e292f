------------------------------- MODULE Packet -------------------------------
(***************************************************************************)
(* The wire format of a pitaya packet (include/pitaya/protocol/packet.h    *)
(* and src/protocol/packet.cpp): one type byte, the length of the body in  *)
(* three bytes, most significant first, and the body.                      *)
(***************************************************************************)
EXTENDS Naturals, Sequences

Byte == 0..255

kPacketHeaderSize == 4

\* enum class PacketType : uint8_t
Handshake == 1
HandshakeAck == 2
Heartbeat == 3
Data == 4
Kick == 5

\* PacketTypeFromByte returns boost::none on any other byte.
IsPacketType(b) == b \in Handshake..Kick

\* A length that three bytes can carry.
MaxBodyLen == 16777216 - 1

FirstByte(val) == val % 256

SecondByte(val) == (val \div 256) % 256

ThirdByte(val) == (val \div 65536) % 256

\* A packet as the Packet struct holds it; type is the byte put on the wire.
PacketOf(type, body) == [type |-> type, body |-> body]

\* Packet::SerializeInto
SerializeInto(p) ==
    << p.type, ThirdByte(Len(p.body)), SecondByte(Len(p.body)), FirstByte(Len(p.body)) >>
        \o p.body

\* The length that ParsePacketsFromReadBuffer reads from the header bytes.
HeaderLength(b3, b2, b1) == 65536 * b3 + 256 * b2 + b1
=============================================================================
