------------------------- MODULE MCTcpPacketWriter -------------------------
(***************************************************************************)
(* TcpPacketWriter for TLC.                                                *)
(***************************************************************************)
EXTENDS TcpPacketWriter

-----------------------------------------------------------------------------
(* What the source says and the code does not do *)

\* "Put the buffer into the write set." (src/connection/tcp_packet_stream.cpp:158):
\* the bytes of a packet stay alive until they are written.
BufferOutlivesWrite == \A j \in 1..Len(wire) : wire[j].form # "garbled"
=============================================================================
