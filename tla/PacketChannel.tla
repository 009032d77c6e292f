--------------------------- MODULE PacketChannel ---------------------------
(***************************************************************************)
(* What the interface PacketStream::ReceivePackets                         *)
(* (include/pitaya/connection/packet_stream.h) promises its client: on     *)
(* each connection the packets the server sent reach the handlers in       *)
(* order, some at a time, until the connection fails (at once, maybe).     *)
(***************************************************************************)
EXTENDS Naturals, Sequences

CONSTANT Messages   \* the sequences of packets a server may send

VARIABLES sent, delivered, open

vars == << sent, delivered, open >>

Init ==
    /\ sent \in Messages
    /\ delivered = << >>
    /\ open \in BOOLEAN

\* A ReceiveHandler gets the next packets.
Deliver ==
    /\ open
    /\ \E n \in Len(delivered) + 1..Len(sent) : delivered' = SubSeq(sent, 1, n)
    /\ UNCHANGED << sent, open >>

\* A ReceiveHandler gets an error.
Fail ==
    /\ open
    /\ open' = FALSE
    /\ UNCHANGED << sent, delivered >>

Connect ==
    /\ sent' \in Messages
    /\ delivered' = << >>
    /\ open' \in BOOLEAN

Next == Deliver \/ Fail \/ Connect

Spec == Init /\ [][Next]_vars
=============================================================================
