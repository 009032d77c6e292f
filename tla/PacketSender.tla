---------------------------- MODULE PacketSender ----------------------------
(***************************************************************************)
(* What PacketStream::SendPacket (include/pitaya/connection/               *)
(* packet_stream.h) promises its client: each packet it accepts has its    *)
(* SendHandler called once, and the handlers are called in the order in    *)
(* which the packets were submitted.                                       *)
(***************************************************************************)
EXTENDS Naturals, Sequences

CONSTANT Packets   \* the packets of the client, each one submitted once

VARIABLES
    submitted,     \* accepted packets, in the order of the calls
    called         \* packets whose handler was called, in that order

vars == << submitted, called >>

Init ==
    /\ submitted = << >>
    /\ called = << >>

Submit(p) ==
    /\ \A i \in 1..Len(submitted) : submitted[i] # p
    /\ submitted' = Append(submitted, p)
    /\ UNCHANGED called

CallNext ==
    /\ Len(called) < Len(submitted)
    /\ called' = Append(called, submitted[Len(called) + 1])
    /\ UNCHANGED submitted

Next == (\E p \in Packets : Submit(p)) \/ CallNext

Spec == Init /\ [][Next]_vars
=============================================================================
