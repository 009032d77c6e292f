----------------------------- MODULE MCDecoder ------------------------------
(***************************************************************************)
(* Decoder for TLC.                                                        *)
(***************************************************************************)
EXTENDS Decoder, TLC

\* Ids with one, two and three base 128 digits.
SomeIds == {1, 127, 128, 129, 16383, 16384, 2097151}

RouteA == << 2, 5 >>
RouteB == << 3 >>

\* One code that fits a byte, and one that does not.
SomeCodes == (RouteA :> 7) @@ (RouteB :> 259)

SomeRoutes == {RouteA}

Plain == {[size |-> n, zipped |-> FALSE, stream |-> [content |-> n, end |-> "whole"]] : n \in 1..4}

\* Compressed payloads, whole or not; none is empty but for a gzip bit without
\* data.
Zipped ==
    {[size |-> n, zipped |-> TRUE, stream |-> [content |-> c, end |-> e]] :
        n \in 3..4, c \in 0..17, e \in {"whole", "truncated", "corrupt"}}
        \union {[size |-> 0, zipped |-> TRUE, stream |-> [content |-> 0, end |-> "truncated"]]}

SomePayloads == Plain \union Zipped

\* "Failed to decompress message body" (src/protocol/message.cpp:157): a body
\* in which inflate finds an error is not taken for a message.
FailureIsReported ==
    pc = "done" /\ sent.type # Handshake /\ stream.end = "corrupt" /\ failed => result = None
=============================================================================
