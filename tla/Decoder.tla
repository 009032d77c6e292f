------------------------------ MODULE Decoder -------------------------------
(***************************************************************************)
(* What becomes of the bytes of a body: Message and Decompress together.   *)
(*                                                                         *)
(* A request is written with Message::SerializeInto and read by the        *)
(* server, which answers it or pushes a message; the client reads that     *)
(* with Message::Deserialize, which may call Decompress.  A handshake      *)
(* response is read by Connection::ReceiveHandshakeResponse in the same    *)
(* way.                                                                    *)
(*                                                                         *)
(* The bytes of a payload have no meaning but the first two of a           *)
(* compressed one, which IsCompressed looks at.                            *)
(***************************************************************************)
EXTENDS Gzip, Message

CONSTANTS
    ReqIds,         \* request ids
    routeToCode,    \* the route dictionary
    PlainRoutes,    \* routes a push may carry as a string
    Payloads        \* what the server sends: size, whether it is compressed, and its content

\* The server reads ids of up to three digits.
ASSUME IdsAssumption == \A id \in ReqIds : id \in Nat /\ id < 128 * 128 * 128

\* A code has two bytes and one route; a route has bytes, and a byte counts them.
ASSUME RoutesAssumption ==
    /\ \A r \in DOMAIN routeToCode : routeToCode[r] \in Nat /\ routeToCode[r] < 256 * 256
    /\ \A r, s \in DOMAIN routeToCode : routeToCode[r] = routeToCode[s] => r = s
    /\ \A r \in PlainRoutes : r \in Seq(0..255) /\ Len(r) < 256

\* What is not compressed is its own content; what is compressed has a header,
\* but for a gzip bit without data.
ASSUME PayloadsAssumption ==
    \A p \in Payloads :
        /\ p.size \in Nat /\ p.zipped \in BOOLEAN /\ p.stream \in Streams
        /\ IF p.zipped THEN p.size > 2 \/ (p.size = 0 /\ p.stream.content = 0)
                       ELSE p.stream.content = p.size

VARIABLES
    pc,             \* "client", "server", "read", "decompress" or "done"
    request,        \* the id and the route of the request
    wire,           \* bytes on their way
    got,            \* the request as the server read it
    sent,           \* the message or handshake that the server sent
    header,         \* what ReadHeader returned
    result          \* what the client made of it, or None

decoderVars == << pc, request, wire, got, sent, header, result >>

vars == << gzipVars, decoderVars >>

Routes == DOMAIN routeToCode

Init ==
    /\ GzipInit
    /\ pc = "client"
    /\ request \in [id : ReqIds, route : Routes]
    /\ wire = << >> /\ got = None /\ sent = None /\ header = None /\ result = None

\* The client writes a request: NewRequest and SerializeInto.
WriteRequest ==
    /\ pc = "client"
    /\ wire' = SerializeInto(NewRequest(request.id, request.route), routeToCode)
    /\ pc' = "server"
    /\ UNCHANGED << gzipVars, request, got, sent, header, result >>

\* The bytes of a payload.
Bytes(p) ==
    [i \in 1..p.size |-> IF p.zipped THEN (CASE i = 1 -> 120 [] i = 2 -> 156 [] OTHER -> 0)
                                     ELSE (IF i = 1 THEN 123 ELSE 34)]

\* A handshake packet, beside the types of messages.
Handshake == 4

\* What the server may send when it has read request r: the response, a push with
\* the route of the request as its code, one with a route as a string, or a
\* handshake response.
Replies(r, p) ==
    {[type |-> Response, id |-> r.id, error |-> e, coded |-> FALSE, gzip |-> p.zipped, payload |-> p] : e \in BOOLEAN}
        \union {[type |-> Push, coded |-> TRUE, code |-> r.code, error |-> FALSE, gzip |-> p.zipped, payload |-> p]}
        \union {[type |-> Push, coded |-> FALSE, route |-> s, error |-> FALSE, gzip |-> p.zipped, payload |-> p] : s \in PlainRoutes}
        \union {[type |-> Handshake, payload |-> p]}

ServerSends ==
    LET r == ServerReads(wire) IN
    /\ pc = "server"
    /\ got' = r
    /\ \E p \in Payloads : \E m \in Replies(r, p) :
          /\ sent' = m
          /\ wire' = (IF m.type = Handshake THEN << >> ELSE ServerHeader(m)) \o Bytes(p)
    /\ pc' = "read"
    /\ UNCHANGED << gzipVars, request, header, result >>

\* Mutant of IsCompressed: without zlib.
IsCompressedGzip(data) == Len(data) > 2 /\ data[1] = 31 /\ data[2] = 139

\* IsCompressed: the first bytes of zlib or gzip data.
IsCompressed(data) ==
    /\ Len(data) > 2
    /\ \/ data[1] = 120 /\ data[2] \in {156, 1, 218, 94}
       \/ data[1] = 31 /\ data[2] = 139

\* The handler of ReceiveHandshakeResponse: the body is all there is.
ReadHandshake ==
    /\ pc = "read"
    /\ sent.type = Handshake
    /\ header' = [type |-> Handshake, offset |-> 0, gzip |-> IsCompressed(wire)]

Deserialize ==
    /\ pc = "read"
    /\ sent.type # Handshake
    /\ header' = ReadHeader(wire, codeToRoute(routeToCode))

\* The body is read up to its payload; that is decompressed when it should be.
\* Decompress is called with the bytes behind the header.
Read ==
    /\ Deserialize \/ ReadHandshake
    /\ IF header' # None /\ header'.gzip
       THEN /\ CallDecompress(Len(wire) - header'.offset, sent.payload.stream)
            /\ pc' = "decompress"
            /\ UNCHANGED result
       ELSE /\ pc' = "done"
            /\ result' = IF header' = None THEN None
                         ELSE [header |-> header', size |-> Len(wire) - header'.offset]
            /\ UNCHANGED gzipVars
    /\ UNCHANGED << request, wire, got, sent >>

\* Mutant of UseDecompressed: the block is not freed.
UseDecompressedLeaks ==
    /\ pc = "decompress" /\ zpc = "returned"
    /\ zpc' = "idle" /\ pc' = "done"
    /\ result' = IF rc # Z_OK THEN None ELSE [header |-> header, size |-> output_size]
    /\ UNCHANGED << size, stream, output, size_uncompressed, output_size, avail_out, open, rc,
                    inflated, failed, request, wire, got, sent, header >>

\* Decompress has returned: none when rc is not zero, else the message with
\* *output_size bytes of data.
UseDecompressed ==
    /\ pc = "decompress"
    /\ Return
    /\ pc' = "done"
    /\ result' = IF rc # Z_OK THEN None ELSE [header |-> header, size |-> output_size]
    /\ UNCHANGED << request, wire, got, sent, header >>

Next ==
    \/ WriteRequest
    \/ ServerSends
    \/ Read
    \/ (Realloc \/ Inflate) /\ UNCHANGED decoderVars
    \/ UseDecompressed

Spec == Init /\ [][Next]_vars

\* The code runs on.
FairSpec == Spec /\ WF_vars(Next)

-----------------------------------------------------------------------------
(* Properties *)

\* The server reads from a request the id and the route that the client wrote,
\* for ids of one, two and three base 128 digits.
RequestIsRead ==
    got # None => got.type = Request /\ got.id = request.id /\ got.code = routeToCode[request.route]

\* Nothing went wrong below the decoder: zlib met no error, there was memory.
NoFault == ~failed /\ rc = Z_OK

Whole == result # None /\ result.size = sent.payload.stream.content

\* The data of a response, of a push and of a handshake response come whole,
\* compressed or not (of truncated data, what can be inflated); but for a push
\* with a code above 255, whose code is cut to a byte that may not be known.
ReplyIsWhole ==
    pc = "done" /\ NoFault /\ (sent.type = Push /\ sent.coded => sent.code < 256) => Whole

\* A response comes with the id of the request it answers and its error bit, a
\* push with the code of a route below 256 with that route.  A route sent as a
\* string is not read as it was sent.
ReplyIsNamed ==
    pc = "done" /\ result # None =>
        /\ sent.type = Response => result.header.id = request.id /\ result.header.error = sent.error
        /\ sent.type = Push /\ sent.coded /\ sent.code < 256 => result.header.route = request.route

\* Deserialize and ReceiveHandshakeResponse call Decompress as it expects: with
\* a size that is not negative, the block freed when the call succeeded.
CallsDecompress == GzipSpec

\* Every body is read to an end, whole, truncated or corrupt, also when inflate
\* fills the block to the last byte, but for a gzip bit without data: the block
\* is then always full, and the loop of Decompress does not end unless realloc
\* fails.
Decodes == <>(pc = "done" \/ (pc = "decompress" /\ size = 0))
=============================================================================
