------------------------------ MODULE Message -------------------------------
(***************************************************************************)
(* pitaya::protocol::Message (src/protocol/message.cpp): how a request is  *)
(* written and how a message of the server is read, over bytes.            *)
(*                                                                         *)
(* A route is the sequence of its bytes; a route dictionary is a function  *)
(* from routes to codes.  The server's side is external.                   *)
(***************************************************************************)
EXTENDS Integers, Sequences

\* MessageType
Request == 0
Notify == 1
Response == 2
Push == 3

\* The flag byte.
kMessageRouteCompressionMask == 1
kMessageGzipMask == 16
kMessageErrorMask == 32
kMessageHeaderLength == 2

HasBit(flag, mask) == (flag \div mask) % 2 = 1

TypeBits(flag) == (flag \div 2) % 8

HasId(type) == type \in {Request, Response}

IsMessageTypeRoutable(type) == type \in {Request, Notify, Push}

IsMessageTypeInvalid(type) == type > 3

\* Connected::codeToRoute, for a dictionary without two routes of one code.
codeToRoute(routeToCode) ==
    [code \in {routeToCode[r] : r \in DOMAIN routeToCode} |->
        CHOOSE r \in DOMAIN routeToCode : routeToCode[r] = code]

-----------------------------------------------------------------------------
(* Writing *)

\* Message::NewRequest: the data passed in is not used.
NewRequest(id, route) == [type |-> Request, id |-> id, route |-> route, data |-> << >>, error |-> FALSE]

\* The id as base 128 digits, the lowest first; all but the last have bit 7 set.
Varint(id) ==
    LET Digits[n \in 0..id] ==
            IF n < 128 THEN << n >> ELSE << 128 + (n % 128) >> \o Digits[n \div 128]
    IN Digits[id]

\* Mutant of RouteCode: the lower byte first.
RouteCodeLittle(code) == << code % 256, (code \div 256) % 256 >>

RouteCode(code) == << (code \div 256) % 256, code % 256 >>

\* Message::SerializeInto for a route of the dictionary; for any other one
\* routeDict.at throws before a byte is written.
SerializeInto(msg, routeDict) ==
    << kMessageRouteCompressionMask + IF msg.error THEN kMessageErrorMask ELSE 0 >>
        \o (IF HasId(msg.type) THEN Varint(msg.id) ELSE << >>)
        \o (IF IsMessageTypeRoutable(msg.type) THEN RouteCode(routeDict[msg.route]) ELSE << >>)
        \o msg.data

-----------------------------------------------------------------------------
(* Reading *)

\* Where the id that starts at offset ends: behind the first byte without bit 7.
IdEnd(buf, offset) ==
    LET ends == {i \in offset..Len(buf) - 1 : buf[i + 1] < 128} IN
    IF ends = {} THEN offset ELSE 1 + CHOOSE i \in ends : \A j \in ends : i <= j

\* Mutant of IdValue: bit 7 of a digit is not masked.
IdValueUnmasked(buf, offset) ==
    LET Digits[i \in offset..Len(buf)] ==
            IF i = Len(buf) THEN 0
            ELSE buf[i + 1] + IF buf[i + 1] < 128 THEN 0 ELSE 128 * Digits[i + 1]
    IN Digits[offset]

\* The sum of the digits of the id, digit i shifted by 7 * (i - offset).
IdValue(buf, offset) ==
    LET Digits[i \in offset..Len(buf)] ==
            IF i = Len(buf) THEN 0
            ELSE (buf[i + 1] % 128) + IF buf[i + 1] < 128 THEN 0 ELSE 128 * Digits[i + 1]
    IN Digits[offset]

None == [type |-> -1]

\* The route at offset, and where it ends.  The code is kept in a uint8_t; a
\* route that is not compressed is made by std::string(buf[offset], routeLength),
\* which repeats the character routeLength.
CompressedRoute(buf, offset, routes) ==
    LET code == buf[offset + 2] IN
    IF code \in DOMAIN routes THEN [route |-> routes[code], end |-> offset + 2] ELSE None

PlainRoute(buf, offset) ==
    LET routeLength == buf[offset + 1] IN
    [route |-> [i \in 1..buf[offset + 2] |-> routeLength], end |-> offset + 1 + routeLength]

ReadRoute(buf, offset, routes) ==
    LET type == TypeBits(buf[1]) IN
    CASE ~IsMessageTypeRoutable(type) -> [route |-> << >>, end |-> offset]
      [] IsMessageTypeRoutable(type) /\ HasBit(buf[1], kMessageRouteCompressionMask) ->
             CompressedRoute(buf, offset, routes)
      [] OTHER -> PlainRoute(buf, offset)

\* Message::Deserialize up to the data: the message without its data, and where
\* the data begin; None when the message is not valid.
ReadHeader(buf, routes) ==
    IF Len(buf) < kMessageHeaderLength \/ IsMessageTypeInvalid(TypeBits(buf[1]))
    THEN None
    ELSE LET type == TypeBits(buf[1])
             idEnd == IF HasId(type) THEN IdEnd(buf, 1) ELSE 1
             route == ReadRoute(buf, idEnd, routes)
         IN IF route = None
            THEN None
            ELSE [type |-> type,
                  id |-> IF HasId(type) THEN IdValue(buf, 1) ELSE 0,
                  error |-> HasBit(buf[1], kMessageErrorMask),
                  route |-> route.route,
                  offset |-> route.end,
                  gzip |-> HasBit(buf[1], kMessageGzipMask)]

-----------------------------------------------------------------------------
(* The server *)

\* The number of base 128 digits of the id of a request, when it is below 128^3.
ServerIdLength(buf) == CHOOSE k \in 1..3 : buf[k + 1] < 128 /\ \A j \in 1..k - 1 : buf[j + 1] >= 128

\* A request as the server reads it.
ServerReads(buf) ==
    LET n == ServerIdLength(buf)
        Digit(k) == IF k <= n THEN buf[k + 1] % 128 ELSE 0
    IN [type |-> TypeBits(buf[1]),
        id |-> Digit(1) + 128 * Digit(2) + 128 * 128 * Digit(3),
        code |-> 256 * buf[n + 2] + buf[n + 3],
        data |-> SubSeq(buf, n + 4, Len(buf))]

\* The base 128 digits of an id below 128^3.
ServerDigits(id) ==
    CASE id < 128 -> << id >>
      [] id >= 128 /\ id < 128 * 128 -> << 128 + (id % 128), id \div 128 >>
      [] OTHER -> << 128 + (id % 128), 128 + ((id \div 128) % 128), id \div (128 * 128) >>

\* A message of the server, ahead of its data.
ServerHeader(msg) ==
    << 2 * msg.type + (IF msg.coded THEN 1 ELSE 0) + (IF msg.gzip THEN 16 ELSE 0)
         + (IF msg.error THEN 32 ELSE 0) >>
        \o (IF msg.type = Response THEN ServerDigits(msg.id) ELSE << >>)
        \o (CASE msg.type # Push -> << >>
              [] msg.type = Push /\ msg.coded -> << msg.code \div 256, msg.code % 256 >>
              [] OTHER -> << Len(msg.route) >> \o msg.route)
=============================================================================
