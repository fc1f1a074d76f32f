------------------------------ MODULE MsgCodec ------------------------------
(***************************************************************************)
(* The messages inside DATA packages: what pr_msg.c writes for a request   *)
(* or a notify and what it reads from the server's bytes.  There is no     *)
(* state here; Session composes it with the packages of PkgParser.         *)
(*                                                                         *)
(* A byte is a number below Base (256 in the code), and a digit of a       *)
(* request id is one below half of that.  A route and a body are sequences *)
(* of bytes.  zlib is a table of the bodies it can compress.               *)
(***************************************************************************)
EXTENDS Naturals, Sequences

CONSTANTS
    Base,               \* values of a byte
    Dict,               \* route_to_code, as a function; empty without a dictionary
    Deflated,           \* the compressed form of a body
    DisableCompression  \* config->disable_compression

Digit == Base \div 2

\* pc_msg_type
REQUEST == 0
NOTIFY == 1
RESPONSE == 2
PUSH == 3

HasId(type) == type \in {REQUEST, RESPONSE}
HasRoute(type) == type # RESPONSE

\* PC_NOTIFY_PUSH_REQ_ID
NoId == 0

\* A NULL route.
NoRoute == <<>>

-----------------------------------------------------------------------------
(* Encoding.                                                               *)

\* pc__msg_encode_flag; the byte keeps what fits.
Flag(type, coded, zipped) == (type * 2 + coded + zipped * 16) % Base

\* Mutant: the most significant digit comes first.
EncodeIdBig(id) ==
    LET digits[n \in 0..id] ==
          IF n < Digit THEN <<n>> ELSE digits[n \div Digit] \o <<Digit + (n % Digit)>>
    IN digits[id]

\* The least significant digit comes first; all but the last are marked.
EncodeId(id) ==
    LET digits[n \in 0..id] ==
          IF n < Digit THEN <<n>> ELSE <<Digit + (n % Digit)>> \o digits[n \div Digit]
    IN digits[id]

OptionalId(type, id) == IF HasId(type) THEN EncodeId(id) ELSE <<>>

\* The length is cut to a byte, the route is not.
EncodeRoute(route) == <<Len(route) % Base>> \o route

WithRoute(id, type, route, zipped, bytes) ==
    <<Flag(type, 0, zipped)>> \o OptionalId(type, id) \o EncodeRoute(route) \o bytes

\* The parameters of the definition; the prototype and the call have the last
\* two numbers the other way round.
WithCode(id, type, compressed, routeCode, bytes) ==
    <<Flag(type, 1, compressed)>> \o OptionalId(type, id)
      \o <<(routeCode \div Base) % Base, routeCode % Base>> \o bytes

\* pc_body_json_encode: a body is sent compressed if that is shorter.
Shrinks(data) ==
    /\ ~DisableCompression
    /\ data \in DOMAIN Deflated
    /\ Len(Deflated[data]) < Len(data)

EncodeMsg(m) ==
    LET type == IF m.id = NoId THEN NOTIFY ELSE REQUEST
        zipped == IF Shrinks(m.data) THEN 1 ELSE 0
        bytes == IF Shrinks(m.data) THEN Deflated[m.data] ELSE m.data
    IN IF m.route \in DOMAIN Dict /\ Dict[m.route] > 0
       THEN WithCode(m.id, type, Dict[m.route], zipped, bytes)
       ELSE WithRoute(m.id, type, m.route, zipped, bytes)

-----------------------------------------------------------------------------
(* Decoding.  The result is a set: the message, or nothing if the code     *)
(* reports an error.                                                       *)

Bit(flag, n) == (flag \div 2 ^ n) % 2 = 1
From(data, at) == SubSeq(data, at, Len(data))

\* Up to the first digit without a mark.  Without one the offset stays.
DecodeId(data, at) ==
    LET last == {i \in at..Len(data) : data[i] < Digit}
        end == IF last = {} THEN Len(data)
               ELSE CHOOSE i \in last : \A j \in last : i <= j
        value[i \in at..(end + 1)] ==
          IF i > end THEN 0 ELSE (data[i] % Digit) + Digit * value[i + 1]
    IN [id |-> value[at], next |-> IF last = {} THEN at ELSE end + 1]

\* pc__resolve_dictionary.  The code takes every code to be in the dictionary, and
\* goes through a null pointer for one that is not; here that decodes to nothing.
\* No run and no theorem has such a message: the server writes routes in full.
Resolve(code) == {route \in DOMAIN Dict : Dict[route] = code}

\* A code's second byte is skipped.
CodedRoute(data, at) ==
    {[route |-> route, next |-> at + 2] :
       route \in IF at < Len(data) THEN Resolve(data[at]) ELSE {}}

\* (A length that is shorter than the message but goes beyond its end is not
\* modelled: the code reads whatever follows.)
PlainRoute(data, at) ==
    IF at > Len(data) \/ data[at] >= Len(data) THEN {}
    ELSE {[route |-> SubSeq(data, at + 1, at + data[at]), next |-> at + 1 + data[at]]}

DecodeRoute(data, at, type) ==
    CASE ~HasRoute(type)  -> {[route |-> NoRoute, next |-> at]}
      [] Bit(data[1], 0)  -> CodedRoute(data, at)
      [] OTHER            -> PlainRoute(data, at)

\* pr_decompress
Inflate(bytes) == {data \in DOMAIN Deflated : Deflated[data] = bytes}

\* Mutant: the compressed bit is tested where the error bit is.
DecodeBodySwapped(data, at) ==
    IF Bit(data[1], 5) /\ at <= Len(data) THEN Inflate(From(data, at)) ELSE {From(data, at)}

DecodeBody(data, at) ==
    IF Bit(data[1], 4) /\ at <= Len(data) THEN Inflate(From(data, at)) ELSE {From(data, at)}

DecodeMsg(data) ==
    LET type == (data[1] \div 2) % 8
        head == IF HasId(type) THEN DecodeId(data, 2) ELSE [id |-> NoId, next |-> 2]
    IN IF data = <<>> \/ type > PUSH THEN {}
       ELSE UNION {{[id |-> head.id, error |-> Bit(data[1], 5), route |-> r.route, data |-> d] :
                      d \in DecodeBody(data, r.next)} :
                     r \in DecodeRoute(data, head.next, type)}

=============================================================================
