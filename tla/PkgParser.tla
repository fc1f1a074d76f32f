----------------------------- MODULE PkgParser -----------------------------
(***************************************************************************)
(* Packages on a connection: the server's bytes arrive in chunks cut       *)
(* anywhere, and the incremental parser of pr_pkg.c puts the packages      *)
(* together again and hands each one to the transport's handler, inside    *)
(* the loop over the chunk.  A handler may reset the transport, and with   *)
(* it the parser that is calling it.                                       *)
(*                                                                         *)
(* A byte is a number below Base (256 in the code) and the length field    *)
(* has LenBytes bytes (3 in the code).                                     *)
(***************************************************************************)
EXTENDS Naturals, Sequences

CONSTANTS
    Base,         \* values of a byte
    LenBytes,     \* PC_PKG_BODY_LEN_BYTES
    Packages,     \* the packages the server may send
    Undecodable,  \* those whose handler finds an error and resets the transport
    ReadSize,     \* PC_TCP_READ_BUFFER_SIZE
    MaxSent,      \* bound: packages sent on one connection
    MaxConns      \* bound: connections

Byte == 0..(Base - 1)
HeadBytes == 1 + LenBytes

\* pc_pkg_type, as far as a server sends it.
HANDSHAKE == 1
HEARTBEAT == 3
DATA == 4
KICK == 5
ServerType == {HANDSHAKE, HEARTBEAT, DATA, KICK}

ASSUME ParserAssumption ==
    /\ Base \in Nat /\ Base > KICK
    /\ LenBytes \in Nat \ {0}
    /\ \A p \in Packages : /\ p \in [type : ServerType, body : Seq(Byte)]
                           /\ Len(p.body) < Base ^ LenBytes
    /\ Undecodable \subseteq Packages
    /\ ReadSize \in Nat \ {0} /\ MaxSent \in Nat /\ MaxConns \in Nat

\* What a power is, which the provers do not know.
ASSUME PowerOfBase ==
    /\ Base ^ 0 = 1
    /\ \A k \in 0..(LenBytes - 1) : Base ^ (k + 1) = Base * Base ^ k
    /\ \A k \in 0..LenBytes : Base ^ k \in Nat \ {0}

VARIABLES
    state,      \* parser->state
    head,       \* head_buf up to head_offset
    body,       \* pkg_buf up to pkg_offset
    size,       \* pkg_size
    chunk,      \* what is left of the data being fed
    link,       \* is there a connection
    conns,      \* connections so far
    wire,       \* bytes sent on the connection and not yet read
    sent,       \* packages sent on the connection
    delivered   \* packages handed to the handler since it was made

parser == <<state, head, body, size>>
vars == <<state, head, body, size, chunk, link, conns, wire, sent, delivered>>

TypeOK ==
    /\ state \in {"HEAD", "BODY"}
    /\ head \in Seq(Byte) /\ Len(head) <= HeadBytes
    /\ size \in 0..(Base ^ LenBytes - 1)
    /\ body \in Seq(Byte) /\ Len(body) <= size
    /\ chunk \in Seq(Byte) /\ Len(chunk) <= ReadSize
    /\ link \in {"up", "down"}
    /\ conns \in 0..MaxConns
    /\ wire \in Seq(Byte)
    /\ sent \in Seq(Packages) /\ Len(sent) <= MaxSent

-----------------------------------------------------------------------------
\* pc_pkg_encode writes the length with its most significant byte first.
LenField(n) == [i \in 1..LenBytes |-> (n \div Base ^ (LenBytes - i)) % Base]
Encode(p) == <<p.type>> \o LenField(Len(p.body)) \o p.body

\* Mutant: the first byte of the length is the least significant one.
PkgLenLittle(h) ==
    LET value[i \in 0..LenBytes] ==
          IF i = 0 THEN 0 ELSE value[i - 1] + h[i + 1] * Base ^ (i - 1)
    IN value[LenBytes]

\* The length that a complete head announces.
PkgLen(h) ==
    LET value[i \in 0..LenBytes] == IF i = 0 THEN 0 ELSE value[i - 1] * Base + h[i + 1]
    IN value[LenBytes]

\* Mutant: as many bytes are copied as have been read.
TakenAll(need) == Len(chunk)

\* MIN(need_len, data_len).
Taken(need) == IF need < Len(chunk) THEN need ELSE Len(chunk)

First(n) == SubSeq(chunk, 1, n)
Rest(n)  == SubSeq(chunk, n + 1, Len(chunk))

\* pc_pkg_parser_init, and pc_pkg_parser_reset apart from the buffer it frees.
ParserReset ==
    /\ state' = "HEAD"
    /\ head' = <<>>
    /\ body' = <<>>
    /\ size' = 0

Init ==
    /\ state = "HEAD" /\ head = <<>> /\ body = <<>> /\ size = 0
    /\ chunk = <<>> /\ wire = <<>> /\ sent = <<>> /\ delivered = <<>>
    /\ link = "down" /\ conns = 0

\* Mutant: a body is parsed only with bytes left in the chunk.
BodyReadyLate == state = "BODY" /\ chunk # <<>>

\* The body is parsed in the same turn of pc_pkg_parser_feed's loop that
\* completed the head, so an empty one does not wait for more data.
BodyReady == state = "BODY" /\ (chunk # <<>> \/ size = Len(body))

\* pc_pkg_parser_feed has returned.
Idle == chunk = <<>> /\ ~BodyReady

-----------------------------------------------------------------------------
Connect ==
    /\ Idle
    /\ link = "down"
    /\ conns < MaxConns
    /\ link' = "up"
    /\ conns' = conns + 1
    /\ sent' = <<>> /\ delivered' = <<>>
    /\ UNCHANGED <<parser, chunk, wire>>

\* The server answers the handshake first, and sends nothing after a kick.
Send(p) ==
    /\ link = "up"
    /\ Len(sent) < MaxSent
    /\ p.type = HANDSHAKE <=> sent = <<>>
    /\ \A i \in DOMAIN sent : sent[i].type # KICK
    /\ sent' = Append(sent, p)
    /\ wire' = wire \o Encode(p)
    /\ UNCHANGED <<parser, chunk, link, conns, delivered>>

\* tcp__on_tcp_read_cb with n bytes.
Feed(n) ==
    /\ Idle
    /\ link = "up"
    /\ n <= Len(wire)
    /\ chunk' = SubSeq(wire, 1, n)
    /\ wire' = SubSeq(wire, n + 1, Len(wire))
    /\ UNCHANGED <<parser, link, conns, sent, delivered>>

\* pc__parse_pkg_head.
ParseHead ==
    /\ state = "HEAD"
    /\ chunk # <<>>
    /\ LET n == Taken(HeadBytes - Len(head))
           h == head \o First(n)
       IN /\ head' = h
          /\ chunk' = Rest(n)
          /\ IF Len(h) = HeadBytes
             THEN state' = "BODY" /\ body' = <<>> /\ size' = PkgLen(h)
             ELSE UNCHANGED <<state, body, size>>
    /\ UNCHANGED <<link, conns, wire, sent, delivered>>

\* tcp__reset closes the connection and resets the parser.
Closed == link' = "down" /\ wire' = <<>>

\* Handlers that reset the transport: a kick, and data that is refused.
Resets(p) == p.type = KICK \/ p \in Undecodable

\* pc__parse_pkg_body, with the handler it calls for a complete package; the
\* parser is reset whatever the handler did.
ParseBody ==
    /\ BodyReady
    /\ LET n == Taken(size - Len(body))
           b == body \o First(n)
           p == [type |-> head[1], body |-> b]
       IN /\ chunk' = Rest(n)
          /\ IF Len(b) = size
             THEN /\ delivered' = Append(delivered, p)
                  /\ ParserReset
                  /\ IF Resets(p) THEN Closed ELSE UNCHANGED <<link, wire>>
             ELSE /\ body' = b
                  /\ UNCHANGED <<state, head, size, link, wire, delivered>>
    /\ UNCHANGED <<conns, sent>>

\* Mutant: tcp__reset does not reset the parser.
LostUnparsed ==
    /\ Idle
    /\ link = "up"
    /\ Closed
    /\ UNCHANGED <<parser, chunk, conns, sent, delivered>>

\* A read error, a timer or the user resets the transport between two chunks.
Lost ==
    /\ Idle
    /\ link = "up"
    /\ Closed
    /\ ParserReset
    /\ UNCHANGED <<chunk, conns, sent, delivered>>

Next ==
    \/ Connect \/ Lost
    \/ \E p \in Packages : Send(p)
    \/ \E n \in 1..ReadSize : Feed(n)
    \/ ParseHead \/ ParseBody

Spec == Init /\ [][Next]_vars

-----------------------------------------------------------------------------
(* Properties.                                                             *)

\* The handler sees the packages of its connection in the order and with the
\* contents the server sent them, however they were cut into chunks.
FramesMatch ==
    /\ Len(delivered) <= Len(sent)
    /\ delivered = SubSeq(sent, 1, Len(delivered))

\* Once all bytes are read, all packages have been handed over: none waits for
\* the bytes of the next one.
NothingWithheld == Idle /\ link = "up" /\ wire = <<>> => delivered = sent

\* A new connection is parsed from its first byte.
FreshParser == link = "up" /\ sent = <<>> => state = "HEAD" /\ head = <<>>

-----------------------------------------------------------------------------
(* What an assertion of the code says and its run refutes.                 *)

\* tr_uv_tcp_i.c:90: the handler is called with the types a server sends.
TypeExpected == \A i \in DOMAIN delivered : delivered[i].type \in ServerType

=============================================================================
