------------------------------ MODULE Session -------------------------------
(***************************************************************************)
(* What is said on a connection: the client's requests and notifies on     *)
(* their way to the server, and the server's answers and pushes through    *)
(* the package parser and the message decoder to the transport's user.     *)
(*                                                                         *)
(* The server is external.  It writes and reads messages in the format of  *)
(* the protocol, which Wire gives, and answers a request it has understood *)
(* under the id it has read.                                               *)
(***************************************************************************)
EXTENDS PkgParser, FiniteSets

CONSTANTS
    Dict, Deflated, DisableCompression,
    Asks,        \* the messages the client may send: [id, route, data]
    Messages,    \* the messages the server may send
    MaxAsked     \* bound: messages the client sends on one connection

ASSUME SessionAssumption ==
    /\ Base >= 64 /\ Base % 2 = 0
    /\ \A route \in DOMAIN Dict : Dict[route] \in Nat
    /\ DisableCompression \in BOOLEAN
    /\ MaxAsked \in Nat

INSTANCE MsgCodec

VARIABLE written    \* messages written on the connection, and their bytes

sessionVars == <<vars, written>>

SessionTypeOK ==
    /\ TypeOK
    /\ \A w \in written : w.msg \in Asks /\ w.bytes \in Seq(Byte)

-----------------------------------------------------------------------------
(* The protocol.                                                           *)

\* How many digits an id has.
Digits(id) ==
    CHOOSE k \in 1..(id + 1) : id < Digit ^ k /\ \A j \in 1..(k - 1) : ~(id < Digit ^ j)

\* The digits of an id, least significant first; all but the last are marked.
WireId(id) ==
    LET n == Digits(id)
    IN [i \in 1..n |-> ((id \div Digit ^ (i - 1)) % Digit) + (IF i < n THEN Digit ELSE 0)]

Wire(m) ==
    <<m.type * 2 + (IF m.zipped THEN 16 ELSE 0) + (IF m.error THEN 32 ELSE 0)>>
      \o (IF HasId(m.type) THEN WireId(m.id) ELSE <<>>)
      \o (IF HasRoute(m.type) THEN <<Len(m.route)>> \o m.route ELSE <<>>)
      \o (IF m.zipped THEN Deflated[m.data] ELSE m.data)

\* The requests and notifies that have these bytes.
Understood(bytes) ==
    {m \in Asks :
       \E zipped \in {FALSE} \cup {m.data \in DOMAIN Deflated} :
         bytes = Wire([type |-> IF m.id = NoId THEN NOTIFY ELSE REQUEST, id |-> m.id,
                       error |-> FALSE, route |-> m.route, data |-> m.data,
                       zipped |-> zipped])}

Package(m) == [type |-> DATA, body |-> Wire(m)]

\* Requests and messages as their callers make them, and a zlib that loses nothing.
ASSUME MessagesAssumption ==
    /\ \A m \in Asks : m \in [id : Nat, route : Seq(Byte), data : Seq(Byte)]
    /\ \A m \in Messages :
         /\ m \in [type : {RESPONSE, PUSH}, id : Nat, error : BOOLEAN, route : Seq(Byte),
                   data : Seq(Byte), zipped : BOOLEAN]
         /\ m.zipped => m.data \in DOMAIN Deflated
         /\ m.type = RESPONSE => m.route = NoRoute
         /\ m.type = PUSH => m.id = NoId /\ Len(m.route) < Base
         /\ Package(m) \in Packages
    /\ \A data \in DOMAIN Deflated : Deflated[data] \in Seq(Byte) \ {<<>>}
    /\ \A a, b \in DOMAIN Deflated : Deflated[a] = Deflated[b] => a = b

\* What powers are, as far as the flags and the digits of the ids need them.
ASSUME Powers ==
    /\ 2 ^ 0 = 1 /\ 2 ^ 4 = 16 /\ 2 ^ 5 = 32
    /\ Digit ^ 0 = 1
    /\ \A m \in Asks \cup Messages : \E n \in 1..(m.id + 1) :
         /\ m.id < Digit ^ n
         /\ \A k \in 0..(n - 1) : /\ Digit ^ k \in Nat \ {0}
                                  /\ Digit ^ (k + 1) = Digit * Digit ^ k

\* What the transport's user should be told of a message.
Meant(m) == [id |-> m.id, error |-> m.error, route |-> m.route, data |-> m.data]

-----------------------------------------------------------------------------
SessionInit == Init /\ written = {}

\* A message as tr_uv_tcp_send encodes it, written after the handshake's answer.
Ask(m) ==
    /\ link = "up"
    /\ delivered # <<>>
    /\ Cardinality(written) < MaxAsked
    /\ \A w \in written : w.msg.id # m.id \/ m.id = NoId
    /\ written' = written \cup {[msg |-> m, bytes |-> EncodeMsg(m)]}
    /\ UNCHANGED vars

\* The server pushes, or answers what it has understood.
Say(m) ==
    /\ m.type = RESPONSE =>
         \E w \in written : \E ask \in Understood(w.bytes) : ask.id = m.id
    /\ Send(Package(m))
    /\ UNCHANGED written

\* The server's other packages.
Control(p) ==
    /\ p.type # DATA
    /\ Send(p)
    /\ UNCHANGED written

Open == Connect /\ written' = {}

Receive ==
    /\ \/ \E n \in 1..ReadSize : Feed(n)
       \/ ParseHead
       \/ ParseBody
       \/ Lost
    /\ UNCHANGED written

SessionNext ==
    \/ Open \/ Receive
    \/ \E m \in Asks : Ask(m)
    \/ \E m \in Messages : Say(m)
    \/ \E p \in Packages : Control(p)

SessionSpec == SessionInit /\ [][SessionNext]_sessionVars

-----------------------------------------------------------------------------
(* Properties.                                                             *)

\* The server reads the request that was made, under the id by which the client
\* knows it, for a route that is not in the dictionary and whose length a byte
\* holds: pr_msg.c's encoder speaks the protocol.
RequestsUnderstood ==
    \A w \in written :
      w.msg.route \notin DOMAIN Dict /\ Len(w.msg.route) < Base
        => Understood(w.bytes) = {w.msg}

\* Every message the server sent comes out of the package parser and the decoder
\* as it was meant: an answer under the id of a request of this connection and
\* with its error flag, a push with its route, the body as it was before it was
\* compressed.
AnswersMatch ==
    \A i \in DOMAIN delivered : delivered[i].type = DATA =>
      \E m \in Messages :
        /\ sent[i] = Package(m)
        /\ DecodeMsg(delivered[i].body) = {Meant(m)}
        /\ m.type = RESPONSE => \E w \in written : w.msg.id = m.id

=============================================================================
