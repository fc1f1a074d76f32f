----------------------------- MODULE MCSession ------------------------------
(* The runs of Session and its parser: ids of one, two and three digits,   *)
(* bodies whose length takes one and two bytes, with and without           *)
(* compression, and routes at the limits of their length field.            *)
EXTENDS Session, TLC

Short == <<2>>
Long == [i \in 1..64 |-> i % 2]

MCDeflated == (Long :> <<7, 9>>) @@ (Short :> <<7, 8>>)
MCDict == (<<5, 5>> :> 70)

MCAsks ==
    {[id |-> 31, route |-> <<1>>, data |-> Short],
     [id |-> 1061, route |-> <<4, 1>>, data |-> Long],
     [id |-> NoId, route |-> [i \in 1..63 |-> 3], data |-> <<>>],
     [id |-> 32, route |-> <<5, 5>>, data |-> Short],
     [id |-> 2, route |-> [i \in 1..64 |-> 3], data |-> Short]}

Answer(id, error, data, zipped) ==
    [type |-> RESPONSE, id |-> id, error |-> error, route |-> NoRoute, data |-> data,
     zipped |-> zipped]

MCMessages ==
    {Answer(31, TRUE, <<0, 5>>, FALSE),
     Answer(1061, FALSE, Long, TRUE),
     [type |-> PUSH, id |-> NoId, error |-> FALSE, route |-> <<1, 4>>, data |-> Long,
      zipped |-> FALSE]}

MCPackages ==
    {[type |-> HANDSHAKE, body |-> <<2>>],
     [type |-> HEARTBEAT, body |-> <<>>],
     [type |-> KICK, body |-> <<>>]} \cup {Package(m) : m \in MCMessages}

MCNone == {}
=============================================================================
