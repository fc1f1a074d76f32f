---------------------------- MODULE MCPkgParser ----------------------------
(* The runs of PkgParser: packages without a body, with a body of one byte *)
(* that is a package type, and with a body whose length takes two bytes.   *)
EXTENDS PkgParser

MCPackages ==
    {[type |-> HANDSHAKE, body |-> <<2>>],
     [type |-> HEARTBEAT, body |-> <<>>],
     [type |-> DATA, body |-> <<2>>],
     [type |-> DATA, body |-> <<0, 1, 0, 5, 0, 0>>],
     [type |-> KICK, body |-> <<>>]}

MCNone == {}
MCShortData == {[type |-> DATA, body |-> <<2>>]}
=============================================================================
