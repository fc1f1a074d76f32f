---------------------------- MODULE MCConnection ----------------------------
(* The runs of Connection.                                                 *)
EXTENDS Connection
=============================================================================
