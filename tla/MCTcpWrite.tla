----------------------------- MODULE MCTcpWrite -----------------------------
(* Model values for the runs of TcpWrite.                                  *)
EXTENDS TcpWrite
=============================================================================
