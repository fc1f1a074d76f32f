----------------------------- MODULE MCTlsWrite -----------------------------
(* Model values for the runs of TlsWrite.                                  *)
EXTENDS TlsWrite
=============================================================================
