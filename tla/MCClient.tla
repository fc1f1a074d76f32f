------------------------------ MODULE MCClient ------------------------------
\* The instance of Client for TLC.
EXTENDS Client, TLC

\* Messages and handlers are told apart by nothing but their names.
Symmetry == Permutations(Reqs) \cup Permutations(Notifies) \cup Permutations(Handlers)
=============================================================================
