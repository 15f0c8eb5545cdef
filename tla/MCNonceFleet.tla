----------------------------- MODULE MCNonceFleet -----------------------------
EXTENDS NonceFleet, TLC

MCPrelude == <<"tls", "auth">>

\* Interchangeable names.
Symmetry == Permutations(Nodes) \cup Permutations(Nonces) \cup Permutations(Calls)
=============================================================================
