------------------------------ MODULE MCAuthFlow ------------------------------
EXTENDS AuthFlow, TLC

\* Interchangeable names; not used with liveness.
Symmetry ==
    Permutations(Nonces) \cup Permutations(Requests) \cup Permutations(Clients)
        \cup Permutations(Workers)
=============================================================================
