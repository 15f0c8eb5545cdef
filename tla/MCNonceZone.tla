----------------------------- MODULE MCNonceZone -----------------------------
EXTENDS NonceZone, TLC

CONSTANTS w1, w2, t1, t2

MCWorkerOf == [t \in Threads |-> IF t = t1 THEN w1 ELSE w2]

NonceSymmetry == Permutations(Nonces)

=============================================================================
