CONSTANTS
    w1 = w1
    w2 = w2
    t1 = t1
    t2 = t2
    Workers = {w1}
    Threads = {t1}
    WorkerOf <- MCWorkerOf
    NoNonce = NoNonce
    Nonces = {n1, n2, n3}
    Timeouts = {1, 2}
    Capacity = 2
    EvictSome = 1
    EvictMany = 2
    MaxClock = 3
SYMMETRY NonceSymmetry
SPECIFICATION Spec
INVARIANT SingleUse
