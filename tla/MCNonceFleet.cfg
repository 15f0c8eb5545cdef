SPECIFICATION Spec
SYMMETRY Symmetry
INVARIANTS TypeOK FleetSingleUse  ReplayHadAttempt
CONSTANTS
    Nodes = {d1, d2}
    Nonces = {n1, n2}
    Calls = {c1, c2, c3}
    Prelude <- MCPrelude
    Expiry = 2
    Capacity = 1
    MaxLag = 1
    MaxFaults = 1
    MaxClock = 3
CHECK_DEADLOCK FALSE
