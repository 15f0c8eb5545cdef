SPECIFICATION Spec
CHECK_DEADLOCK FALSE
INVARIANT ReleasedWhenAnswered
CONSTANTS
    Jobs = {r1, r2}
    Scripts <- MCScripts
    Buffer = 2
    PoolThreads = 1
    MaxQueue = 1
