SPECIFICATION Spec
CHECK_DEADLOCK FALSE
INVARIANTS TypeOK NothingLeft NothingOverlooked MainReapsItsOwn HeldWhileVerified AnsweredOnce
PROPERTIES Answered
CONSTANTS
    Jobs = {r1, r2}
    Scripts <- MCScripts
    Buffer = 2
    PoolThreads = 1
    MaxQueue = 1
