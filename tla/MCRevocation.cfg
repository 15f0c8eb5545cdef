SPECIFICATION Spec
INVARIANTS TypeOK WrongOnlyByRace CacheBounded FailsClosed
CONSTANTS
    Workers = {w1}
    k1 = k1
    k2 = k2
    Keys = {k1, k2}
    Comment = Comment
    Lists <- MCLists
    MaxSize = 2
    FailOpen = FALSE
    MaxClock = 4
