SPECIFICATION Spec
SYMMETRY Symmetry
INVARIANTS TypeOK SessionsEarned OneSessionPerChallenge OvershootInFlightOnly
PROPERTIES  RevokedKeepsChallenge
CONSTANTS
    Clients = {alice, bob}
    Workers = {w1, w2}
    Requests = {r1, r2}
    NoReq = NoReq
    Keys = {k, stray}
    Keyring = {k}
    Nonces = {n1}
    NoNonce = NoNonce
    NoClient = NoClient
    NoKey = NoKey
    HasPool = TRUE
    PoolThreads = 1
    MaxQueue = 1
    MemoryMayFail = TRUE
    FailureLimit = 1
    ChallengeTimeout = 1
    SessionTimeout = 1
    MaxClock = 3
