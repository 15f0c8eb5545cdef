SPECIFICATION Spec
CHECK_DEADLOCK FALSE
INVARIANTS TypeOK NearestWins SecretInEffect
CONSTANTS
    Values <- MCValues
    Disk <- MCDisk
    Enables <- MCEnables
    MaxGiven = 3
