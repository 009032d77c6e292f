SPECIFICATION HeartbeatSpec
CONSTANTS
    Intervals = {0, 1, 2}
    kHeartbeatFactor = 3
    MaxLag = 1
    MaxSkew = 2
    MaxTime = 13
INVARIANTS
    HeartbeatsKeepPace
    EndedOnlyBySilence
    MuteServerGivenUp
CHECK_DEADLOCK FALSE
