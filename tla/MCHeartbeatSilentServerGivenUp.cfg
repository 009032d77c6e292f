SPECIFICATION HeartbeatSpec
CONSTANTS
    Intervals = {1, 2}
    kHeartbeatFactor = 3
    MaxLag = 1
    MaxSkew = 2
    MaxTime = 13
INVARIANTS
    SilentServerGivenUp
CHECK_DEADLOCK FALSE
