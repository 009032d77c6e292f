SPECIFICATION FairSpec
CONSTANTS
    Packets = {p1, p2, p3}
    MaxQueued = 2
    MaxConnections = 2
INVARIANTS
    TypeOK
    PostsMatchQueue
    BuffersAccounted
    NextIdFree
PROPERTIES
    AllCalled
    ImplementsSender
CHECK_DEADLOCK FALSE
