SPECIFICATION FairSpec
CONSTANTS
    BufSize = 9
    MaxPackets = 2
    MaxConnections = 2
    PacketSet <- MixedPackets
    Streams <- MCStreams
INVARIANTS
    TypeOK
    Framing
    NothingHeldBack
    RoomToRead
PROPERTIES
    AllDelivered
    ImplementsChannel
CHECK_DEADLOCK FALSE
