SPECIFICATION Spec
CONSTANTS
    BufSize = 11
    MaxPackets = 2
    MaxConnections = 2
    PacketSet <- FewPackets
    Streams <- MCStreams
INVARIANTS
    BufferHoldsThisConnection
CHECK_DEADLOCK FALSE
