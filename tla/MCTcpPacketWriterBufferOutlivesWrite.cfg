SPECIFICATION Spec
CONSTANTS
    Packets = {p1, p2}
    MaxQueued = 2
    MaxConnections = 2
INVARIANTS
    BufferOutlivesWrite
CHECK_DEADLOCK FALSE
