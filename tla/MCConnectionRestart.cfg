SPECIFICATION FairSpec
CONSTANTS
    r1 = r1
    r2 = r2
    routeA = routeA
    Requests <- OneRequest
    RouteOf <- KnownRoutes
    Dicts <- SomeDicts
    Sent = {"Handshake", "BadHandshake", "Heartbeat", "Kick", "Response", "ErrorResponse"}
    MaxBatch = 1
    MaxQueued = 1
    MaxHeartbeats = 1
    MaxStarts = 2
    Restart = "after event"
INVARIANTS
    StateMatchesEvents
    TimeoutOfThisConnection
    HeartbeatScheduled
    ConnectedIsReading
    HandshakeUndisturbed
PROPERTIES
    ImplementsContract
    RequestAnswered
    AttemptResolved
CHECK_DEADLOCK FALSE
