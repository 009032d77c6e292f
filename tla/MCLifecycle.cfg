SPECIFICATION FairLifeSpec
CONSTANTS
    r1 = r1
    routeA = routeA
    Requests <- OneRequest
    RouteOf <- KnownRoutes
    Dicts <- SomeDicts
    Sent = {"Handshake", "BadHandshake", "Heartbeat", "Kick", "Push", "BadData", "Response", "ErrorResponse"}
    MaxBatch = 2
    MaxQueued = 2
    MaxHeartbeats = 1
    MaxStarts = 1
    Restart = "after event"
INVARIANT
    DestroyedQuietly
PROPERTIES
    ProgramEnds
CHECK_DEADLOCK FALSE
