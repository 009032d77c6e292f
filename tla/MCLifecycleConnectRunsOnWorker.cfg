SPECIFICATION LifeSpec
CONSTANTS
    r1 = r1
    routeA = routeA
    Requests <- OneRequest
    RouteOf <- KnownRoutes
    Dicts <- SomeDicts
    Sent = {"Handshake", "BadHandshake", "Heartbeat", "Kick", "Push", "BadData", "Response", "ErrorResponse"}
    MaxBatch = 2
    MaxQueued = 2
    MaxHeartbeats = 1
    MaxStarts = 1
    Restart = "after event"
INVARIANT
    ConnectRunsOnWorker
CHECK_DEADLOCK FALSE
