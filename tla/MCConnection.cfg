SPECIFICATION Spec
CONSTANTS
    r1 = r1
    r2 = r2
    routeA = routeA
    Requests <- TwoRequests
    RouteOf <- KnownRoutes
    Dicts <- OneDict
    Sent = {"Handshake", "Kick", "Response"}
    MaxBatch = 2
    MaxQueued = 2
    MaxHeartbeats = 1
    MaxStarts = 2
    Restart = "when idle"
SYMMETRY Symmetry
INVARIANTS
    TypeOK
    RequestAccounted
    ResponseReachesItsRequest
    IdsIdentify
    OneReader
    EndedIsClosed
    StartHasSocketAlone
    RequestTimed
CHECK_DEADLOCK FALSE
