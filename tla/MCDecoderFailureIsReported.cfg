SPECIFICATION Spec
CONSTANTS
    ReqIds <- SomeIds
    routeToCode <- SomeCodes
    PlainRoutes <- SomeRoutes
    Payloads <- SomePayloads
INVARIANT
    FailureIsReported
CHECK_DEADLOCK FALSE
