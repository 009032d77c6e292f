SPECIFICATION FairSpec
CONSTANTS
    ReqIds <- SomeIds
    routeToCode <- SomeCodes
    PlainRoutes <- SomeRoutes
    Payloads <- SomePayloads
INVARIANTS
    InflatesInBounds
    DecompressedWhole
    RequestIsRead
    ReplyIsWhole
    ReplyIsNamed
PROPERTIES
    
    Decodes
CHECK_DEADLOCK FALSE
