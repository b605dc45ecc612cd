SPECIFICATION Spec
CONSTANTS
    Heads <- MCHeads
    MaxRequests = 2
    MaxBody = 2
    DrainLimit = 1
    ChunkedBodies <- MCChunkedBodies
    MaxPieces = 1
    EagerAfterChunked = FALSE
    EarlyStream = FALSE
    MaxInspect = 1
    UpgradeIdle = 4
    MaxRelayed = 2
    H2BodyLimit = 1
    H2Idle = 2
    MaxH2Moves = 2
CHECK_DEADLOCK FALSE
INVARIANT
    RequestsInSync
