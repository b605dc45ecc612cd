\* Edits of the configuration, requests at the engine's lock, and rotations of the logs.
CONSTANTS
    Workers = {"w1", "w2"}
    WafRequests <- MCRequests
    Configs <- MCConfigs
    Writers = {1, 2}
    LoadedBans = {"c"}
    MaxWafRequests = 2
    DefaultSinks = {"access"}
    RouteSinks = {"route"}
    MaxRotations = 2
    MaxMixed = 0
    MaxLogFaults = 1
    Edits <- MCEdits
SPECIFICATION Spec
PROPERTIES
    LatestConfigApplied
    SinksFollowRotation
    RequestsGetThrough
CHECK_DEADLOCK FALSE
