\* The audit log after a reload and a rotation.
CONSTANTS
    Workers = {"w1"}
    WafRequests <- MCRequests
    Configs <- MCConfigs
    Writers = {1, 2}
    LoadedBans = {"c"}
    MaxWafRequests = 1
    DefaultSinks = {"access"}
    RouteSinks = {"route"}
    MaxRotations = 1
    MaxLogFaults = 1
    MaxMixed = 1
    Edits <- MCEdits
SPECIFICATION Spec
PROPERTY
    AuditFollowsRotation
CHECK_DEADLOCK FALSE
