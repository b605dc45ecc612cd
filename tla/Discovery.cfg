SPECIFICATION DiscoverySpec
CONSTANTS
    c1 = c1
    c2 = c2
    Containers = {c1, c2}
    QueueSize = 1
    MaxChanges = 2
    MaxFailures = 1
CHECK_DEADLOCK FALSE
INVARIANTS
    EventsSuffice
PROPERTIES
    RoutesStabilise
    StopAfterStreamEnds
