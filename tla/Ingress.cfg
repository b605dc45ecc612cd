SPECIFICATION Spec
CONSTANTS
    Ingresses <- MCIngresses
    Rule <- MCRule
    Pods = {"p1"}
    MaxChanges = 2
    MaxFaults = 1
    EventCap = 1
CHECK_DEADLOCK FALSE
PROPERTIES
    SnapshotsInOrder
    ControllerSettles
