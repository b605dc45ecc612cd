SPECIFICATION Spec
CONSTANTS
    c1 = c1
    c2 = c2
    c3 = c3
    c4 = c4
    c5 = c5
    w1 = w1
    w2 = w2
    nil = nil
    Conns = {c1, c2, c3, c4, c5}
    Workers = {w1, w2}
    MaxQueueSize = 1
    NoConn = nil
CHECK_DEADLOCK FALSE
INVARIANTS
    Backpressure
    SweptStayClosed
    ServeReturnsClean
PROPERTY
    ShutdownStopsServe
