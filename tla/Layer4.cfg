SPECIFICATION Spec
CONSTANTS
    c1 = c1
    c2 = c2
    u1 = u1
    w1 = w1
    w2 = w2
    nilClient = nilClient
    Conns = {c1, c2}
    MaxConnections = 1
    IdleTimeout = 1
    MaxBytes = 1
    UClients = {u1}
    UWorkers = {w1, w2}
    MaxSockets = 2
    MaxDatagrams = 2
    MaxReplies = 1
    SessionIdle = 1
    NoClient = nilClient
CHECK_DEADLOCK FALSE
INVARIANTS
    StreamsSafe
    SessionsSafe
PROPERTIES
    IdleMeansBothQuiet
    NothingOutlivesItsTraffic
