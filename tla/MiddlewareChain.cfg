\* Several requests through cache, compression, auth, CORS and rate limit.
CONSTANTS
    g1 = g1
    g2 = g2
    Procs <- MCProcs
    Clients <- MCClients
    Burst = 2
    Rate = 1
    MaxBuckets = 1
    IdleTTL = 0
    MaxTime = 2
    Keys <- MCKeys
    MaxEntries = 1
    DefaultTTL = 1
    Requests <- MCRequests
    Replies <- MCReplies
    AllowOrigins = {"o1"}
    AllowCredentials = TRUE
    AuthType = "jwt"
    Guarded = {"guarded"}
    MaxRequests = 3
SYMMETRY MCSymmetry
SPECIFICATION Spec
INVARIANTS
    CacheSafe
    HitsFresh
    AdmissionBounded
CHECK_DEADLOCK FALSE
