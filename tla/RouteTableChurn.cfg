SPECIFICATION Spec
CONSTANTS
    legacy = legacy
    d1 = d1
    k1 = k1
    oci = oci
    poll = poll
    ing = ing
    q1 = q1
    q2 = q2
    nil = nil
    Routes = {legacy, d1, k1}
    ConfigRoutes = {legacy}
    Updaters = {oci, poll, ing}
    Requests = {q1, q2}
    Paths = {"upload"}
    SourceOf <- MCSourceOf
    KeyOf <- MCKeyOf
    Matches <- MCMatches
    Rank <- MCRank
    Limit <- MCLimit
    ExportedOps = {"remove", "reset"}
    MaxGen = 2
    NoRoute = nil
INVARIANTS
    SlotAccounting
    GateCap
    BulkheadCapUntilSwap
    TableProxiesOpen
    NoProxyLeak
    SoleOwner
PROPERTIES
    ImplementsBulkhead
    EvictedEventuallyClosed
