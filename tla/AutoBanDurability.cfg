SPECIFICATION Spec
CONSTANTS
    ip1 = ip1
    ip2 = ip2
    k1 = k1
    k2 = k2
    IPs = {ip1}
    Callers = {k1, k2}
    Paths = {"p1"}
    Whitelists = {{}, {ip1}}
    Limits <- MCLimits
    DiskFails = TRUE
    Crashes = TRUE
    MaxTime = 2
CHECK_DEADLOCK FALSE
INVARIANTS
    RestartRetainsBans
PROPERTIES
    ActiveBanKept
    ExpiredPurged
