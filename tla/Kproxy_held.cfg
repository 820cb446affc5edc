SPECIFICATION Spec
CONSTANTS
    None = None
    Conns = {1, 2}
    Schemes = {"https"}
    Heads <- MCHeads
    ICANN <- MCICANN
    Private <- MCPrivate
    IPs <- MCIPs
    Puts <- MCPuts
    Decisions <- MCDecisions
    Removals <- MCRemovals
    Files <- MCFiles
    GoodTargets = {"rpi:80"}
    HasFile = TRUE
    Flag = "deny"
    MaxConns = 2
    MaxPending = 1
    MaxStatsKeys = 2
    MaxChanges = 2
    MaxArrivals = 2
    MaxFaults = 1
INVARIANTS
    FileAgrees
    NoLostWakeup
    HeldListed
PROPERTY
    EveryConnEnds
CHECK_DEADLOCK FALSE
