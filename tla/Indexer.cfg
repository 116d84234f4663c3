CONSTANTS
    EventIds = {"e1", "e2", "e3"}
    EventMatches = {"m1", "m2"}
    CacheSize = 2
    EventTtl = 2
    MaxIndexed = 3
    CachedMatches = {"m1"}
    Replicas = {"r1", "r2"}
    Lists = {"stats"}
    Shared = TRUE
    MaxRollbacks = 1
    MaxCacheFaults = 1
    HistoryPlayers = {"p1", "p2"}
    PageLimit = 1
    MaxRows = 3
    MaxReorgs = 1
    MaxId = 5
    Limits = {0, 1, 2}
    Instances = {"r1", "r2"}
    LeaderKey = "leader"
    LeaseTtl = 3
    PollInterval = 1
    MaxSkew = 1
    MaxLeaseFaults = 2
SPECIFICATION MCSpec
INVARIANTS CachesSound 
PROPERTIES  LeaseHolds PushesSound
CHECK_DEADLOCK FALSE
