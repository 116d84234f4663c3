SPECIFICATION Spec
CONSTANTS
    Matches = {m1, m2}
    Players = {a, b, c}
    NoPlayer = none
    Stakes = {10, 200}
    Genesis = 1
    MaxLedger = 2
    InitialTimeout = 1
    MatchTimeouts = {1, 2}
    DisputePeriods = {}
    Freezable = {}
    MayPause = FALSE
    MayBlacklist = FALSE
    Vesting = 1
    RollbackWindow = 1
    MaxPause = 1
    StallWindow = 1
    VotingPeriod = 1
    MinHold = 1
    BondBps = 100
    QuorumBps = 2000
    MaxActive = 1
    MaxSnapshots = 1
    SilverMin = 1
    GoldMin = 6
    PlatinumMin = 10
    BronzeMax = 100
    SilverMax = 500
    GoldMax = 1000
SYMMETRY Symmetry
INVARIANT
    ActiveCountExact
CHECK_DEADLOCK FALSE
