SPECIFICATION Spec
CONSTANTS
    Matches = {m1, m2}
    Players = {a, b}
    NoPlayer = none
    Stakes = {10}
    Genesis = 1
    MaxLedger = 4
    InitialTimeout = 9
    MatchTimeouts = {}
    DisputePeriods = {1}
    Freezable = {}
    MayPause = FALSE
    MayBlacklist = FALSE
    Vesting = 0
    RollbackWindow = 1
    MaxPause = 0
    StallWindow = 9
    VotingPeriod = 1
    MinHold = 1
    BondBps = 100
    QuorumBps = 2000
    MaxActive = 2
    MaxSnapshots = 2
    SilverMin = 3
    GoldMin = 6
    PlatinumMin = 10
    BronzeMax = 100
    SilverMax = 500
    GoldMax = 1000
SYMMETRY Symmetry
INVARIANT
    AtMostOneRelease
CHECK_DEADLOCK FALSE
