SPECIFICATION FairSpec
CONSTANTS
    Matches = {m1}
    Players = {a, b}
    NoPlayer = none
    Stakes = {10}
    Genesis = 1
    MaxLedger = 4
    InitialTimeout = 2
    MatchTimeouts = {}
    DisputePeriods = {}
    Freezable = {a}
    MayPause = TRUE
    MayBlacklist = TRUE
    Vesting = 1
    RollbackWindow = 1
    MaxPause = 1
    StallWindow = 1
    VotingPeriod = 1
    MinHold = 1
    BondBps = 100
    QuorumBps = 2000
    MaxActive = 1
    MaxSnapshots = 1
    SilverMin = 3
    GoldMin = 6
    PlatinumMin = 10
    BronzeMax = 100
    SilverMax = 500
    GoldMax = 1000
PROPERTIES
    MatchesEnd
    VestedIsPaid
CHECK_DEADLOCK FALSE
