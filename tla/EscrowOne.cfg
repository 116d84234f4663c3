SPECIFICATION Spec
CONSTANTS
    Matches = {m1}
    Players = {a, b}
    NoPlayer = none
    Stakes = {10}
    Genesis = 1
    MaxLedger = 5
    InitialTimeout = 2
    MatchTimeouts = {}
    DisputePeriods = {0, 1}
    Freezable = {}
    MayPause = FALSE
    MayBlacklist = FALSE
    Vesting = 1
    RollbackWindow = 1
    MaxPause = 1
    StallWindow = 2
    VotingPeriod = 1
    MinHold = 1
    BondBps = 100
    QuorumBps = 2000
    MaxActive = 1
    MaxSnapshots = 2
    SilverMin = 3
    GoldMin = 6
    PlatinumMin = 10
    BronzeMax = 100
    SilverMax = 500
    GoldMax = 1000
SYMMETRY Symmetry
INVARIANTS
    TypeOK
    NeverOverpaid
    NeverUnderpaid
    LifecycleConsistent
    MutualConsent
    DisputeHoldsResult
    PaidByVerdict
    Conservation
PROPERTY
    OutcomeIsFinal
CHECK_DEADLOCK FALSE
