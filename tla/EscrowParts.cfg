CONSTANTS
    None = None
    Contract = "escrow"
    BatchPlayers = {"p1", "p2", "p3"}
    BatchMatches = {"m1", "m2", "m3"}
    Player1 <- P1
    Player2 <- P2
    ActiveLimit = 1
    MaxStranded = 2
    FeeMatches = {1}
    Stakes = {7, 33, 101}
    Configs <- AnyConfigs
    TierLists <- AnyTiers
    Shares = {2000, 3333, 10001}
    Minima = {0, 8}
    Maxima <- AnyMaxima
    Overrides <- NoOverrides
    LastStart = 1
    LastTick = 2
    AdminAccounts = {"a1", "a2", "escrow"}
    Hashes = {"h1", "h2"}
    ReviewPeriod = 2
    Versions = {0, 1, 2}
    PeriodVersion = 1
    Periods = {0, 1}
    MaxLedger = 4
    OracleAccounts = {"a1", "a2", "a3", "escrow"}
    Durations = {1, 2}
    MaxTime = 4
    Oracles = {"o1", "o2", "o3"}
    VotedMatches = {"m1"}
    Winners = {"w1", "w2"}
    DefaultRequired = 2
    Addresses = {"x1", "x2", "escrow"}
    RecordedMatches = {"m1", "m2"}
    Players = {"p1", "p2"}
    Stake = 5
    MatchCap = 3
    PlayerCap = 2
    Subject = "p1"
    PageLimit = 1
    MaxNow = 2
    MaxRecords = 5
SPECIFICATION MCSpec
INVARIANTS BatchSound  ConsensusCounted
PROPERTIES ConversionSound  AuthorityHolds
CHECK_DEADLOCK FALSE
