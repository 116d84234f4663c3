CONSTANTS
    o1 = o1  o2 = o2  o3 = o3
    m1 = m1  m2 = m2
    g1 = g1
    w1 = w1  w2 = w2
    admin_account = admin_account
    Oracles = {o1, o2, o3}
    Admin = admin_account
    Matches = {m1, m2}
    Games = {g1}
    Outcomes = {w1, w2}
    StakeAmounts = {2}
    MaxStake = 2
    MaxVersion = 4
    SlashAmounts = {2}
    Thresholds = {2}
    GracePeriods = {1}
    MinorityBps = 5000
    EquivocationBps = 10000
    CacheTtl = 1
    SwapAmounts = {1}
    AdminCalls = {"submit", "batch", "deactivate", "pause", "invalidate"}
    MaxLedger = 1
    Accounts = {"a1", "a2", "a3"}
    NoOne = "none"
    MaxProposals = 2
    MaxSlashes = 1
    HourlyWindow = 3
    DailyWindow = 6
    DefaultHourly = 2
    DefaultDaily = 4
    LimitInputs = {0, 3}
    Counts = {1, 2}
    MaxTime = 9
    Times = {0, 1, 4, 7}
    SlaDefault = 3
    SlaInputs = {0, 1, 4}
    MaxSubmissions = 6
SPECIFICATION MCSpec
SYMMETRY Perms
INVARIANTS StakesCovered RecordsExact
PROPERTIES DecisionsJustified AdministrationHolds
CHECK_DEADLOCK FALSE
