SPECIFICATION MCSpec
CONSTANTS
    Critical = {"rpc"}
    Platforms = {"lichess"}
INVARIANT ReportsSound
PROPERTIES ProvidersAnswer LimitsHold NoEarlyDeadLetter
CHECK_DEADLOCK FALSE
