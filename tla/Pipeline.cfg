CONSTANTS
    Matches = {1, 2}
    Late = {2}
    Lichess = {1}
    BadIds = {}
    MaxRetries = 1
    PageSize = 1
    MaxFaults = 1
    MaxReplays = 0
SPECIFICATION MCFairSpec
PROPERTIES RemovalJustified 
