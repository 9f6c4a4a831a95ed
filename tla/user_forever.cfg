SPECIFICATION Spec
CONSTANTS
    NumGroups = 3
    AdsPerGroup = 2
    IntMax = 7
    LocalLimit = 4
    LocalStep = 1
    Rank <- ReverseRank
    Degree = 3
    MaxClicks = 2
CHECK_DEADLOCK FALSE
INVARIANTS RunsForever
