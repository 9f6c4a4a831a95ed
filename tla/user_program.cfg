SPECIFICATION Spec
CONSTANTS
    NumGroups = 3
    AdsPerGroup = 2
    IntMax = 1
    LocalLimit = 4
    LocalStep = 1
    Rank <- ReverseRank
    Degree = 3
    MaxClicks = 5
CHECK_DEADLOCK FALSE
INVARIANTS TypeOK EveryGroupShown CountedGroupsShown RequestIsPreferred
PROPERTIES FreshAdKept
