SPECIFICATION FairSpec
CONSTANTS
    c1 = c1
    c2 = c2
    Me = c1
    Clients = {c1, c2}
    NoClient = NoClient
    NoAd = NoAd
    Size <- SmallSize
    QuerySizes = {1}
    Buf = 2
    Whole <- OpeningAndAck
    ParamsUsed = 1
    MayLeave = {c2}
    MaxQueries = 2
    MaxRestarts = 1
    NumGroups = 2
    AdsPerGroup = 2
    IntMax = 1
    LocalLimit = 2
    LocalStep = 1
    Rank <- ReverseRank
    Degree = 3
    MaxClicks = 1
CHECK_DEADLOCK FALSE
INVARIANTS TypeOK InStep OwnAdUnderEachNumber
PROPERTIES ClickAnswered
