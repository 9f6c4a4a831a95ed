SPECIFICATION FairSpec
CONSTANTS
    c1 = c1
    c2 = c2
    c3 = c3
    a1 = a1
    a2 = a2
    a3 = a3
    Clients = {c1, c2, c3}
    NoClient = NoClient
    Ads = {a1}
    NoAd = NoAd
    ThrowingAds = {}
    Size <- BulkSize
    QuerySizes = {1, 2, 3}
    Buf = 2
    Whole <- AllButKey
    ParamsUsed = 1
    MayLeave = {c2, c3}
    MaxQueries = 2
    MaxRestarts = 1
CHECK_DEADLOCK FALSE
PROPERTIES Answered SetupCompletes DepartureEndsService
INVARIANTS NoGaloisOverrun StallOnlyAtFullBuffer
