SPECIFICATION Spec
CONSTANTS
    c1 = c1
    c2 = c2
    c3 = c3
    a1 = a1
    a2 = a2
    a3 = a3
    Clients = {c1}
    NoClient = NoClient
    Ads = {a1}
    NoAd = NoAd
    ThrowingAds = {}
    Size <- BulkSize
    QuerySizes = {1}
    Buf = 2
    Whole <- AllButKey
    ParamsUsed = 1
    MayLeave = {}
    MaxQueries = 1
    MaxRestarts = 0
CHECK_DEADLOCK FALSE
INVARIANTS SetupDoneMeansKeySet
