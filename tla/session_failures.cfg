SPECIFICATION Spec
CONSTANTS
    c1 = c1
    c2 = c2
    c3 = c3
    a1 = a1
    a2 = a2
    a3 = a3
    Clients = {c1, c2}
    NoClient = NoClient
    Ads = {a1, a2, a3}
    NoAd = NoAd
    ThrowingAds = {a3}
    Size <- CutSize
    QuerySizes = {3, 4}
    Buf = 2
    Whole <- NoneWhole
    ParamsUsed = 2
    MayLeave = {c1, c2}
    MaxQueries = 2
    MaxRestarts = 1
SYMMETRY Alike
CHECK_DEADLOCK FALSE
PROPERTIES ImplementsService
INVARIANTS TypeOK ReplyCorrect OneClientServed NoClientForgotten NoAdsBeforeKey
