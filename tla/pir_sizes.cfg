\* Files of 10, 20, 30 and 40 ads, dimensions of 6, 11, 16 and 21 in ciphertexts
\* of 8, for a client that takes the dimension to be 11.
SPECIFICATION Spec
CONSTANTS
    Degree = 8
    Logt = 8
    EleSize = 3
    AdsPerRun = 10
    TtlAds = 20
    Numbers <- AllNumbers
    ClientDim = 11
    MaxRuns = 4
INVARIANTS
    TypeOK
    EveryLineHasItsPlace
    NeverAnotherAd
    RetrievedWhenFits
\* The client ends when it throws, the server when there is no ad or the query
\* has too few ciphertexts.
CHECK_DEADLOCK FALSE
