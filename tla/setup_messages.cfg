SPECIFICATION Spec
CONSTANTS
    Word = 4
    Base = 32
    EncLen = 10
    PirParams <- ServerParams
    Vectors <- SomeVectors
    NumGroups = 2
    AdsPerGroup = 6
    AdSize = 2
    MaxDigits = 2
    Radix = 10
    Files <- SomeFiles
CHECK_DEADLOCK FALSE
INVARIANTS TypeOK ShortfallHarmless VectorOverreadExactlyWhenUncounted NoAdUnderAnother FirstAdsShown
