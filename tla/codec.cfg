\* Three ads, at most four in a plaintext, at five widths of a coefficient.
SPECIFICATION Spec
CONSTANTS
    WordBits = 30
    Limits = {3, 5, 8, 12, 14}
    Slots = 9
    EleSize = 2
    Contents <- TwoBytes
INVARIANTS
    TypeOK
    CoefficientsFit
    AdsReadBack
\* The functions return.
CHECK_DEADLOCK FALSE
