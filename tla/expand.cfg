\* Every expansion of a ciphertext of degree 16.
SPECIFICATION Spec
CONSTANTS
    Degree = 16
    T = 97
    Sizes <- AllSizes
INVARIANTS
    TypeOK
    RoundsNarrowDown
    ExpansionSelects
\* The function returns.
CHECK_DEADLOCK FALSE
