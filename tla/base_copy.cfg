\* Any recv may return a part of what was sent, and either side may fail.
SPECIFICATION Spec
CONSTANTS
    Lines = 4
    Text = 3
    Block = 5
    Garbage = Garbage
INVARIANTS
    TypeOK
    LostAtFrontOnly
    FirstLinesWhole
    WholeUnlessCut
\* The programs end.
CHECK_DEADLOCK FALSE
