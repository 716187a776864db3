SPECIFICATION Spec
CONSTANTS
    Item = {1, 2, 3}
    Tx = {t1, t2}
    DefaultLimit = 1
    MaxLimit = 2
    Limits = {0, 3}
    MaxTime = 1
CHECK_DEADLOCK TRUE
INVARIANT TypeOK
PROPERTIES
    WalkFindsRows
    WalkEnds
