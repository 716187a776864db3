CONSTANTS
    d1 = d1  d2 = d2  i1 = i1  i2 = i2
    Device = {d1, d2}
    Item = {i1, i2}
    NoItem = NoItem
    PageLimit = 1
    MaxChanges = 3
    MaxRows = 3
    Faults <- Overlap
SPECIFICATION Spec
SYMMETRY Symmetry
INVARIANTS NothingBelowCursorMissed
