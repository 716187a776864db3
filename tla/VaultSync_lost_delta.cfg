CONSTANTS
    d1 = d1  d2 = d2  i1 = i1  i2 = i2
    Device = {d1, d2}
    Item = {i1, i2}
    NoItem = NoItem
    PageLimit = 1
    MaxChanges = 2
    MaxRows = 2
    Faults <- LostRequests
SPECIFICATION Spec
SYMMETRY Symmetry
INVARIANTS LogCausallyClosed
