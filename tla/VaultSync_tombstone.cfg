CONSTANTS
    d1 = d1  d2 = d2  i1 = i1
    Device = {d1, d2}
    Item = {i1}
    NoItem = NoItem
    PageLimit = 1
    MaxChanges = 3
    MaxRows = 3
    Faults <- NoFaults
SPECIFICATION Spec
SYMMETRY Symmetry
INVARIANTS VersionsGrow
