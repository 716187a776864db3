CONSTANTS
    d1 = d1  d2 = d2  i1 = i1
    Device = {d1, d2}
    Item = {i1}
    NoItem = NoItem
    PageLimit = 2
    MaxChanges = 2
    MaxRows = 2
    Faults <- Crashes
SPECIFICATION FairSpec
INVARIANTS NothingBelowCursorMissed LogCausallyClosed TakenChangesShared
PROPERTIES ManifestNeverForgets CommandsReturn
