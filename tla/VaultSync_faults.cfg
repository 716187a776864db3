CONSTANTS
    d1 = d1  d2 = d2  i1 = i1
    Device = {d1, d2}
    Item = {i1}
    NoItem = NoItem
    PageLimit = 1
    MaxChanges = 2
    MaxRows = 2
    Faults <- AllFaults
SPECIFICATION Spec
SYMMETRY Symmetry
INVARIANTS TypeOK KnownVersionBounded RowBeforeDirectory TombstoneAfterDelete BaseDelivered
PROPERTIES ManifestStepsByOne LedgerSpec MissedOnlyByLateCommit
