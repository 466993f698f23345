SPECIFICATION HistorySpec
CONSTANTS
    v1 = v1
    v2 = v2
    Attributes = {a1}
    Values = {v1, v2}
    MaxTime = 3
    MaxSnapshots = 3
    MaxChanges = 4
SYMMETRY Symmetry
CHECK_DEADLOCK FALSE
INVARIANTS
    HistoryTypeOK
    TimeTravelIsExact
    DiffBridges
