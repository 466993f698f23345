SPECIFICATION MirrorSpec
CONSTANTS
    outer = outer
    inner = inner
    p1 = p1
    p2 = p2
    v1 = v1
    v2 = v2
    index = index
    Processes = {p1, p2}
    Paths = {outer, inner}
    Values = {v1, v2}
    Patterns = {index}
    Chain <- MCChain
    MaxTime = 2
    MaxSnapshots = 3
    MaxOperations = 3
SYMMETRY Symmetry
CHECK_DEADLOCK FALSE
INVARIANTS
    MirrorTypeOK
    WalkFindsNearest
    MirrorAgrees
