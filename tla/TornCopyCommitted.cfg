SPECIFICATION Spec
CONSTANTS
    Projects = {p1}
    NoProject = NoProject
    MaxSnapshots = 1
    SyncWriters = {w1}
    LocalWriters = {}
    Recoverers = {r1}
    h1 = h1
    h2 = h2
    Hosts = {h1}
    HostOf <- OneHost
    MaxAttempts = 1
    DrainLimit = 1
    CacheCap = 0
    AtomicCopy = FALSE
    ZoneChecksums = TRUE
    OverlapAllowed = FALSE
CHECK_DEADLOCK FALSE
INVARIANT CommittedIsDurable
