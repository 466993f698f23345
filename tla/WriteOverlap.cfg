SPECIFICATION Spec
CONSTANTS
    Projects = {p1}
    NoProject = NoProject
    MaxSnapshots = 2
    SyncWriters = {w1}
    LocalWriters = {l1}
    Recoverers = {r1, r2}
    h1 = h1
    h2 = h2
    Hosts = {h1, h2}
    HostOf <- OneRecovererElsewhere
    MaxAttempts = 1
    DrainLimit = 1
    CacheCap = 1
    AtomicCopy = FALSE
    ZoneChecksums = FALSE
    OverlapAllowed = TRUE
CHECK_DEADLOCK FALSE
INVARIANTS
    ParentIsSettled
    InFlightPushIsLogged
    GaveUpOnlyAfterAttempts
    AttemptsAreBounded
