SPECIFICATION Spec
CONSTANTS
    Projects = {p1, p2}
    NoProject = NoProject
    MaxSnapshots = 3
    SyncWriters = {w1}
    LocalWriters = {l1}
    Recoverers = {r1}
    h1 = h1
    h2 = h2
    Hosts = {h1}
    HostOf <- OneHost
    MaxAttempts = 2
    DrainLimit = 2
    CacheCap = 1
    AtomicCopy = TRUE
    ZoneChecksums = TRUE
    OverlapAllowed = FALSE
CHECK_DEADLOCK FALSE
INVARIANTS
    TypeOK
    ParentIsSettled
    InFlightPushIsLogged
    GaveUpOnlyAfterAttempts
    CommittedIsDurable
PROPERTIES
    SettledIsFinal
    ImplementsLedger
