SPECIFICATION RestoreSpec
CONSTANTS
    Projects = {p1}
    NoProject = NoProject
    MaxSnapshots = 2
    SyncWriters = {w1}
    LocalWriters = {l1}
    Recoverers = {r1}
    h1 = h1
    Hosts = {h1}
    HostOf <- OneHost
    MaxAttempts = 1
    DrainLimit = 2
    CacheCap = 1
    AtomicCopy = TRUE
    ZoneChecksums = TRUE
    OverlapAllowed = FALSE
    MaxRestores = 1
    CachesLost = TRUE
CHECK_DEADLOCK FALSE
INVARIANTS
    RestoreTypeOK
    ParentIsSettled
    InFlightPushIsLogged
    CommittedHoldsItsChanges
    DumpedCommitsAreKept
PROPERTIES
    ImplementsRestorableLedger
    OutcomesLastUntilRestore
