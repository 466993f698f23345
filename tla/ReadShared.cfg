SPECIFICATION ReadSpec
CONSTANTS
    Projects = {p1}
    NoProject = NoProject
    MaxSnapshots = 3
    SyncWriters = {w1}
    LocalWriters = {l1}
    Recoverers = {r1}
    h1 = h1
    h2 = h2
    here = here
    Hosts = {h1, h2}
    HostOf <- WritersOnH1
    MaxAttempts = 1
    DrainLimit = 2
    CacheCap = 1
    AtomicCopy = TRUE
    ZoneChecksums = TRUE
    OverlapAllowed = FALSE
    SyncReaders = {here}
    LocalReaders = {}
    ReaderHostOf <- OneReaderHere
    ReadLimit = 3
    PullsMayFail = TRUE
CHECK_DEADLOCK FALSE
INVARIANTS
    AnswerIsComplete
    CommittedIsDurable
