SPECIFICATION ReadSpec
CONSTANTS
    Projects = {p1}
    NoProject = NoProject
    MaxSnapshots = 2
    SyncWriters = {w1}
    LocalWriters = {l1}
    Recoverers = {r1}
    h1 = h1
    h2 = h2
    here = here
    Hosts = {h1, h2}
    HostOf <- WritersOnH1
    MaxAttempts = 1
    DrainLimit = 2
    CacheCap = 0
    AtomicCopy = TRUE
    ZoneChecksums = TRUE
    OverlapAllowed = TRUE
    SyncReaders = {s1}
    LocalReaders = {}
    ReaderHostOf <- OneReaderHere
    ReadLimit = 2
    PullsMayFail = TRUE
CHECK_DEADLOCK FALSE
INVARIANT RemoteAnswerIsSettled
