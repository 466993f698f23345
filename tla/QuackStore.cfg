SPECIFICATION FairStoreSpec
CONSTANTS
    t1 = t1
    t2 = t2
    t3 = t3
    s1 = s1
    s2 = s2
    Threads = {t1, t2, t3}
    Stores = {s1, s2}
    StoreOf <- TwoShareAStore
    Rows = {a}
    Nobody = Nobody
    ConflictRetries = 1
    MaxCalls = 5
    ConnectionFails = TRUE
CHECK_DEADLOCK FALSE
INVARIANTS
    StoreTypeOK
    NothingSuperseded
    ConflictMeansProgress
PROPERTIES
    StatementsEnd
    ImplementsAtomicStatements
