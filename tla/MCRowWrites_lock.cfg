CONSTANTS
    k1 = k1
    k2 = k2
    g1 = g1
    g2 = g2
    t1 = t1
    t2 = t2
    t3 = t3
    Keys = {k1, k2}
    Groups = {g1, g2}
    Versions = {1, 2}
    NoRow = NoRow
    Null = Null
    Keep = Keep
    AnyGroup = AnyGroup
    Same = Same
    NoRequest = NoRequest
    Threads = {t1, t2, t3}
    Requests <- LockRequests
    Tables <- LockTables
    HasFilter = FALSE
    HasLock = TRUE
    MaxRequests = 3
SPECIFICATION FairSpec
INVARIANTS
    TypeOK
PROPERTIES
    CommitsWhatItSelected
    WriteEnds
CHECK_DEADLOCK FALSE
