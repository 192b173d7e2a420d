CONSTANTS
    k1 = k1
    k2 = k2
    g1 = g1
    g2 = g2
    t1 = t1
    t2 = t2
    t3 = t3
    Keys = {k1, k2}
    Groups = {g1, g2}
    Versions = {1, 2}
    NoRow = NoRow
    Null = Null
    Keep = Keep
    AnyGroup = AnyGroup
    Same = Same
    NoRequest = NoRequest
    Threads = {t1, t2}
    Requests <- FilterRequests
    Tables <- FilterTables
    HasFilter = TRUE
    HasLock = FALSE
    MaxRequests = 4
SPECIFICATION Spec
INVARIANTS
    KeyedUpdatesSeen
PROPERTIES
    CommitsWhatItSelected
CHECK_DEADLOCK FALSE
