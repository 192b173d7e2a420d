SPECIFICATION Spec
CONSTANTS
    k1 = k1
    Keys = {k1}
    Object = k1
    blank = blank
    a = a
    Groups = {blank, a}
    Blank = blank
    Versions = {1, 2, 3}
    HasFilter = FALSE
    HasLock = TRUE
    NoRow = NoRow
    Null = Null
    Keep = Keep
    AnyGroup = AnyGroup
    Requests = {}
    t1 = t1
    t2 = t2
    Tabs = {t1, t2}
    c1 = c1
    c2 = c2
    Connections = {c1, c2}
    MaxCalls = 4
    NoCall = NoCall
INVARIANTS
    TypeOK
    ClosesOnlyStored
    BusyMeansSaving
PROPERTY NoBlindOverwrite
SYMMETRY Symmetric
CHECK_DEADLOCK FALSE
