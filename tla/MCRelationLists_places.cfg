SPECIFICATION Spec
CONSTANTS
    m1 = m1
    m2 = m2
    gone = gone
    Models = {m1, m2}
    r1 = r1
    r2 = r2
    Relations = {r1, r2}
    Of <- SharedAndOwn
    Bookmarks <- SomeBookmarks
    Loads = {l1, l2}
    Runs = {q1, q2}
    MaxClicks = 3
    NoRel = NoRel
    NoModel = NoModel
    NoHash = NoHash
    None = None
INVARIANTS
    TypeOK
    LocationNamesSelection
    AskedIsSelected
    ListIsOfModel
PROPERTIES
    LoadingEnds
CHECK_DEADLOCK FALSE
