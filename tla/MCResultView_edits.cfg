SPECIFICATION Spec
CONSTANTS
    r1 = r1
    r2 = r2
    Relations = {r1, r2}
    Keys = {1, 2}
    a = a
    b = b
    Values = {a, b}
    Databases <- TwoTables
    c1 = c1
    c2 = c2
    Calls = {c1, c2}
    MaxCalls = 4
    NoValue = NoValue
    NoTable = NoTable
    NoCall = NoCall
    Closed = Closed
INVARIANTS
    TypeOK
    MarksFollowRows
    ShownIsStored
    DimmedMeansRunning
SYMMETRY Symmetric
CHECK_DEADLOCK FALSE
