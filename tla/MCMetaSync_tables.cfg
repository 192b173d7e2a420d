SPECIFICATION FairSpec
CONSTANTS
    a = a
    b = b
    good = good
    bad = bad
    Names <- MCNames
    Defs <- MCDefs
    ValidDefs <- MCValidDefs
    Requests <- PlainRequests
    Tables <- AnyTables
    NoRow = NoRow
    NoDef = NoDef
    Threads = {t1, t2}
    Kind = "tables"
    Faults = {"commit"}
    MaxRequests = 2
    MaxEpoch = 1
    NoOne = NoOne
    NoRequest = NoRequest
    NoEntry = NoEntry
    NoPlugin = NoPlugin
    Loader = Loader
    Closed = Closed
INVARIANT
    ModelFollowsTable
PROPERTIES
    RequestEnds
    ReloadEnds
CHECK_DEADLOCK FALSE
