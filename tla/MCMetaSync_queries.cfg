SPECIFICATION Spec
CONSTANTS
    a = a
    b = b
    good = good
    bad = bad
    Names <- MCNames
    Defs <- MCDefs
    ValidDefs <- MCValidDefs
    Requests <- AllRequests
    Tables <- AnyTables
    NoRow = NoRow
    NoDef = NoDef
    Threads = {t1, t2}
    Kind = "queries"
    Faults = {"commit", "read", "crash"}
    MaxRequests = 2
    MaxEpoch = 2
    NoOne = NoOne
    NoRequest = NoRequest
    NoEntry = NoEntry
    NoPlugin = NoPlugin
    Loader = Loader
    Closed = Closed
INVARIANTS
    TypeOK
    ModelFollowsTable
    InvalidHasWarning
    FailedLoadLeavesNothing
PROPERTY
    TableIsAtomic
SYMMETRY EitherThread
CHECK_DEADLOCK FALSE
