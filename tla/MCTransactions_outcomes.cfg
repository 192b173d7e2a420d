SPECIFICATION FairSpec
CONSTANTS
    Calls = {q1, q2}
    Connections = {c1, c2}
    Requests <- AllRequests
    Databases <- AllDatabases
INVARIANTS
    TypeOK
    ToldIsCommitted
    RefusedIsUndone
    ReadsChangeNothing
    SomebodyGoesOn
PROPERTY
    RequestEnds
CHECK_DEADLOCK FALSE
