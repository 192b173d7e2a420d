SPECIFICATION Spec
CONSTANTS
    None = None
    Waiting = Waiting
    Refused = Refused
    FetchMax = 2
    Settings <- AnySettings
INVARIANT MoreRowsNoticed
CHECK_DEADLOCK FALSE
