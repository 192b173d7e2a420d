SPECIFICATION Spec
CONSTANTS
    None = None
    Waiting = Waiting
    Refused = Refused
    FetchMax = 2
    Settings <- ValueSettings
INVARIANT ValueRefusedUnlessOne
CHECK_DEADLOCK FALSE
