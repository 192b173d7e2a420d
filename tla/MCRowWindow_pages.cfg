SPECIFICATION FairSpec
CONSTANTS
    None = None
    Waiting = Waiting
    Refused = Refused
    FetchMax = 2
    Settings <- AgreedSettings
INVARIANTS
    TypeOK
    NothingSkipped
PROPERTIES
    PagesAreWindows
    PageComes
CHECK_DEADLOCK FALSE
