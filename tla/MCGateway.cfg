SPECIFICATION FairSpec
CONSTANTS
    Kinds = {"proxy", "direct", "header"}
    IdleTO = 2
    MaxSent = 3
    Window = 1
CHECK_DEADLOCK FALSE
INVARIANTS
    TypeOK
    StreamsIntact
    NothingLeftBehind
    NothingFree
PROPERTIES
    EventuallyEnds
    AlwaysNearer
