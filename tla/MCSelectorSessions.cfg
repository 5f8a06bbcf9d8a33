SPECIFICATION SelectorSpec
CONSTANTS
    n1 = n1
    n2 = n2
    w1 = w1
    w2 = w2
    s1 = s1
    s2 = s2
    p1 = p1
    p2 = p2
    p3 = p3
    north = north
    south = south
    Unknown = Unknown
    None = None
    Deleted = Deleted
    NoNode = NoNode
    NoSession = NoSession
    Nodes = {n1, n2}
    Regions = {north, south}
    Places <- CityStates
    Sessions = {s1, s2}
    Workers = {w1}
    Picks = {p1, p2, p3}
    Filters <- RegionFilters
    FilterOf <- SplitSessions
    MaxFail = 1
    StartRows <- Checked
    MaxOps = 1
    MaxFaults = 1
CHECK_DEADLOCK FALSE
SYMMETRY SelectorSymmetry
PROPERTIES
    PickedIsUsable
    FailsOnlyWithoutNode
    SessionKeepsNode
