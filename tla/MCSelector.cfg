SPECIFICATION SelectorSpec
CONSTANTS
    n1 = n1
    n2 = n2
    w1 = w1
    w2 = w2
    s1 = s1
    s2 = s2
    p1 = p1
    p2 = p2
    p3 = p3
    north = north
    south = south
    Unknown = Unknown
    None = None
    Deleted = Deleted
    NoNode = NoNode
    NoSession = NoSession
    Nodes = {n1, n2}
    Regions = {north, south}
    Places <- MCPlaces
    Sessions = {s1}
    Workers = {w1}
    Picks = {p1, p2}
    Filters <- AllFilters
    FilterOf <- NorthSessions
    MaxFail = 1
    StartRows <- Checked
    MaxOps = 2
    MaxFaults = 0
CHECK_DEADLOCK FALSE
SYMMETRY SelectorSymmetry
PROPERTIES
    PickedMatchesFilter
