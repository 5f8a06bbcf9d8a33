SPECIFICATION Spec
CONSTANTS
    n1 = n1
    n2 = n2
    w1 = w1
    w2 = w2
    w3 = w3
    s1 = s1
    s2 = s2
    north = north
    south = south
    west = west
    Unknown = Unknown
    None = None
    Deleted = Deleted
    NoNode = NoNode
    Nodes = {n1}
    Regions = {north, south}
    Places <- MCPlaces
    Sessions = {s1}
    Workers = {w1, w2}
    MaxFail = 2
    StartRows <- Fresh
    MaxOps = 3
    MaxFaults = 2
CHECK_DEADLOCK FALSE
SYMMETRY WorkerSymmetry
INVARIANTS
    TypeOK
    SetsCoverCache
    CacheFollowsRow
    IndexExact
PROPERTIES
    LosesNothingAlone
