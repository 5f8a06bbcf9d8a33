SPECIFICATION Spec
CONSTANTS
    r1 = r1
    r2 = r2
    r3 = r3
    r4 = r4
    NoRow = NoRow
    Requests = {r1, r2, r3, r4}
    Limits = {1}
    MaxFaults = 0
    MaxEdits = 0
CHECK_DEADLOCK FALSE
SYMMETRY RequestSymmetry
INVARIANT ConcurrencyLimit
