SPECIFICATION FairSpec
CONSTANTS
    r1 = r1
    r2 = r2
    r3 = r3
    r4 = r4
    NoRow = NoRow
    Requests = {r1, r2, r3}
    Limits = {0, 1}
    MaxFaults = 1
    MaxEdits = 2
CHECK_DEADLOCK FALSE
INVARIANTS
    TypeOK
    ExactUnlessDisturbed
PROPERTIES
    AdmittedWithinLimit
    RefusedOnlyWhenFull
    DeletesLastSlot
    SlotsReturned
