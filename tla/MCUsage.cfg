SPECIFICATION Spec
CONSTANTS
    u1 = u1
    u2 = u2
    n1 = n1
    r1 = r1
    r2 = r2
    NoAccount = NoAccount
    Users = {u1}
    Nodes = {n1}
    Shadowed = {}
    Requests = {r1, r2}
    Quota <- MCQuota
    Loads <- MCLoads
    MaxFaults = 1
    MaxCopies = 1
    MaxEdits = 1
SYMMETRY RequestSymmetry
INVARIANTS
    TypeOK
    BytesConserved
    RequestsConserved
    RepeatOnlyAfterFault
    PendingNeverNegative
    QuotaRespected
PROPERTIES
    LedgerSpec
