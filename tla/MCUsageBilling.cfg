SPECIFICATION FairSpec
CONSTANTS
    u1 = u1
    u2 = u2
    n1 = n1
    r1 = r1
    r2 = r2
    NoAccount = NoAccount
    Users = {u1, u2}
    Nodes = {n1}
    Shadowed = {u2}
    Requests = {r1, r2}
    Quota <- MCQuota
    Loads <- MCOneLoad
    MaxFaults = 1
    MaxCopies = 0
    MaxEdits = 1
PROPERTIES
    EventuallyBilled
    RoundsBill
