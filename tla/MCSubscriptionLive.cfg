SPECIFICATION FairSpec
CONSTANTS
    a1 = a1
    a2 = a2
    a3 = a3
    s1 = s1
    s2 = s2
    w1 = w1
    Subs = {s1, s2}
    Addresses = {a1}
    Endpoint <- OwnPorts
    Lists <- SomeOrNone
    Ticker = Ticker
    Admins = {w1}
    MaxOps = 1
    MaxEdits = 1
    MaxFaults = 1
CHECK_DEADLOCK FALSE
PROPERTIES
    EventuallySynced
    TurnsCome
