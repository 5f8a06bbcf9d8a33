SPECIFICATION Spec
CONSTANTS
    region = region
    org = org
    Fields = {region, org}
    MaxAttempts = 2
CHECK_DEADLOCK FALSE
INVARIANTS
    DialledAsWritten
    VerdictIsEarned
