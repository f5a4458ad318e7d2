SPECIFICATION FairSpec
CONSTANTS
    Address = {1}
    Account = {2}
    Attempt = {a1, a2}
    Nobody = Nobody
    Limit = 2
    Window = 3
    Lockout = 1
    MaxTime = 4
PROPERTIES
    LockoutHolds
    AttemptsEnd
CHECK_DEADLOCK FALSE
