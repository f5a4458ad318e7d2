SPECIFICATION Spec
SYMMETRY Workers
CONSTANTS
    Address = {1, 2}
    Account = {3}
    Attempt = {a1, a2}
    Nobody = Nobody
    Limit = 2
    Window = 2
    Lockout = 1
    MaxTime = 3
INVARIANTS
    GuessesAreBounded
CHECK_DEADLOCK FALSE
