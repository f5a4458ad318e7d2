SPECIFICATION Spec
CONSTANTS
    User = {u1, u2, u3}
    MaxAuthVersion = 4
    Session = {s1, s2}
    NoUser = NoUser
SYMMETRY Symmetry
INVARIANTS
    AdministratorRemains
PROPERTIES
    AccountsSpec
    NoSessionResurrection
CHECK_DEADLOCK FALSE
