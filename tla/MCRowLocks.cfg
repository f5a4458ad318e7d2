SPECIFICATION LockSpec
CONSTANTS
    User = {1, 2, 3}
    AdministratorsById <- MCAdministratorsById
    Dashboard = {d1, d2}
    Transaction = {t1, t2}
    Nobody = Nobody
    NoDashboard = NoDashboard
    NoUser = NoUser
SYMMETRY Symmetry
INVARIANTS
    CircularWaitsAreAmongUsers
    DashboardsSerialise
    SortedCallsNeverCircle
    TriggersNeverWait
CHECK_DEADLOCK FALSE
