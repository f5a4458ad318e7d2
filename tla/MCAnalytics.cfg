SPECIFICATION FairSpec
CONSTANTS
    Dashboard = {d1}
    Viewer = {u1, u2}
    Job = {j1}
    MaxId = 3
    LastOpen = 1
    MaxTime = 4
    DayLength = 1
    Retention = 1
    Skew = 2
    BatchSize = 2
    MaxBatches = 2
    NoDashboard = NoDashboard
    NoViewer = NoViewer
INVARIANTS
    CountedOnce
    ViewerWindow
PROPERTIES
    EventuallyPurged
CHECK_DEADLOCK FALSE
