SPECIFICATION RenderSpec
CONSTANTS
    User = {u1}
    MaxAuthVersion = 1
    Dashboard = {d1, d2}
    Revision = {r1, r2}
    Grant = {g1}
    Epoch = {}
    MaxVersion = 3
    MaxClock = 2
    Credential = {c1, c2}
    NoGrantId = NoGrantId
    NoDashboard = NoDashboard
    NoRevision = NoRevision
    NoEpoch = NoEpoch
    NoUser = NoUser
SYMMETRY Symmetry
CONSTRAINT NoRequests
PROPERTIES
    ReleaseIsPinned
    SeenNeverGoesBack
CHECK_DEADLOCK FALSE
