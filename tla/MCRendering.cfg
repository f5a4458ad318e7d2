SPECIFICATION RenderSpec
CONSTANTS
    User = {u1, u2}
    MaxAuthVersion = 3
    Dashboard = {d1}
    Revision = {r1}
    Grant = {g1, g2}
    Epoch = {e1, e2}
    MaxVersion = 2
    MaxClock = 1
    Credential = {c1}
    NoGrantId = NoGrantId
    NoDashboard = NoDashboard
    NoRevision = NoRevision
    NoEpoch = NoEpoch
    NoUser = NoUser
SYMMETRY Symmetry
CONSTRAINT NoRequests
INVARIANTS
    CurrentMeansEntitled
PROPERTIES
    EntitlementSpec
CHECK_DEADLOCK FALSE
