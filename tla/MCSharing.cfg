SPECIFICATION Spec
CONSTANTS
    User = {u1,u2}
    MaxAuthVersion = 3
    Dashboard = {d1}
    Revision = {r1}
    Grant = {g1,g2,g3}
    Epoch = {e1,e2,e3}
    MaxVersion = 1
    MaxClock = 2
    NoDashboard = NoDashboard
    NoRevision = NoRevision
    NoEpoch = NoEpoch
    NoUser = NoUser
SYMMETRY Symmetry
INVARIANTS
    OneActiveGrant
    OwnerHoldsNoGrant
    PendingNeverBlocksTransfer
    TransferChain
    EveryRouteAgrees
    OpenOrRequest
PROPERTIES
    ApprovalGivesAccess
    ConsentIsCurrent
CHECK_DEADLOCK FALSE
