\* Three clients fill the backlog of rdma_listen; the CM may fail.
CONSTANTS
    Client = {c1, c2, c3}
    Uninit = uninit
    CmMayFail = TRUE
SPECIFICATION Spec
INVARIANTS
    OnlyAcceptedConnects
    RouteFollowsAddress
    ServerConnectionIsReal
    QueuePairOnAccepted
    SetupInv
PROPERTIES
    ClientStateAdvances
    ConnectionIsMade
\* Both programs stop in a wait or leave it.
CHECK_DEADLOCK FALSE
