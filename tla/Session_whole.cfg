\* Two clients, one of which is accepted; the CM may fail, the link may break.
CONSTANTS
    Client = {c1, c2}
    Uninit = uninit
    CmMayFail = TRUE
    WrIds = {0, 1123}
SPECIFICATION SessionSpec
INVARIANTS
    AddressesMeanConnection
PROPERTIES
    LateRequestsAreHarmless
    SessionCompletes
CHECK_DEADLOCK FALSE
