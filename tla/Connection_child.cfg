CONSTANTS
    Client = {c1}
    Uninit = uninit
    CmMayFail = FALSE
SPECIFICATION Spec
INVARIANT ChildKnownAfterWait
CHECK_DEADLOCK FALSE
