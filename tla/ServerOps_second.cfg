CONSTANTS
    Cells = 1
    SqDepth = 3
    MaxCalls = 3
SPECIFICATION Spec
INVARIANT RefusedOnlyWithoutAddress
CHECK_DEADLOCK FALSE
