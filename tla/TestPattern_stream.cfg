\* Counters that wrap around several times; buffers shorter and longer than the
\* modulus, and empty ones; failures often enough to be back in step.
CONSTANTS
    Modulus = 3
    BufSizes = {0, 1, 2, 4}
    MaxBytes = 9
    MaxVerify = 4
    MaxInFlight = 2
SPECIFICATION Spec
INVARIANTS
    VerdictIsRight
    PositionLagsByFailures
\* The bytes to be formatted are used up.
CHECK_DEADLOCK FALSE
