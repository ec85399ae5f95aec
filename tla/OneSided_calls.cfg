\* Sweeps of three elements, the first, a middle one and the last.
CONSTANTS
    Program <- MainAndWrites
    Elements = 3
SPECIFICATION Spec
INVARIANTS
    IInv
    PendingReadsCounts
    SweepStartsClean
    OneRequestAtATime
PROPERTY ImplementsSync
\* The program ends, or hangs on a broken link.
CHECK_DEADLOCK FALSE
