\* More calls than the queue has room for, and memory that moves in two
\* pieces: every operation meets every other one half done.
CONSTANTS
    Cells = 2
    SqDepth = 3
    MaxCalls = 4
SPECIFICATION Spec
INVARIANTS
    IInv
    WritesCarryMessage
    PrintsWhatWasRead
    ReadsItsWrites
PROPERTY EveryCallCompletes
\* The caller stops calling; a refused call ends the program.
CHECK_DEADLOCK FALSE
