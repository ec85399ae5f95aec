\* Small queues, so that both work queues fill up; one poll may fail.
CONSTANTS
    SqDepth = 3
    RqDepth = 2
    MaxPosts = 7
    MaxPollErrors = 1
SPECIFICATION Spec
INVARIANTS
    NoLostWakeup
    CqNeverOverruns
    IInv
PROPERTY ImplementsService
\* An exited process takes no step.
CHECK_DEADLOCK FALSE
