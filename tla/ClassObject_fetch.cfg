\* Objects without data, with less and more than is fetched, and with more
\* than fits; unwritten memory that shows no size or a large one.
CONSTANTS
    Sizes = {0, 1, 3, 4, 6}
    SendWords = 6
    FetchWords = 3
    RecvWords = 5
    Junk = {0, 9}
SPECIFICATION Spec
INVARIANTS
    IInv
    PrintsWhatWasBuilt
    BoundedByTheObject
\* Both programs stop.
CHECK_DEADLOCK FALSE
