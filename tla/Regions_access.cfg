\* Sizes that fit and that do not, on both sides; a class whose fetched part
\* needs the room of the object.
CONSTANTS
    BufSizes = {8, 16}
    SketchSizes = {0, 2, 3}
    ObjectBytes = 8
    InfoBytes = 4
    DataBytes = 12
    RecvWords = 3
    FetchWords = 2
    SendWords = 3
SPECIFICATION Spec
INVARIANTS
    RefusedOnlyMisfit
    ScatterListsFit
    IInv
\* A program exits, or a refused access ends the connection.
CHECK_DEADLOCK FALSE
