\* Three values of the uninitialised wr_id: zero, another send's, any other.
CONSTANT WrIds = {0, 1123, 7}
SPECIFICATION Spec
INVARIANTS
    IInv
    InfoMatchesTag
    SendBufStable
    RecvBufStable
    SketchReadyWhenKnown
    DoneMeansDelivered
PROPERTIES
    HandshakeCompletes
    ImplementsPublication
\* Both start() functions return, and a hung server stays where it is.
CHECK_DEADLOCK FALSE
