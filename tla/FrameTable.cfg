SPECIFICATION Spec
CONSTANTS
    NFRAMES = 4
    RESERVED = 1
    Proc = {p1}
    Page = {1}
    NULL = NULL
    MAXUNPINNED = 1
INVARIANTS
    FreeListExact
    VictimPinned
    LoopIsClosedForm
PROPERTY
    SwapOutYieldsFrame
