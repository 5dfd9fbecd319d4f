SPECIFICATION EchoSpec
CONSTANTS
    PageSize = 4
    MaxPages = 3
    Word = 64
    Buffers <- AllBuffers
    Firsts <- AllFirsts
    SendSize = 42
    MaxFirst = 21
    MaxFaults = 1
    XmitMayFail = TRUE
INVARIANTS
    PagesNeeded
    Contiguous
    InsideMapping
    WholeBuffer
    InStep
PROPERTY
    EchoEnds
CHECK_DEADLOCK FALSE
