SPECIFICATION MCSpec
CONSTANTS
    Sessions <- MCSessions
    SocketBytes = 5
    ControlDepth = 2
    TV_VB_SIZE = 4
    WordBytes = 2
    BUFSIZE = 6
    Radix = 3
    DtsBytes = 3
    DtbBytes = 5
    PipeBytes = 2
    Align = 24
    ROM_BASE = 8
INVARIANTS
    StreamsWhole
    RomComplete
PROPERTIES
    HostEnds
CHECK_DEADLOCK FALSE
