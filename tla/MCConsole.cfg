SPECIFICATION ConsoleSpec
CONSTANTS
    PRINTF_NTOA_BUFFER_SIZE = 12
    PRINTF_FTOA_BUFFER_SIZE = 12
    PRINTF_DEFAULT_FLOAT_PRECISION = 1
    PRINTF_MAX_FLOAT = 100
    MaxPrec = 2
    FixedDigits = 2
    FixedZeros = 1
    DoubleDigits = 12
    CharBits = 4
    ShortBits = 5
    IntBits = 6
    LongLongBits = 8
    PointerDigits = 2
    NUL = "NUL"
    BusDepth = 2
    ConsoleDepth = 2
    BufferSize = 18
    Scripts <- MCScripts
INVARIANTS
    FormatsText
    ConsoleShows
    ReceivedInOrder
PROPERTIES
    EverythingShown
CHECK_DEADLOCK FALSE
