SPECIFICATION Spec
CONSTANTS
    ACCEL_UNITS = 4
    Commands = 9
    count = 3
    cw = 3
    OffsetRange = 8
    HeapStart = 2
    DataCells = 32
    MinCycles = 80
    MaxCycles = 83
    MinGap = 4
    MaxGap = 5
INVARIANTS
    NoCommandDropped
    MatrixComplete
PROPERTIES
    Finishes
CHECK_DEADLOCK FALSE
