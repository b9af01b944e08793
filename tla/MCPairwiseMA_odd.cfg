SPECIFICATION FairSpec
CONSTANTS
    Jobs = 1
    Lens = {3}
    BufSize = 4
    RemSize = 4
    FpuDepth = 2
PROPERTIES
    ImplementsZipReduce
CHECK_DEADLOCK FALSE
