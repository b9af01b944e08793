SPECIFICATION MCSpec
CONSTANTS
    Jobs = 2
    Lens = {1, 2, 3, 4, 5, 6, 7, 8, 9, 11, 15, 16, 18}
    BufSize = 18
    RemSize = 5
    FpuDepth = 2
    OutSize = 16
INVARIANTS
    PassInPlace
    PassesKeepSum
    PowersDelivered
PROPERTIES
    PipelinedDelivers
    JobsFinish
CHECK_DEADLOCK FALSE
