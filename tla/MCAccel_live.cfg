SPECIFICATION MCLive
CONSTANTS
    Banks = 2
    NumCells = 1
    MaxCount = 1
    Heads <- MCHeadsZero
    Operands <- MCNoOperands
    Value = {0}
    Zero = 0
    Madd <- MCMadd
    CounterSize = 4
    BusDepth = 1
    Writes <- MCControlWrites
    Reads <- MCNoReads
PROPERTIES
    ExecuteDecoded
    CommandsFinish
    BusyIsShown
