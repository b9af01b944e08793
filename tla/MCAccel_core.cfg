SPECIFICATION MCSpec
CONSTANTS
    Banks = 2
    NumCells = 4
    MaxCount = 2
    Heads <- MCHeads
    Operands <- MCOperands
    Value = {0, 1}
    Zero = 0
    Madd <- MCMadd
    CounterSize = 4
    BusDepth = 1
    Writes <- MCWrites
    Reads <- MCReads
INVARIANTS
    TypeOK
    IdleUnitsClean
    ProductsAccounted
    DoneIsComplete
    IInv
    ResultIsDotProduct
PROPERTIES
    ImplementsMatUnits
