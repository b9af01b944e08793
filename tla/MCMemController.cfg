SPECIFICATION MCSpec
CONSTANTS
    l0 = l0
    l1 = l1
    v0 = v0
    v1 = v1
    Words = {0, 1}
    Lanes = {l0, l1}
    Value = {v0, v1}
    Reads <- MCReads
    Writes <- MCWrites
    BusDepth = 1
    FirstWord = 0
    ToHost <- MCToHost
INVARIANTS
    CacheCoherent
    OneWordAtRisk
PROPERTIES
    ImplementsMemory
    ReadsAnswered
