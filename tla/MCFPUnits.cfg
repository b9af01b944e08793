SPECIFICATION MCSpec
CONSTANTS
    ExpBits = 4
    SfdBits = 2
    Empty = Empty
    Programs <- MCPrograms
    MaxResets = 1
INVARIANTS
    MaddRounds
    DivRounds
    BenchSums
PROPERTIES
    AllAnswered
    BenchEnds
