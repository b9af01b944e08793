SPECIFICATION MCSpec
CONSTANTS
    WrBursts <- MCWrBursts
    RdBursts <- MCRdBursts
    Data = {0, 1}
    MaxLen = 3
    BusDepth = 1
    LenDepth = 2
INVARIANTS
    BeatsMatched
PROPERTIES
    ImplementsBursts
    BurstsAnswered
