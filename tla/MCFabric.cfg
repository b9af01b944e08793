SPECIFICATION MCSpec
CONSTANTS
    NumMasters = 2
    NumSlaves = 2
    WrBursts <- MCWrBursts
    RdBursts <- MCRdBursts
    MaxAsked = 2
    BusDepth = 2
    TaskDepth = 2
    NoteDepth = 8
INVARIANTS
    DataFollowsAddress
    AnswersInOrder
PROPERTIES
    BurstsAnswered
