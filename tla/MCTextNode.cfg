CONSTANTS
    Procs = {p1, p2}
    Module = Module
    Capacity = 2
    NUL = NUL
    Configs <- Stands
SPECIFICATION FairSpec
INVARIANTS TypeOK Terminated ReadsInside Consecutive
PROPERTIES ReaderEnds
