CONSTANTS
    b1 = b1
    b2 = b2
    b3 = b3
    Bios = {b1, b2}
    Size = 4
    Blank = Blank
    Stray = Stray
    Configs <- SegmentsApart
SPECIFICATION FairSpec
INVARIANTS SegmentsIndependent
PROPERTIES ImplementsBlockDevice EveryBioEnds
\* Every bio may have ended.
CHECK_DEADLOCK FALSE
