CONSTANTS
    b1 = b1
    b2 = b2
    b3 = b3
    Bios = {b1}
    Size = 4
    Blank = Blank
    Stray = Stray
    Configs <- XdVector
SPECIFICATION Spec
INVARIANTS SegmentsIndependent
CHECK_DEADLOCK FALSE
