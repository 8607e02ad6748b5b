\* Three bios, so that a write can follow a write and a read both.
CONSTANTS
    b1 = b1
    b2 = b2
    b3 = b3
    Bios = {b1, b2, b3}
    Size = 2
    Blank = Blank
SPECIFICATION Spec
SYMMETRY BioSymmetry
INVARIANTS TypeOK ReadsFresh WritesKept
\* Every bio may have ended.
CHECK_DEADLOCK FALSE
