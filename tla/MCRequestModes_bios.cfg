CONSTANTS
    b1 = b1
    b2 = b2
    b3 = b3
    Bios = {b1, b2, b3}
    Size = 3
    Blank = Blank
    Stray = Stray
    Configs <- AnyMode
SPECIFICATION Spec
SYMMETRY BioSymmetry
INVARIANTS TypeOK OneRequestEach
PROPERTIES ImplementsBlockDevice
\* Every bio may have ended.
CHECK_DEADLOCK FALSE
