CONSTANTS
    empty = empty
    small = small
    large = large
    t1 = t1
    t2 = t2
    Callers = {t1}
    Files = {empty, small, large}
    Missing = missing
    NoFile = NoFile
    FileSize <- SizeOf
    Written = Written
    Garbage = Garbage
    WrapSectors = 4
    Exclusive = FALSE
    BoundAtExit = TRUE
    InsmodNames = {small, large}
SPECIFICATION Spec
INVARIANTS NoWildAccess
