CONSTANTS
    empty = empty
    small = small
    large = large
    t1 = t1
    t2 = t2
    Callers = {t1}
    Files = {empty, small, large}
    Missing = missing
    NoFile = NoFile
    FileSize <- SizeOf
    Written = Written
    Garbage = Garbage
    WrapSectors = 4
    Exclusive = TRUE
    BoundAtExit = FALSE
    InsmodNames = {small, large}
SPECIFICATION Spec
\* A module whose insmod or rmmod met an oops stays where it is.
CHECK_DEADLOCK FALSE
INVARIANTS NoOops
