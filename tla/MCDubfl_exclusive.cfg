CONSTANTS
    empty = empty
    small = small
    large = large
    t1 = t1
    t2 = t2
    Callers = {t1, t2}
    Files = {empty, small, large}
    Missing = missing
    NoFile = NoFile
    FileSize <- SizeOf
    Written = Written
    Garbage = Garbage
    WrapSectors = 4
    Exclusive = TRUE
    BoundAtExit = TRUE
    InsmodNames = {empty, small, large, missing}
SPECIFICATION FairSpec
INVARIANTS TypeOK NoWildAccess PartsAgree ImageIsFile SavedAtExit
PROPERTIES CommandsEnd
