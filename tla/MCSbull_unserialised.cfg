\* Only the lock of the driver orders open and release; a BUG may stop a process.
CONSTANTS
    p1 = p1
    p2 = p2
    p3 = p3
    Procs = {p1, p2, p3}
    NoProc = NoProc
    Serialised = FALSE
    LockedIO = FALSE
SPECIFICATION Spec
SYMMETRY ProcSymmetry
INVARIANTS UsersExact NoStaleMedium
CHECK_DEADLOCK FALSE
