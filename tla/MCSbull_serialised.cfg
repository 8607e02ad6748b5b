\* The block layer serialises open and release: 2.6 kernels with bd_sem.
CONSTANTS
    p1 = p1
    p2 = p2
    p3 = p3
    Procs = {p1, p2, p3}
    NoProc = NoProc
    Serialised = TRUE
    LockedIO = TRUE
SPECIFICATION FairSpec
INVARIANTS TypeOK UsersExact NoStaleMedium TimerOnlyWhenClosed NoTimerAfterExit
PROPERTIES WipeOnlyUnused OpenCompletes ClosedIsRemoved
