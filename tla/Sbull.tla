------------------------------- MODULE Sbull -------------------------------
(***************************************************************************)
(* The life of one sbull device (lesson-13-block-devices/block_mod.LDD3/   *)
(* original/sbull.c): opening, releasing, the "media removal" timer, the   *)
(* revalidation that wipes the data and the unloading of the module.       *)
(*                                                                         *)
(* Several processes open the device.  The kernel's block layer, which is  *)
(* not part of the sources, calls the driver's open and release with the   *)
(* semaphore bd_sem of the device held, keeps the module loaded while the  *)
(* device is open, and runs the timer handler at any moment after the      *)
(* timer is armed.  Serialised = FALSE drops bd_sem, to see what the       *)
(* driver's own lock gives without it.                                     *)
(***************************************************************************)
EXTENDS Integers, FiniteSets

CONSTANTS
    Procs,       \* processes that open the device
    NoProc,      \* the owner of a free lock
    Serialised,  \* the block layer holds bd_sem around open and release
    LockedIO     \* requests run under dev->lock (every mode but RM_NOQUEUE)

ASSUME ProcsAssumption ==
    /\ IsFiniteSet(Procs)
    /\ NoProc \notin Procs
    /\ Serialised \in BOOLEAN
    /\ LockedIO \in BOOLEAN

VARIABLES
    users,          \* dev->users
    loaded,         \* the value of dev->users a process has loaded
    media_change,   \* dev->media_change
    data,           \* what dev->data holds
    removed,        \* history: the user data belongs to a removed medium
    lock,           \* owner of dev->lock
    pending,        \* dev->timer is armed
    running,        \* the timer handler has been entered and has not ended
    bd_sem,         \* the block layer's semaphore
    bd_invalidated, \* the block layer's "partitions must be read again" flag
    module,         \* the state of the module
    pc              \* where each process is

devVars   == <<users, loaded, media_change, data, removed>>
timerVars == <<pending, running>>
bdVars    == <<bd_sem, bd_invalidated>>
vars == <<devVars, lock, timerVars, bdVars, module, pc>>

Data    == {"blank", "user", "zero", "freed"}
Modules == {"live", "going", "stopped", "gone"}

\* A process that holds dev->lock, in sbull_open and in sbull_release.
OpenLocked == {"check", "revalidate", "wipe", "count", "store"}
\* A process that dev->users counts.
InUse == {"rescan", "rescan_wipe", "leave", "open", "release", "drop"}
\* A process for which the block layer holds bd_sem.
InDriver == {"del_timer", "lock", "rescan", "rescan_wipe", "leave", "release",
             "drop", "arm", "unlock", "closed"} \cup OpenLocked
\* "oops": add_timer() found the timer armed and hit its BUG_ON.
Points == {"idle", "open", "oops"} \cup InDriver

Goto(p, l) == pc' = [pc EXCEPT ![p] = l]

TakeBdSem(p) ==
    IF Serialised THEN bd_sem = NoProc /\ bd_sem' = p ELSE UNCHANGED bd_sem
DropBdSem == bd_sem' = NoProc

\* spin_lock(&dev->lock) by process p, and spin_unlock.
SpinLockForgotten(p) == lock' = p
SpinLock(p) == lock = NoProc /\ lock' = p
UnlockForgotten == UNCHANGED lock
Unlock == lock' = NoProc

-----------------------------------------------------------------------------
\* A device that setup_device has just set up: vmalloc leaves the data blank.
Init ==
    /\ users = 0 /\ loaded = [p \in Procs |-> 0]
    /\ media_change = FALSE /\ data = "blank" /\ removed = FALSE
    /\ lock = NoProc /\ bd_sem = NoProc /\ bd_invalidated = FALSE
    /\ pending = FALSE /\ running = FALSE
    /\ module = "live"
    /\ pc = [p \in Procs |-> "idle"]

-----------------------------------------------------------------------------
\* sbull_open.

\* The block layer takes bd_sem and a reference to the module, and calls open.
OpenBegin(p) ==
    /\ pc[p] = "idle" /\ module = "live"
    /\ TakeBdSem(p)
    /\ Goto(p, "del_timer")
    /\ UNCHANGED <<devVars, lock, timerVars, bd_invalidated, module>>

\* A mutant: del_timer instead of del_timer_sync.
OpenDelTimerNoSync(p) ==
    /\ pc[p] = "del_timer"
    /\ pending' = FALSE
    /\ Goto(p, "lock")
    /\ UNCHANGED <<devVars, lock, running, bdVars, module>>

\* del_timer_sync: disarms the timer and waits for a handler that is running.
\* It comes before the lock, which the handler needs.
OpenDelTimer(p) ==
    /\ pc[p] = "del_timer" /\ ~running
    /\ pending' = FALSE
    /\ Goto(p, "lock")
    /\ UNCHANGED <<devVars, lock, running, bdVars, module>>

OpenLock(p) ==
    /\ pc[p] = "lock"
    /\ SpinLock(p)
    /\ Goto(p, IF users = 0 THEN "check" ELSE "count")
    /\ UNCHANGED <<devVars, timerVars, bdVars, module>>

\* A mutant: the change is noted, and the data not revalidated.
OpenCheckOnly(p) ==
    /\ pc[p] = "check"
    /\ bd_invalidated' = (bd_invalidated \/ media_change)
    /\ Goto(p, "count")
    /\ UNCHANGED <<devVars, lock, timerVars, bd_sem, module>>

\* check_disk_change asks sbull_media_changed, and on a change notes that the
\* partitions must be read again and calls sbull_revalidate.
OpenCheck(p) ==
    /\ pc[p] = "check"
    /\ bd_invalidated' = (bd_invalidated \/ media_change)
    /\ Goto(p, IF media_change THEN "revalidate" ELSE "count")
    /\ UNCHANGED <<devVars, lock, timerVars, bd_sem, module>>

\* A mutant: the flag is never cleared.
RevalidateKeepsFlag(p, from, wipe, skip) ==
    /\ pc[p] = from
    /\ Goto(p, IF media_change THEN wipe ELSE skip)
    /\ UNCHANGED <<devVars, lock, timerVars, bdVars, module>>

\* sbull_revalidate, which takes no lock: the flag is cleared first ...
Revalidate(p, from, wipe, skip) ==
    /\ pc[p] = from
    /\ media_change' = FALSE
    /\ Goto(p, IF media_change THEN wipe ELSE skip)
    /\ UNCHANGED <<users, loaded, data, removed, lock, timerVars, bdVars, module>>

\* ... and the data is wiped next.
Wipe(p, from, next) ==
    /\ pc[p] = from
    /\ data' = "zero" /\ removed' = FALSE
    /\ Goto(p, next)
    /\ UNCHANGED <<users, loaded, media_change, lock, timerVars, bdVars, module>>

OpenRevalidate(p) == Revalidate(p, "revalidate", "wipe", "count")
OpenWipe(p)       == Wipe(p, "wipe", "count")

\* users++ loads the count ...
OpenCount(p) ==
    /\ pc[p] = "count"
    /\ loaded' = [loaded EXCEPT ![p] = users]
    /\ Goto(p, "store")
    /\ UNCHANGED <<users, media_change, data, removed, lock, timerVars, bdVars,
                   module>>

\* A mutant: users is a flag, not a count.
OpenStoreFlag(p) ==
    /\ pc[p] = "store"
    /\ users' = 1 /\ loaded' = [loaded EXCEPT ![p] = 0]
    /\ Unlock
    /\ bd_invalidated' = FALSE
    /\ Goto(p, IF bd_invalidated THEN "rescan" ELSE "leave")
    /\ UNCHANGED <<media_change, data, removed, timerVars, bd_sem, module>>

\* ... and stores it; unlock.  Back in the block layer, an invalidated device
\* has its partitions read again before bd_sem is released.
OpenStore(p) ==
    /\ pc[p] = "store"
    /\ users' = loaded[p] + 1 /\ loaded' = [loaded EXCEPT ![p] = 0]
    /\ Unlock
    /\ bd_invalidated' = FALSE
    /\ Goto(p, IF bd_invalidated THEN "rescan" ELSE "leave")
    /\ UNCHANGED <<media_change, data, removed, timerVars, bd_sem, module>>

\* rescan_partitions calls sbull_revalidate, this time without dev->lock.
RescanRevalidate(p) == Revalidate(p, "rescan", "rescan_wipe", "leave")
RescanWipe(p)       == Wipe(p, "rescan_wipe", "leave")

\* Back from open, from release or from the partitions: bd_sem is given up.
LeaveDriver(p) ==
    /\ pc[p] \in {"leave", "closed"}
    /\ DropBdSem
    /\ Goto(p, IF pc[p] = "leave" THEN "open" ELSE "idle")
    /\ UNCHANGED <<devVars, lock, timerVars, bd_invalidated, module>>

-----------------------------------------------------------------------------
\* What a process that has the device open may do.

\* A write request: the request functions run with dev->lock, which is the
\* queue's lock, held; sbull_make_request runs with no lock.
Write(p) ==
    /\ pc[p] = "open"
    /\ LockedIO => lock = NoProc
    /\ data' = "user"
    /\ UNCHANGED <<users, loaded, media_change, removed, lock, timerVars,
                   bdVars, module, pc>>

\* ioctl BLKRRPART: partitions are read again on request, under bd_sem.
Reread(p) ==
    /\ pc[p] = "open"
    /\ TakeBdSem(p)
    /\ Goto(p, "rescan")
    /\ UNCHANGED <<devVars, lock, timerVars, bd_invalidated, module>>

ReleaseBegin(p) ==
    /\ pc[p] = "open"
    /\ TakeBdSem(p)
    /\ Goto(p, "release")
    /\ UNCHANGED <<devVars, lock, timerVars, bd_invalidated, module>>

\* sbull_release: users-- under the lock ...
ReleaseLock(p) ==
    /\ pc[p] = "release"
    /\ SpinLock(p)
    /\ loaded' = [loaded EXCEPT ![p] = users]
    /\ Goto(p, "drop")
    /\ UNCHANGED <<users, media_change, data, removed, timerVars, bdVars,
                   module>>

\* ... stores it; the last user has the timer to arm.  The mutants never do, or
\* always.
NeverArms(left)  == FALSE
AlwaysArms(left) == TRUE
ArmsTimer(left) == left = 0

ReleaseDrop(p) ==
    /\ pc[p] = "drop"
    /\ users' = loaded[p] - 1 /\ loaded' = [loaded EXCEPT ![p] = 0]
    /\ Goto(p, IF ArmsTimer(users') THEN "arm" ELSE "unlock")
    /\ UNCHANGED <<media_change, data, removed, lock, timerVars, bdVars, module>>

\* add_timer, with the lock held: an armed timer is a BUG.  From here the timer
\* may expire, its handler waiting for the lock ...
ReleaseArm(p) ==
    /\ pc[p] = "arm"
    /\ pending' = TRUE
    /\ Goto(p, IF pending THEN "oops" ELSE "unlock")
    /\ UNCHANGED <<devVars, lock, running, bdVars, module>>

\* ... which is given up last.
ReleaseUnlock(p) ==
    /\ pc[p] = "unlock"
    /\ Unlock
    /\ Goto(p, "closed")
    /\ UNCHANGED <<devVars, timerVars, bdVars, module>>

-----------------------------------------------------------------------------
\* The timer.  INVALIDATE_DELAY is not measured: an armed timer may expire at
\* any moment.

Expire ==
    /\ pending /\ ~running
    /\ pending' = FALSE /\ running' = TRUE
    /\ UNCHANGED <<devVars, lock, bdVars, module, pc>>

\* A mutant: the medium is flagged whoever uses it.
InvalidateUnchecked ==
    /\ running /\ lock = NoProc
    /\ running' = FALSE
    /\ media_change' = TRUE
    /\ removed' = (removed \/ data = "user")
    /\ UNCHANGED <<users, loaded, data, lock, pending, bdVars, module, pc>>

\* sbull_invalidate: nothing but a warning ("timer sanity check failed") when
\* the device has users.  dev->data is not NULL once the timer was armed.
Invalidate ==
    /\ running /\ lock = NoProc
    /\ running' = FALSE
    /\ media_change' = (media_change \/ users = 0)
    /\ removed' = (removed \/ (users = 0 /\ data = "user"))
    /\ UNCHANGED <<users, loaded, data, lock, pending, bdVars, module, pc>>

-----------------------------------------------------------------------------
\* sbull_exit, which the kernel runs when nobody holds the module.

ExitBegin ==
    /\ module = "live"
    /\ \A p \in Procs : pc[p] = "idle"
    /\ module' = "going"
    /\ UNCHANGED <<devVars, lock, timerVars, bdVars, pc>>

\* A mutant: del_timer instead of del_timer_sync.
ExitDelTimerNoSync ==
    /\ module = "going"
    /\ pending' = FALSE
    /\ module' = "stopped"
    /\ UNCHANGED <<devVars, lock, running, bdVars, pc>>

ExitDelTimer ==
    /\ module = "going" /\ ~running
    /\ pending' = FALSE
    /\ module' = "stopped"
    /\ UNCHANGED <<devVars, lock, running, bdVars, pc>>

ExitFree ==
    /\ module = "stopped"
    /\ data' = "freed" /\ removed' = FALSE
    /\ module' = "gone"
    /\ UNCHANGED <<users, loaded, media_change, lock, timerVars, bdVars, pc>>

\* sbull_init and setup_device, with every allocation succeeding.
Load ==
    /\ module = "gone"
    /\ module' = "live"
    /\ users' = 0 /\ media_change' = FALSE
    /\ data' = "blank" /\ removed' = FALSE
    /\ bd_invalidated' = FALSE
    /\ UNCHANGED <<loaded, lock, timerVars, bd_sem, pc>>

-----------------------------------------------------------------------------
\* The steps a process inside the kernel takes without being asked.
InKernel(p) ==
    \/ OpenDelTimer(p) \/ OpenLock(p) \/ OpenCheck(p)
    \/ OpenRevalidate(p) \/ OpenWipe(p) \/ OpenCount(p) \/ OpenStore(p)
    \/ RescanRevalidate(p) \/ RescanWipe(p) \/ LeaveDriver(p)
    \/ ReleaseLock(p) \/ ReleaseDrop(p) \/ ReleaseArm(p) \/ ReleaseUnlock(p)

Timer == Expire \/ Invalidate

Next ==
    \/ \E p \in Procs :
          OpenBegin(p) \/ Write(p) \/ Reread(p) \/ ReleaseBegin(p) \/ InKernel(p)
    \/ Timer
    \/ ExitBegin \/ ExitDelTimer \/ ExitFree \/ Load

Spec == Init /\ [][Next]_vars

\* A process in the kernel is scheduled, and the timer wheel turns.
Fairness ==
    /\ \A p \in Procs : WF_vars(InKernel(p))
    /\ WF_vars(Expire) /\ WF_vars(Invalidate)

FairSpec == Spec /\ Fairness

-----------------------------------------------------------------------------
\* Type invariant (struct sbull_dev and the kernel's state around it).
TypeOK ==
    /\ users \in Nat /\ loaded \in [Procs -> Nat]
    /\ media_change \in BOOLEAN
    /\ data \in Data
    /\ removed \in BOOLEAN
    /\ lock \in Procs \cup {NoProc}
    /\ pending \in BOOLEAN /\ running \in BOOLEAN
    /\ bd_sem \in Procs \cup {NoProc}
    /\ bd_invalidated \in BOOLEAN
    /\ module \in Modules
    /\ pc \in [Procs -> Points]

Users == {p \in Procs : pc[p] \in InUse}

\* dev->users counts the processes that have the device open, whatever
\* sequence of opens and releases led here.
UsersExact == users = Cardinality(Users)

\* Nobody has the device open while its medium is flagged as removed, or holds
\* what was written before the removal: the first opener has revalidated it.
NoStaleMedium ==
    (\E p \in Procs : pc[p] \in InUse) => ~media_change /\ ~removed

\* sbull_revalidate, which takes no lock, wipes data only while no process has
\* the device open.
WipeOnlyUnused ==
    [][data # "zero" /\ data' = "zero" => \A p \in Procs : pc[p] \notin InUse]_vars

\* The timer is armed, and its handler runs, only while nobody has the device
\* open: the handler's "timer sanity check" never fails, a medium is in place for
\* the whole of the grace period, and the only process whose dev->lock the
\* handler may have to wait for is the releaser that armed it (sbull.c:229-231),
\* never an opener, who would be at work under the lock.
TimerOnlyWhenClosed ==
    pending \/ running =>
        /\ users = 0
        /\ \A p \in Procs : lock = p => pc[p] = "unlock"
        /\ ~media_change /\ ~removed

\* Once the module's exit has passed del_timer_sync no timer is armed and no
\* handler runs: none can touch the freed device.
NoTimerAfterExit == module \in {"stopped", "gone"} => ~pending /\ ~running

\* del_timer_sync and the lock never wait for ever: an open that has entered
\* the driver ends with the device open.
OpenCompletes == \A p \in Procs : pc[p] = "del_timer" ~> pc[p] = "open"

\* sbull.h: a device "left closed" is removed.  A closed device with data on it
\* has its medium flagged as removed unless it is opened or unloaded.
Closed == module = "live" /\ \A p \in Procs : pc[p] = "idle"
ClosedIsRemoved == Closed /\ data = "user" ~> media_change \/ ~Closed
=============================================================================
