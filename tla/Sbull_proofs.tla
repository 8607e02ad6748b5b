---------------------------- MODULE Sbull_proofs ----------------------------
(***************************************************************************)
(* Proofs about Sbull.  LockInv is what dev->lock alone guarantees: it is  *)
(* inductive whether or not the block layer serialises open and release.   *)
(* TimerInv needs the serialisation.                                       *)
(***************************************************************************)
EXTENDS Sbull, FiniteSetTheorems, TLAPS

\* The processes that hold dev->lock: in open, in release, or stuck.
Holding == OpenLocked \cup {"drop", "arm", "unlock", "oops"}

\* The lock has the owner the program counters say.
LockOwner == \A p \in Procs : lock = p <=> pc[p] \in Holding

\* What was loaded from users under the lock is still there.
LoadedIsUsers == \A p \in Procs : pc[p] \in {"store", "drop"} => loaded[p] = users

\* What the first opener, between spin_lock and users++, and the last releaser,
\* between users-- and add_timer, know because they have the lock.
UnderLock ==
    \A p \in Procs :
        /\ pc[p] \in {"check", "revalidate", "wipe"} => users = 0
        /\ pc[p] = "wipe" => ~media_change
        /\ pc[p] \in {"count", "store"} => ~media_change /\ ~removed
        /\ pc[p] = "arm" => users = 0 /\ ~media_change /\ ~removed
        /\ pc[p] # "rescan_wipe"

\* A removed medium is flagged until the process that clears the flag wipes it.
RemovedIsFlagged ==
    removed => media_change \/ \E p \in Procs : pc[p] = "wipe"

\* The module stays while it is referred to.
IdleWhenUnloaded ==
    module # "live" => \A p \in Procs : pc[p] = "idle"

LockInv ==
    /\ TypeOK
    /\ LockOwner
    /\ LoadedIsUsers
    /\ UsersExact
    /\ UnderLock
    /\ RemovedIsFlagged
    /\ NoStaleMedium
    /\ IdleWhenUnloaded
    /\ NoTimerAfterExit

-----------------------------------------------------------------------------
\* How the count of users follows one process that moves.
LEMMA UsersFinite == IsFiniteSet(Users)
  BY FS_Subset, ProcsAssumption DEF Users

LEMMA UsersStay ==
  ASSUME NEW p \in Procs, NEW l, pc \in [Procs -> Points], Goto(p, l),
         pc[p] \in InUse <=> l \in InUse
  PROVE  Users' = Users
  BY DEF Users, Goto

LEMMA UsersGrow ==
  ASSUME NEW p \in Procs, NEW l, pc \in [Procs -> Points], Goto(p, l),
         pc[p] \notin InUse, l \in InUse
  PROVE  Cardinality(Users') = Cardinality(Users) + 1
  <1>1. Users' = Users \cup {p} /\ p \notin Users
    BY DEF Users, Goto
  <1>2. QED
    BY <1>1, UsersFinite, FS_AddElement

LEMMA UsersShrink ==
  ASSUME NEW p \in Procs, NEW l, pc \in [Procs -> Points], Goto(p, l),
         pc[p] \in InUse, l \notin InUse
  PROVE  Cardinality(Users') = Cardinality(Users) - 1
  <1>1. Users' = Users \ {p} /\ p \in Users
    BY DEF Users, Goto
  <1>2. QED
    BY <1>1, UsersFinite, FS_RemoveElement

\* The device is unused exactly when the count is 0.
LEMMA UnusedIsZero ==
  ASSUME UsersExact
  PROVE  users = 0 <=> \A p \in Procs : pc[p] \notin InUse
  <1>1. users = 0 <=> Users = {}
    BY UsersFinite, FS_EmptySet DEF UsersExact
  <1>2. QED
    BY <1>1 DEF Users

-----------------------------------------------------------------------------
\* LockInv holds initially, and every step keeps it.
LEMMA LockInvInit == Init => LockInv
  <1> SUFFICES ASSUME Init PROVE LockInv
    OBVIOUS
  <1>1. Users = {} /\ Cardinality(Users) = 0
    BY FS_EmptySet DEF Init, Users, InUse
  <1>2. UsersExact
    BY <1>1 DEF Init, UsersExact
  <1>3. TypeOK
    BY ProcsAssumption DEF Init, TypeOK, Data, Modules, Points
  <1>4. QED
    BY <1>2, <1>3, ProcsAssumption
    DEF Init, LockInv, LockOwner, Holding, OpenLocked, LoadedIsUsers,
        UnderLock, RemovedIsFlagged, NoStaleMedium,
        IdleWhenUnloaded, NoTimerAfterExit, InUse

LEMMA LockInvStep ==
  ASSUME LockInv, [Next]_vars
  PROVE  LockInv'
  <1> USE ProcsAssumption
  <1> USE DEF LockInv, Points, InDriver, OpenLocked, Holding, InUse, Data,
              Modules, devVars, timerVars, bdVars, Goto
  <1>u. users = 0 <=> \A p \in Procs : pc[p] \notin InUse
    BY UnusedIsZero
  <1>1. ASSUME NEW p \in Procs, OpenBegin(p) PROVE LockInv'
    <2> USE <1>1 DEF OpenBegin, TakeBdSem
    <2>1. TypeOK'
      BY DEF TypeOK
    <2>2. LockOwner'
      BY DEF LockOwner, TypeOK
    <2>3. LoadedIsUsers'
      BY DEF LoadedIsUsers, LockOwner, TypeOK
    <2>4. UsersExact'
      BY UsersStay, <1>u DEF UsersExact, TypeOK
    <2>5. UnderLock'
      BY <1>u DEF UnderLock, LockOwner, RemovedIsFlagged, NoStaleMedium, TypeOK
    <2>6. RemovedIsFlagged'
      BY DEF RemovedIsFlagged, LockOwner, UnderLock, TypeOK
    <2>7. NoStaleMedium'
      BY <1>u DEF NoStaleMedium, UnderLock, TypeOK
    <2>8. IdleWhenUnloaded'
      BY DEF IdleWhenUnloaded, TypeOK
    <2>9. NoTimerAfterExit'
      BY DEF NoTimerAfterExit, IdleWhenUnloaded
    <2>10. QED
      BY <2>1, <2>2, <2>3, <2>4, <2>5, <2>6, <2>7, <2>8, <2>9
  <1>2. ASSUME NEW p \in Procs, OpenDelTimer(p) PROVE LockInv'
    <2> USE <1>2 DEF OpenDelTimer
    <2>1. TypeOK'
      BY DEF TypeOK
    <2>2. LockOwner'
      BY DEF LockOwner, TypeOK
    <2>3. LoadedIsUsers'
      BY DEF LoadedIsUsers, LockOwner, TypeOK
    <2>4. UsersExact'
      BY UsersStay, <1>u DEF UsersExact, TypeOK
    <2>5. UnderLock'
      BY <1>u DEF UnderLock, LockOwner, RemovedIsFlagged, NoStaleMedium, TypeOK
    <2>6. RemovedIsFlagged'
      BY DEF RemovedIsFlagged, LockOwner, UnderLock, TypeOK
    <2>7. NoStaleMedium'
      BY <1>u DEF NoStaleMedium, UnderLock, TypeOK
    <2>8. IdleWhenUnloaded'
      BY DEF IdleWhenUnloaded, TypeOK
    <2>9. NoTimerAfterExit'
      BY DEF NoTimerAfterExit, IdleWhenUnloaded
    <2>10. QED
      BY <2>1, <2>2, <2>3, <2>4, <2>5, <2>6, <2>7, <2>8, <2>9
  <1>3. ASSUME NEW p \in Procs, OpenLock(p) PROVE LockInv'
    <2> USE <1>3 DEF OpenLock, SpinLock
    <2>1. TypeOK'
      BY DEF TypeOK
    <2>2. LockOwner'
      BY DEF LockOwner, TypeOK
    <2>3. LoadedIsUsers'
      BY DEF LoadedIsUsers, LockOwner, TypeOK
    <2>4. UsersExact'
      BY UsersStay, <1>u DEF UsersExact, TypeOK
    <2>5. UnderLock'
      BY <1>u DEF UnderLock, LockOwner, RemovedIsFlagged, NoStaleMedium, TypeOK
    <2>6. RemovedIsFlagged'
      BY DEF RemovedIsFlagged, LockOwner, UnderLock, TypeOK
    <2>7. NoStaleMedium'
      BY <1>u DEF NoStaleMedium, UnderLock, TypeOK
    <2>8. IdleWhenUnloaded'
      BY DEF IdleWhenUnloaded, TypeOK
    <2>9. NoTimerAfterExit'
      BY DEF NoTimerAfterExit, IdleWhenUnloaded
    <2>10. QED
      BY <2>1, <2>2, <2>3, <2>4, <2>5, <2>6, <2>7, <2>8, <2>9
  <1>4. ASSUME NEW p \in Procs, OpenCheck(p) PROVE LockInv'
    <2> USE <1>4 DEF OpenCheck
    <2>1. TypeOK'
      BY DEF TypeOK
    <2>2. LockOwner'
      BY DEF LockOwner, TypeOK
    <2>3. LoadedIsUsers'
      BY DEF LoadedIsUsers, LockOwner, TypeOK
    <2>4. UsersExact'
      BY UsersStay, <1>u DEF UsersExact, TypeOK
    <2>5. UnderLock'
      BY <1>u DEF UnderLock, LockOwner, RemovedIsFlagged, NoStaleMedium, TypeOK
    <2>6. RemovedIsFlagged'
      BY DEF RemovedIsFlagged, LockOwner, UnderLock, TypeOK
    <2>7. NoStaleMedium'
      BY <1>u DEF NoStaleMedium, UnderLock, TypeOK
    <2>8. IdleWhenUnloaded'
      BY DEF IdleWhenUnloaded, TypeOK
    <2>9. NoTimerAfterExit'
      BY DEF NoTimerAfterExit, IdleWhenUnloaded
    <2>10. QED
      BY <2>1, <2>2, <2>3, <2>4, <2>5, <2>6, <2>7, <2>8, <2>9
  <1>5. ASSUME NEW p \in Procs, OpenRevalidate(p) PROVE LockInv'
    <2> USE <1>5 DEF OpenRevalidate, Revalidate
    <2>1. TypeOK'
      <3>1. pc' \in [Procs -> Points]
        <4>1. pc \in [Procs -> Points]
          BY DEF TypeOK
        <4>2. PICK l \in Points : pc' = [pc EXCEPT ![p] = l]
          BY DEF TypeOK
        <4>3. QED
          BY <4>1, <4>2
      <3>2. QED
        BY <3>1 DEF TypeOK
    <2>2. LockOwner'
      BY DEF LockOwner, TypeOK
    <2>3. LoadedIsUsers'
      BY DEF LoadedIsUsers, LockOwner, TypeOK
    <2>4. UsersExact'
      BY UsersStay, <1>u DEF UsersExact, TypeOK
    <2>5. UnderLock'
      BY <1>u DEF UnderLock, LockOwner, RemovedIsFlagged, NoStaleMedium, TypeOK
    <2>6. RemovedIsFlagged'
      BY DEF RemovedIsFlagged, LockOwner, UnderLock, TypeOK
    <2>7. NoStaleMedium'
      BY <1>u DEF NoStaleMedium, UnderLock, TypeOK
    <2>8. IdleWhenUnloaded'
      BY DEF IdleWhenUnloaded, TypeOK
    <2>9. NoTimerAfterExit'
      BY DEF NoTimerAfterExit, IdleWhenUnloaded
    <2>10. QED
      BY <2>1, <2>2, <2>3, <2>4, <2>5, <2>6, <2>7, <2>8, <2>9
  <1>6. ASSUME NEW p \in Procs, OpenWipe(p) PROVE LockInv'
    <2> USE <1>6 DEF OpenWipe, Wipe
    <2>1. TypeOK'
      BY DEF TypeOK
    <2>2. LockOwner'
      BY DEF LockOwner, TypeOK
    <2>3. LoadedIsUsers'
      BY DEF LoadedIsUsers, LockOwner, TypeOK
    <2>4. UsersExact'
      BY UsersStay, <1>u DEF UsersExact, TypeOK
    <2>5. UnderLock'
      BY <1>u DEF UnderLock, LockOwner, RemovedIsFlagged, NoStaleMedium, TypeOK
    <2>6. RemovedIsFlagged'
      BY DEF RemovedIsFlagged, LockOwner, UnderLock, TypeOK
    <2>7. NoStaleMedium'
      BY <1>u DEF NoStaleMedium, UnderLock, TypeOK
    <2>8. IdleWhenUnloaded'
      BY DEF IdleWhenUnloaded, TypeOK
    <2>9. NoTimerAfterExit'
      BY DEF NoTimerAfterExit, IdleWhenUnloaded
    <2>10. QED
      BY <2>1, <2>2, <2>3, <2>4, <2>5, <2>6, <2>7, <2>8, <2>9
  <1>7. ASSUME NEW p \in Procs, OpenCount(p) PROVE LockInv'
    <2> USE <1>7 DEF OpenCount
    <2>1. TypeOK'
      BY DEF TypeOK
    <2>2. LockOwner'
      BY DEF LockOwner, TypeOK
    <2>3. LoadedIsUsers'
      BY DEF LoadedIsUsers, LockOwner, TypeOK
    <2>4. UsersExact'
      BY UsersStay, <1>u DEF UsersExact, TypeOK
    <2>5. UnderLock'
      BY <1>u DEF UnderLock, LockOwner, RemovedIsFlagged, NoStaleMedium, TypeOK
    <2>6. RemovedIsFlagged'
      BY DEF RemovedIsFlagged, LockOwner, UnderLock, TypeOK
    <2>7. NoStaleMedium'
      BY <1>u DEF NoStaleMedium, UnderLock, TypeOK
    <2>8. IdleWhenUnloaded'
      BY DEF IdleWhenUnloaded, TypeOK
    <2>9. NoTimerAfterExit'
      BY DEF NoTimerAfterExit, IdleWhenUnloaded
    <2>10. QED
      BY <2>1, <2>2, <2>3, <2>4, <2>5, <2>6, <2>7, <2>8, <2>9
  <1>8. ASSUME NEW p \in Procs, OpenStore(p) PROVE LockInv'
    <2> USE <1>8 DEF OpenStore, Unlock
    <2>1. TypeOK'
      <3>1. users' \in Nat /\ loaded' \in [Procs -> Nat]
        BY DEF TypeOK
      <3>2. pc' \in [Procs -> Points]
        BY DEF TypeOK
      <3>3. QED
        BY <3>1, <3>2 DEF TypeOK
    <2>2. LockOwner'
      BY DEF LockOwner, TypeOK
    <2>3. LoadedIsUsers'
      BY DEF LoadedIsUsers, LockOwner, TypeOK
    <2>4. UsersExact'
      <3>1. Cardinality(Users') = Cardinality(Users) + 1
        BY UsersGrow DEF TypeOK
      <3>2. users' = users + 1
        BY DEF LoadedIsUsers
      <3>3. QED
        BY <3>1, <3>2 DEF UsersExact
    <2>5. UnderLock'
      BY <1>u DEF UnderLock, LockOwner, RemovedIsFlagged, NoStaleMedium, TypeOK
    <2>6. RemovedIsFlagged'
      BY DEF RemovedIsFlagged, LockOwner, UnderLock, TypeOK
    <2>7. NoStaleMedium'
      BY <1>u DEF NoStaleMedium, UnderLock, TypeOK
    <2>8. IdleWhenUnloaded'
      BY DEF IdleWhenUnloaded, TypeOK
    <2>9. NoTimerAfterExit'
      BY DEF NoTimerAfterExit, IdleWhenUnloaded
    <2>10. QED
      BY <2>1, <2>2, <2>3, <2>4, <2>5, <2>6, <2>7, <2>8, <2>9
  <1>9. ASSUME NEW p \in Procs, RescanRevalidate(p) PROVE LockInv'
    <2> USE <1>9 DEF RescanRevalidate, Revalidate
    <2>1. TypeOK'
      <3>1. pc' \in [Procs -> Points]
        <4>1. pc \in [Procs -> Points]
          BY DEF TypeOK
        <4>2. PICK l \in Points : pc' = [pc EXCEPT ![p] = l]
          BY DEF TypeOK
        <4>3. QED
          BY <4>1, <4>2
      <3>2. QED
        BY <3>1 DEF TypeOK
    <2>2. LockOwner'
      BY DEF LockOwner, TypeOK
    <2>3. LoadedIsUsers'
      BY DEF LoadedIsUsers, LockOwner, TypeOK
    <2>4. UsersExact'
      BY UsersStay, <1>u DEF UsersExact, TypeOK
    <2>5. UnderLock'
      BY <1>u DEF UnderLock, LockOwner, RemovedIsFlagged, NoStaleMedium, TypeOK
    <2>6. RemovedIsFlagged'
      BY DEF RemovedIsFlagged, NoStaleMedium, LockOwner, UnderLock, TypeOK
    <2>7. NoStaleMedium'
      BY <1>u DEF NoStaleMedium, UnderLock, TypeOK
    <2>8. IdleWhenUnloaded'
      BY DEF IdleWhenUnloaded, TypeOK
    <2>9. NoTimerAfterExit'
      BY DEF NoTimerAfterExit, IdleWhenUnloaded
    <2>10. QED
      BY <2>1, <2>2, <2>3, <2>4, <2>5, <2>6, <2>7, <2>8, <2>9
  <1>10. ASSUME NEW p \in Procs, LeaveDriver(p) PROVE LockInv'
    <2> USE <1>10 DEF LeaveDriver, DropBdSem
    <2>1. TypeOK'
      BY DEF TypeOK
    <2>2. LockOwner'
      BY DEF LockOwner, TypeOK
    <2>3. LoadedIsUsers'
      BY DEF LoadedIsUsers, LockOwner, TypeOK
    <2>4. UsersExact'
      BY UsersStay, <1>u DEF UsersExact, TypeOK
    <2>5. UnderLock'
      BY <1>u DEF UnderLock, LockOwner, RemovedIsFlagged, NoStaleMedium, TypeOK
    <2>6. RemovedIsFlagged'
      BY DEF RemovedIsFlagged, LockOwner, UnderLock, TypeOK
    <2>7. NoStaleMedium'
      BY <1>u DEF NoStaleMedium, UnderLock, TypeOK
    <2>8. IdleWhenUnloaded'
      BY DEF IdleWhenUnloaded, TypeOK
    <2>9. NoTimerAfterExit'
      BY DEF NoTimerAfterExit, IdleWhenUnloaded
    <2>10. QED
      BY <2>1, <2>2, <2>3, <2>4, <2>5, <2>6, <2>7, <2>8, <2>9
  <1>11. ASSUME NEW p \in Procs, Write(p) PROVE LockInv'
    <2> USE <1>11 DEF Write
    <2>1. TypeOK'
      BY DEF TypeOK
    <2>2. LockOwner'
      BY DEF LockOwner, TypeOK
    <2>3. LoadedIsUsers'
      BY DEF LoadedIsUsers, LockOwner, TypeOK
    <2>4. UsersExact'
      BY DEF UsersExact, Users
    <2>5. UnderLock'
      BY <1>u DEF UnderLock, LockOwner, RemovedIsFlagged, NoStaleMedium, TypeOK
    <2>6. RemovedIsFlagged'
      BY DEF RemovedIsFlagged, LockOwner, UnderLock, TypeOK
    <2>7. NoStaleMedium'
      BY <1>u DEF NoStaleMedium, UnderLock, TypeOK
    <2>8. IdleWhenUnloaded'
      BY DEF IdleWhenUnloaded, TypeOK
    <2>9. NoTimerAfterExit'
      BY DEF NoTimerAfterExit, IdleWhenUnloaded
    <2>10. QED
      BY <2>1, <2>2, <2>3, <2>4, <2>5, <2>6, <2>7, <2>8, <2>9
  <1>12. ASSUME NEW p \in Procs, Reread(p) PROVE LockInv'
    <2> USE <1>12 DEF Reread, TakeBdSem
    <2>1. TypeOK'
      BY DEF TypeOK
    <2>2. LockOwner'
      BY DEF LockOwner, TypeOK
    <2>3. LoadedIsUsers'
      BY DEF LoadedIsUsers, LockOwner, TypeOK
    <2>4. UsersExact'
      BY UsersStay, <1>u DEF UsersExact, TypeOK
    <2>5. UnderLock'
      BY <1>u DEF UnderLock, LockOwner, RemovedIsFlagged, NoStaleMedium, TypeOK
    <2>6. RemovedIsFlagged'
      BY DEF RemovedIsFlagged, LockOwner, UnderLock, TypeOK
    <2>7. NoStaleMedium'
      BY <1>u DEF NoStaleMedium, UnderLock, TypeOK
    <2>8. IdleWhenUnloaded'
      BY DEF IdleWhenUnloaded, TypeOK
    <2>9. NoTimerAfterExit'
      BY DEF NoTimerAfterExit, IdleWhenUnloaded
    <2>10. QED
      BY <2>1, <2>2, <2>3, <2>4, <2>5, <2>6, <2>7, <2>8, <2>9
  <1>13. ASSUME NEW p \in Procs, ReleaseBegin(p) PROVE LockInv'
    <2> USE <1>13 DEF ReleaseBegin, TakeBdSem
    <2>1. TypeOK'
      BY DEF TypeOK
    <2>2. LockOwner'
      BY DEF LockOwner, TypeOK
    <2>3. LoadedIsUsers'
      BY DEF LoadedIsUsers, LockOwner, TypeOK
    <2>4. UsersExact'
      BY UsersStay, <1>u DEF UsersExact, TypeOK
    <2>5. UnderLock'
      BY <1>u DEF UnderLock, LockOwner, RemovedIsFlagged, NoStaleMedium, TypeOK
    <2>6. RemovedIsFlagged'
      BY DEF RemovedIsFlagged, LockOwner, UnderLock, TypeOK
    <2>7. NoStaleMedium'
      BY <1>u DEF NoStaleMedium, UnderLock, TypeOK
    <2>8. IdleWhenUnloaded'
      BY DEF IdleWhenUnloaded, TypeOK
    <2>9. NoTimerAfterExit'
      BY DEF NoTimerAfterExit, IdleWhenUnloaded
    <2>10. QED
      BY <2>1, <2>2, <2>3, <2>4, <2>5, <2>6, <2>7, <2>8, <2>9
  <1>14. ASSUME NEW p \in Procs, ReleaseLock(p) PROVE LockInv'
    <2> USE <1>14 DEF ReleaseLock, SpinLock
    <2>1. TypeOK'
      BY DEF TypeOK
    <2>2. LockOwner'
      BY DEF LockOwner, TypeOK
    <2>3. LoadedIsUsers'
      BY DEF LoadedIsUsers, LockOwner, TypeOK
    <2>4. UsersExact'
      BY UsersStay, <1>u DEF UsersExact, TypeOK
    <2>5. UnderLock'
      BY <1>u DEF UnderLock, LockOwner, RemovedIsFlagged, NoStaleMedium, TypeOK
    <2>6. RemovedIsFlagged'
      BY DEF RemovedIsFlagged, LockOwner, UnderLock, TypeOK
    <2>7. NoStaleMedium'
      BY <1>u DEF NoStaleMedium, UnderLock, TypeOK
    <2>8. IdleWhenUnloaded'
      BY DEF IdleWhenUnloaded, TypeOK
    <2>9. NoTimerAfterExit'
      BY DEF NoTimerAfterExit, IdleWhenUnloaded
    <2>10. QED
      BY <2>1, <2>2, <2>3, <2>4, <2>5, <2>6, <2>7, <2>8, <2>9
  <1>15. ASSUME NEW p \in Procs, RescanWipe(p) PROVE LockInv'
    BY <1>15 DEF RescanWipe, Wipe, UnderLock
  <1>16. ASSUME NEW p \in Procs, ReleaseDrop(p) PROVE LockInv'
    <2> USE <1>16 DEF ReleaseDrop, ArmsTimer
    <2>1. TypeOK'
      <3>1. users > 0 /\ loaded[p] = users
        BY <1>u DEF LoadedIsUsers, TypeOK
      <3>2. users' \in Nat /\ loaded' \in [Procs -> Nat]
        BY <3>1 DEF TypeOK
      <3>3. pc' \in [Procs -> Points]
        BY DEF TypeOK
      <3>4. QED
        BY <3>2, <3>3 DEF TypeOK
    <2>2. LockOwner'
      BY DEF LockOwner, TypeOK
    <2>3. LoadedIsUsers'
      BY DEF LoadedIsUsers, LockOwner, TypeOK
    <2>4. UsersExact'
      <3>1. users' = users - 1
        BY DEF LoadedIsUsers
      <3>2. Cardinality(Users') = Cardinality(Users) - 1
        BY UsersShrink DEF TypeOK
      <3>3. QED
        BY <3>1, <3>2 DEF UsersExact
    <2>5. UnderLock'
      BY <1>u DEF UnderLock, LockOwner, RemovedIsFlagged, NoStaleMedium, TypeOK
    <2>6. RemovedIsFlagged'
      BY DEF RemovedIsFlagged, LockOwner, UnderLock, TypeOK
    <2>7. NoStaleMedium'
      BY <1>u DEF NoStaleMedium, UnderLock, TypeOK
    <2>8. IdleWhenUnloaded'
      BY DEF IdleWhenUnloaded, TypeOK
    <2>9. NoTimerAfterExit'
      BY DEF NoTimerAfterExit, IdleWhenUnloaded
    <2>10. QED
      BY <2>1, <2>2, <2>3, <2>4, <2>5, <2>6, <2>7, <2>8, <2>9
  <1>17. ASSUME NEW p \in Procs, ReleaseArm(p) PROVE LockInv'
    <2> USE <1>17 DEF ReleaseArm
    <2>1. TypeOK'
      BY DEF TypeOK
    <2>2. LockOwner'
      BY DEF LockOwner, TypeOK
    <2>3. LoadedIsUsers'
      BY DEF LoadedIsUsers, LockOwner, TypeOK
    <2>4. UsersExact'
      BY UsersStay, <1>u DEF UsersExact, TypeOK
    <2>5. UnderLock'
      BY <1>u DEF UnderLock, LockOwner, RemovedIsFlagged, NoStaleMedium, TypeOK
    <2>6. RemovedIsFlagged'
      BY DEF RemovedIsFlagged, LockOwner, UnderLock, TypeOK
    <2>7. NoStaleMedium'
      BY <1>u DEF NoStaleMedium, UnderLock, TypeOK
    <2>8. IdleWhenUnloaded'
      BY DEF IdleWhenUnloaded, TypeOK
    <2>9. NoTimerAfterExit'
      BY DEF NoTimerAfterExit, IdleWhenUnloaded
    <2>10. QED
      BY <2>1, <2>2, <2>3, <2>4, <2>5, <2>6, <2>7, <2>8, <2>9
  <1>18. ASSUME NEW p \in Procs, ReleaseUnlock(p) PROVE LockInv'
    <2> USE <1>18 DEF ReleaseUnlock, Unlock
    <2>1. TypeOK'
      BY DEF TypeOK
    <2>2. LockOwner'
      BY DEF LockOwner, TypeOK
    <2>3. LoadedIsUsers'
      BY DEF LoadedIsUsers, LockOwner, TypeOK
    <2>4. UsersExact'
      BY UsersStay, <1>u DEF UsersExact, TypeOK
    <2>5. UnderLock'
      BY <1>u DEF UnderLock, LockOwner, RemovedIsFlagged, NoStaleMedium, TypeOK
    <2>6. RemovedIsFlagged'
      BY DEF RemovedIsFlagged, LockOwner, UnderLock, TypeOK
    <2>7. NoStaleMedium'
      BY <1>u DEF NoStaleMedium, UnderLock, TypeOK
    <2>8. IdleWhenUnloaded'
      BY DEF IdleWhenUnloaded, TypeOK
    <2>9. NoTimerAfterExit'
      BY DEF NoTimerAfterExit, IdleWhenUnloaded
    <2>10. QED
      BY <2>1, <2>2, <2>3, <2>4, <2>5, <2>6, <2>7, <2>8, <2>9
  <1>19. ASSUME Expire PROVE LockInv'
    <2> USE <1>19 DEF Expire
    <2>1. TypeOK'
      BY DEF TypeOK
    <2>2. LockOwner'
      BY DEF LockOwner, TypeOK
    <2>3. LoadedIsUsers'
      BY DEF LoadedIsUsers, LockOwner, TypeOK
    <2>4. UsersExact'
      BY <1>u DEF UsersExact, Users
    <2>5. UnderLock'
      BY <1>u DEF UnderLock, LockOwner, RemovedIsFlagged, NoStaleMedium, TypeOK
    <2>6. RemovedIsFlagged'
      BY DEF RemovedIsFlagged, LockOwner, UnderLock, TypeOK
    <2>7. NoStaleMedium'
      BY <1>u DEF NoStaleMedium, UnderLock, TypeOK
    <2>8. IdleWhenUnloaded'
      BY DEF IdleWhenUnloaded, TypeOK
    <2>9. NoTimerAfterExit'
      BY DEF NoTimerAfterExit, IdleWhenUnloaded
    <2>10. QED
      BY <2>1, <2>2, <2>3, <2>4, <2>5, <2>6, <2>7, <2>8, <2>9
  <1>20. ASSUME Invalidate PROVE LockInv'
    <2> USE <1>20 DEF Invalidate
    <2>1. TypeOK'
      BY DEF TypeOK
    <2>2. LockOwner'
      BY DEF LockOwner, TypeOK
    <2>3. LoadedIsUsers'
      BY DEF LoadedIsUsers, LockOwner, TypeOK
    <2>4. UsersExact'
      BY <1>u DEF UsersExact, Users
    <2>5. UnderLock'
      BY <1>u DEF UnderLock, LockOwner, RemovedIsFlagged, NoStaleMedium, TypeOK
    <2>6. RemovedIsFlagged'
      BY DEF RemovedIsFlagged, LockOwner, UnderLock, TypeOK
    <2>7. NoStaleMedium'
      BY <1>u DEF NoStaleMedium, UnderLock, TypeOK
    <2>8. IdleWhenUnloaded'
      BY DEF IdleWhenUnloaded, TypeOK
    <2>9. NoTimerAfterExit'
      BY DEF NoTimerAfterExit, IdleWhenUnloaded
    <2>10. QED
      BY <2>1, <2>2, <2>3, <2>4, <2>5, <2>6, <2>7, <2>8, <2>9
  <1>21. ASSUME ExitBegin PROVE LockInv'
    <2> USE <1>21 DEF ExitBegin
    <2>1. TypeOK'
      BY DEF TypeOK
    <2>2. LockOwner'
      BY DEF LockOwner, TypeOK
    <2>3. LoadedIsUsers'
      BY DEF LoadedIsUsers, LockOwner, TypeOK
    <2>4. UsersExact'
      BY <1>u DEF UsersExact, Users
    <2>5. UnderLock'
      BY <1>u DEF UnderLock, LockOwner, RemovedIsFlagged, NoStaleMedium, TypeOK
    <2>6. RemovedIsFlagged'
      BY DEF RemovedIsFlagged, LockOwner, UnderLock, TypeOK
    <2>7. NoStaleMedium'
      BY <1>u DEF NoStaleMedium, UnderLock, TypeOK
    <2>8. IdleWhenUnloaded'
      BY DEF IdleWhenUnloaded, TypeOK
    <2>9. NoTimerAfterExit'
      BY DEF NoTimerAfterExit, IdleWhenUnloaded
    <2>10. QED
      BY <2>1, <2>2, <2>3, <2>4, <2>5, <2>6, <2>7, <2>8, <2>9
  <1>22. ASSUME ExitDelTimer PROVE LockInv'
    <2> USE <1>22 DEF ExitDelTimer
    <2>1. TypeOK'
      BY DEF TypeOK
    <2>2. LockOwner'
      BY DEF LockOwner, TypeOK
    <2>3. LoadedIsUsers'
      BY DEF LoadedIsUsers, LockOwner, TypeOK
    <2>4. UsersExact'
      BY <1>u DEF UsersExact, Users
    <2>5. UnderLock'
      BY <1>u DEF UnderLock, LockOwner, RemovedIsFlagged, NoStaleMedium, TypeOK
    <2>6. RemovedIsFlagged'
      BY DEF RemovedIsFlagged, LockOwner, UnderLock, TypeOK
    <2>7. NoStaleMedium'
      BY <1>u DEF NoStaleMedium, UnderLock, TypeOK
    <2>8. IdleWhenUnloaded'
      BY DEF IdleWhenUnloaded, TypeOK
    <2>9. NoTimerAfterExit'
      BY DEF NoTimerAfterExit, IdleWhenUnloaded
    <2>10. QED
      BY <2>1, <2>2, <2>3, <2>4, <2>5, <2>6, <2>7, <2>8, <2>9
  <1>23. ASSUME ExitFree PROVE LockInv'
    <2> USE <1>23 DEF ExitFree
    <2>1. TypeOK'
      BY DEF TypeOK
    <2>2. LockOwner'
      BY DEF LockOwner, TypeOK
    <2>3. LoadedIsUsers'
      BY DEF LoadedIsUsers, LockOwner, TypeOK
    <2>4. UsersExact'
      BY <1>u DEF UsersExact, Users
    <2>5. UnderLock'
      BY <1>u DEF UnderLock, LockOwner, RemovedIsFlagged, NoStaleMedium, TypeOK
    <2>6. RemovedIsFlagged'
      BY DEF RemovedIsFlagged, LockOwner, UnderLock, TypeOK
    <2>7. NoStaleMedium'
      BY <1>u DEF NoStaleMedium, UnderLock, TypeOK
    <2>8. IdleWhenUnloaded'
      BY DEF IdleWhenUnloaded, TypeOK
    <2>9. NoTimerAfterExit'
      BY DEF NoTimerAfterExit, IdleWhenUnloaded
    <2>10. QED
      BY <2>1, <2>2, <2>3, <2>4, <2>5, <2>6, <2>7, <2>8, <2>9
  <1>24. ASSUME Load PROVE LockInv'
    <2> USE <1>24 DEF Load
    <2>1. TypeOK'
      BY DEF TypeOK
    <2>2. LockOwner'
      BY DEF LockOwner, TypeOK
    <2>3. LoadedIsUsers'
      BY DEF LoadedIsUsers, IdleWhenUnloaded
    <2>4. UsersExact'
      BY <1>u DEF UsersExact, Users, IdleWhenUnloaded
    <2>5. UnderLock'
      BY DEF UnderLock, IdleWhenUnloaded
    <2>6. RemovedIsFlagged'
      BY DEF RemovedIsFlagged, LockOwner, UnderLock, TypeOK
    <2>7. NoStaleMedium'
      BY <1>u DEF NoStaleMedium, UnderLock, TypeOK
    <2>8. IdleWhenUnloaded'
      BY DEF IdleWhenUnloaded, TypeOK
    <2>9. NoTimerAfterExit'
      BY DEF NoTimerAfterExit, IdleWhenUnloaded
    <2>10. QED
      BY <2>1, <2>2, <2>3, <2>4, <2>5, <2>6, <2>7, <2>8, <2>9
  <1>25. ASSUME UNCHANGED vars PROVE LockInv'
    <2> USE <1>25 DEF vars
    <2>1. TypeOK'
      BY DEF TypeOK
    <2>2. LockOwner'
      BY DEF LockOwner, TypeOK
    <2>3. LoadedIsUsers'
      BY DEF LoadedIsUsers, LockOwner, TypeOK
    <2>4. UsersExact'
      BY <1>u DEF UsersExact, Users
    <2>5. UnderLock'
      BY <1>u DEF UnderLock, LockOwner, RemovedIsFlagged, NoStaleMedium, TypeOK
    <2>6. RemovedIsFlagged'
      BY DEF RemovedIsFlagged, LockOwner, UnderLock, TypeOK
    <2>7. NoStaleMedium'
      BY <1>u DEF NoStaleMedium, UnderLock, TypeOK
    <2>8. IdleWhenUnloaded'
      BY DEF IdleWhenUnloaded, TypeOK
    <2>9. NoTimerAfterExit'
      BY DEF NoTimerAfterExit, IdleWhenUnloaded
    <2>10. QED
      BY <2>1, <2>2, <2>3, <2>4, <2>5, <2>6, <2>7, <2>8, <2>9
  <1>26. QED
    BY <1>1, <1>2, <1>3, <1>4, <1>5, <1>6, <1>7, <1>8, <1>9, <1>10, <1>11, <1>12, <1>13, <1>14, <1>15, <1>16, <1>17, <1>18, <1>19, <1>20, <1>21, <1>22, <1>23, <1>24, <1>25 DEF Next, InKernel, Timer

\* What dev->lock gives, for any number of processes and whether or not the
\* block layer serialises open and release.
THEOREM LockInvariant == Spec => []LockInv
  BY LockInvInit, LockInvStep, PTL DEF Spec

\* The state stays well typed: in particular users never becomes negative.
THEOREM TypeCorrect == Spec => []TypeOK
  <1>1. LockInv => TypeOK
    BY DEF LockInv
  <1>2. QED
    BY <1>1, LockInvariant, PTL

\* dev->users is the number of processes that have the device open.
THEOREM UsersExactHolds == Spec => []UsersExact
  <1>1. LockInv => UsersExact
    BY DEF LockInv
  <1>2. QED
    BY <1>1, LockInvariant, PTL

\* Nobody who has the device open sees a removed medium.
THEOREM NoStaleMediumHolds == Spec => []NoStaleMedium
  <1>1. LockInv => NoStaleMedium
    BY DEF LockInv
  <1>2. QED
    BY <1>1, LockInvariant, PTL

\* No timer is left when the module has freed the device.
THEOREM NoTimerAfterExitHolds == Spec => []NoTimerAfterExit
  <1>1. LockInv => NoTimerAfterExit
    BY DEF LockInv
  <1>2. QED
    BY <1>1, LockInvariant, PTL

\* The only step that wipes data is the first opener's, with the lock held.
LEMMA WipeIsUnderLocks ==
  ASSUME LockInv, [Next]_vars, data # "zero", data' = "zero"
  PROVE  \E p \in Procs : pc[p] = "wipe"
  BY DEF LockInv, UnderLock, Next, InKernel, Timer, vars, devVars, OpenBegin,
         OpenDelTimer, OpenLock, OpenCheck, OpenRevalidate, RescanRevalidate,
         Revalidate, OpenWipe, RescanWipe, Wipe, OpenCount, OpenStore,
         LeaveDriver, Write, Reread, ReleaseBegin, ReleaseLock, ReleaseDrop,
         ReleaseArm, ReleaseUnlock,
         Expire, Invalidate, ExitBegin, ExitDelTimer, ExitFree, Load

\* The unlocked sbull_revalidate never wipes a device that is in use.
THEOREM WipeOnlyUnusedHolds == Spec => WipeOnlyUnused
  <1>1. ASSUME LockInv, [Next]_vars, data # "zero", data' = "zero"
        PROVE  \A p \in Procs : pc[p] \notin InUse
    <2>1. users = 0
      BY <1>1, WipeIsUnderLocks DEF LockInv, UnderLock
    <2>2. QED
      BY <1>1, <2>1, UnusedIsZero DEF LockInv
  <1>2. LockInv /\ [Next]_vars =>
          [data # "zero" /\ data' = "zero" =>
             \A p \in Procs : pc[p] \notin InUse]_vars
    BY <1>1
  <1>3. QED
    BY <1>2, LockInvariant, PTL DEF Spec, WipeOnlyUnused

-----------------------------------------------------------------------------
\* What the block layer's serialisation adds.

\* bd_sem belongs to the process that is inside the driver.
SemOwner == \A p \in Procs : bd_sem = p <=> pc[p] \in InDriver \cup {"oops"}

\* While the timer matters, no process is past del_timer_sync, but the one that
\* armed it and is leaving.
Quiet == {"idle", "del_timer", "unlock", "closed"}

TimerQuiet ==
    pending \/ running =>
        /\ \A p \in Procs : pc[p] \in Quiet
        /\ ~media_change /\ ~removed
        /\ ~(pending /\ running)

NoOops == \A p \in Procs : pc[p] # "oops"

TimerInv == SemOwner /\ TimerQuiet /\ NoOops

LEMMA TimerInvInit == Init => TimerInv
  BY ProcsAssumption
  DEF Init, TimerInv, SemOwner, TimerQuiet, NoOops, InDriver, OpenLocked

LEMMA TimerInvStep ==
  ASSUME Serialised, LockInv, TimerInv, [Next]_vars
  PROVE  TimerInv'
  <1> USE ProcsAssumption
  <1> USE DEF TimerInv, Quiet, Points, InDriver, OpenLocked, InUse, devVars, timerVars,
              bdVars, Goto, TakeBdSem, DropBdSem, SpinLock, Unlock
  <1>t. TypeOK /\ IdleWhenUnloaded /\ NoTimerAfterExit /\ UnderLock
        /\ LoadedIsUsers /\ NoStaleMedium /\ UsersExact
    BY DEF LockInv
  <1>u. users = 0 <=> \A p \in Procs : pc[p] \notin InUse
    BY <1>t, UnusedIsZero
  <1>1. ASSUME NEW p \in Procs, OpenBegin(p) PROVE TimerInv'
    <2>1. SemOwner'
      BY <1>1, <1>t DEF OpenBegin, SemOwner, TypeOK
    <2>2. TimerQuiet' /\ NoOops'
      BY <1>1, <1>t DEF OpenBegin, TimerQuiet, NoOops, TypeOK
    <2>3. QED
      BY <2>1, <2>2
  <1>2. ASSUME NEW p \in Procs, OpenDelTimer(p) PROVE TimerInv'
    <2>1. SemOwner'
      BY <1>2, <1>t DEF OpenDelTimer, SemOwner, TypeOK
    <2>2. TimerQuiet' /\ NoOops'
      BY <1>2, <1>t DEF OpenDelTimer, TimerQuiet, NoOops, TypeOK
    <2>3. QED
      BY <2>1, <2>2
  <1>3. ASSUME NEW p \in Procs, OpenLock(p) PROVE TimerInv'
    <2>1. SemOwner'
      BY <1>3, <1>t DEF OpenLock, SemOwner, TypeOK
    <2>2. TimerQuiet' /\ NoOops'
      BY <1>3, <1>t DEF OpenLock, TimerQuiet, NoOops, TypeOK
    <2>3. QED
      BY <2>1, <2>2
  <1>4. ASSUME NEW p \in Procs, OpenCheck(p) PROVE TimerInv'
    <2>1. SemOwner'
      BY <1>4, <1>t DEF OpenCheck, SemOwner, TypeOK
    <2>2. TimerQuiet' /\ NoOops'
      BY <1>4, <1>t DEF OpenCheck, TimerQuiet, NoOops, TypeOK
    <2>3. QED
      BY <2>1, <2>2
  <1>5. ASSUME NEW p \in Procs, OpenRevalidate(p) PROVE TimerInv'
    <2>1. SemOwner'
      BY <1>5, <1>t DEF OpenRevalidate, Revalidate, SemOwner, TypeOK
    <2>2. TimerQuiet' /\ NoOops'
      BY <1>5, <1>t DEF OpenRevalidate, Revalidate, TimerQuiet, NoOops, TypeOK
    <2>3. QED
      BY <2>1, <2>2
  <1>6. ASSUME NEW p \in Procs, OpenWipe(p) PROVE TimerInv'
    <2>1. SemOwner'
      BY <1>6, <1>t DEF OpenWipe, Wipe, SemOwner, TypeOK
    <2>2. TimerQuiet' /\ NoOops'
      BY <1>6, <1>t DEF OpenWipe, Wipe, TimerQuiet, NoOops, TypeOK
    <2>3. QED
      BY <2>1, <2>2
  <1>7. ASSUME NEW p \in Procs, OpenCount(p) PROVE TimerInv'
    <2>1. SemOwner'
      BY <1>7, <1>t DEF OpenCount, SemOwner, TypeOK
    <2>2. TimerQuiet' /\ NoOops'
      BY <1>7, <1>t DEF OpenCount, TimerQuiet, NoOops, TypeOK
    <2>3. QED
      BY <2>1, <2>2
  <1>8. ASSUME NEW p \in Procs, OpenStore(p) PROVE TimerInv'
    <2>1. SemOwner'
      BY <1>8, <1>t DEF OpenStore, SemOwner, TypeOK
    <2>2. TimerQuiet' /\ NoOops'
      BY <1>8, <1>t DEF OpenStore, TimerQuiet, NoOops, TypeOK
    <2>3. QED
      BY <2>1, <2>2
  <1>9. ASSUME NEW p \in Procs, RescanRevalidate(p) PROVE TimerInv'
    <2>1. SemOwner'
      BY <1>9, <1>t DEF RescanRevalidate, Revalidate, SemOwner, TypeOK
    <2>2. TimerQuiet' /\ NoOops'
      BY <1>9, <1>t DEF RescanRevalidate, Revalidate, TimerQuiet, NoOops, TypeOK
    <2>3. QED
      BY <2>1, <2>2
  <1>10. ASSUME NEW p \in Procs, RescanWipe(p) PROVE TimerInv'
    <2>1. SemOwner'
      BY <1>10, <1>t DEF RescanWipe, Wipe, SemOwner, TypeOK
    <2>2. TimerQuiet' /\ NoOops'
      BY <1>10, <1>t DEF RescanWipe, Wipe, TimerQuiet, NoOops, TypeOK
    <2>3. QED
      BY <2>1, <2>2
  <1>11. ASSUME NEW p \in Procs, LeaveDriver(p) PROVE TimerInv'
    <2>1. SemOwner'
      BY <1>11, <1>t DEF LeaveDriver, SemOwner, TypeOK
    <2>2. TimerQuiet' /\ NoOops'
      BY <1>11, <1>t DEF LeaveDriver, TimerQuiet, NoOops, TypeOK
    <2>3. QED
      BY <2>1, <2>2
  <1>12. ASSUME NEW p \in Procs, Write(p) PROVE TimerInv'
    <2>1. SemOwner'
      BY <1>12, <1>t DEF Write, SemOwner, TypeOK
    <2>2. TimerQuiet' /\ NoOops'
      BY <1>12, <1>t DEF Write, TimerQuiet, NoOops, TypeOK
    <2>3. QED
      BY <2>1, <2>2
  <1>13. ASSUME NEW p \in Procs, Reread(p) PROVE TimerInv'
    <2>1. SemOwner'
      BY <1>13, <1>t DEF Reread, SemOwner, TypeOK
    <2>2. TimerQuiet' /\ NoOops'
      BY <1>13, <1>t DEF Reread, TimerQuiet, NoOops, TypeOK
    <2>3. QED
      BY <2>1, <2>2
  <1>14. ASSUME NEW p \in Procs, ReleaseBegin(p) PROVE TimerInv'
    <2>1. SemOwner'
      BY <1>14, <1>t DEF ReleaseBegin, SemOwner, TypeOK
    <2>2. TimerQuiet' /\ NoOops'
      BY <1>14, <1>t DEF ReleaseBegin, TimerQuiet, NoOops, TypeOK
    <2>3. QED
      BY <2>1, <2>2
  <1>15. ASSUME NEW p \in Procs, ReleaseLock(p) PROVE TimerInv'
    <2>1. SemOwner'
      BY <1>15, <1>t DEF ReleaseLock, SemOwner, TypeOK
    <2>2. TimerQuiet' /\ NoOops'
      BY <1>15, <1>t DEF ReleaseLock, TimerQuiet, NoOops, TypeOK
    <2>3. QED
      BY <2>1, <2>2
  <1>16. ASSUME NEW p \in Procs, ReleaseDrop(p) PROVE TimerInv'
    <2>1. SemOwner'
      BY <1>16, <1>t DEF ReleaseDrop, SemOwner, TypeOK
    <2>2. TimerQuiet' /\ NoOops'
      BY <1>16, <1>t DEF ReleaseDrop, TimerQuiet, NoOops, TypeOK
    <2>3. QED
      BY <2>1, <2>2
  <1>17. ASSUME NEW p \in Procs, ReleaseArm(p) PROVE TimerInv'
    <2> USE <1>17 DEF ReleaseArm
    <2>1. ~pending /\ ~running /\ users = 0 /\ ~media_change /\ ~removed
      BY <1>t DEF TimerQuiet, UnderLock
    <2>2. pc'[p] = "unlock" /\ \A q \in Procs \ {p} : pc'[q] = pc[q]
      BY <2>1, <1>t DEF TypeOK
    <2>3. SemOwner'
      BY <2>1, <1>t DEF SemOwner, TypeOK
    <2>4. NoOops'
      BY <2>2 DEF NoOops
    <2>5. ASSUME NEW q \in Procs \ {p} PROVE pc[q] \in {"idle", "del_timer"}
      <3>1. pc[q] \notin InUse /\ pc[q] \notin InDriver
        BY <2>1, <1>u DEF SemOwner
      <3>2. QED
        BY <3>1, <1>t DEF TypeOK, NoOops
    <2>6. TimerQuiet'
      BY <2>1, <2>2, <2>5 DEF TimerQuiet
    <2>7. QED
      BY <2>3, <2>4, <2>6
  <1>18. ASSUME NEW p \in Procs, ReleaseUnlock(p) PROVE TimerInv'
    <2>1. SemOwner'
      BY <1>18, <1>t DEF ReleaseUnlock, SemOwner, TypeOK
    <2>2. TimerQuiet' /\ NoOops'
      BY <1>18, <1>t DEF ReleaseUnlock, TimerQuiet, NoOops, TypeOK
    <2>3. QED
      BY <2>1, <2>2
  <1>19. CASE Expire
    BY <1>19, <1>t DEF Expire, SemOwner, TimerQuiet, NoOops, NoTimerAfterExit, TypeOK
  <1>20. CASE Invalidate
    BY <1>20, <1>t DEF Invalidate, SemOwner, TimerQuiet, NoOops, NoTimerAfterExit, TypeOK
  <1>21. CASE ExitBegin
    BY <1>21, <1>t DEF ExitBegin, SemOwner, TimerQuiet, NoOops, NoTimerAfterExit, TypeOK
  <1>22. CASE ExitDelTimer
    BY <1>22, <1>t DEF ExitDelTimer, SemOwner, TimerQuiet, NoOops, NoTimerAfterExit, TypeOK
  <1>23. CASE ExitFree
    BY <1>23, <1>t DEF ExitFree, SemOwner, TimerQuiet, NoOops, NoTimerAfterExit, TypeOK
  <1>24. CASE Load
    BY <1>24, <1>t DEF Load, SemOwner, TimerQuiet, NoOops, NoTimerAfterExit, TypeOK
  <1>25. CASE UNCHANGED vars
    BY <1>25, <1>t DEF vars, SemOwner, TimerQuiet, NoOops, NoTimerAfterExit, TypeOK
  <1>26. QED
    BY <1>1, <1>2, <1>3, <1>4, <1>5, <1>6, <1>7, <1>8, <1>9, <1>10, <1>11, <1>12, <1>13, <1>14, <1>15, <1>16, <1>17, <1>18, <1>19, <1>20, <1>21, <1>22, <1>23, <1>24, <1>25 DEF Next, InKernel, Timer

\* With the block layer's semaphore the timer and its handler only ever meet a
\* device that nobody has open, with its medium in place, and wait for nobody's
\* lock but that of the releaser that armed the timer.
THEOREM TimerOnlyWhenClosedHolds ==
  ASSUME Serialised
  PROVE  Spec => []TimerOnlyWhenClosed
  <1>1. Init => TimerInv
    BY TimerInvInit
  <1>2. LockInv /\ TimerInv /\ [Next]_vars => TimerInv'
    BY TimerInvStep
  <1>3. LockInv /\ TimerInv => TimerOnlyWhenClosed
    <2> SUFFICES ASSUME LockInv, TimerInv, pending \/ running
                 PROVE  TimerOnlyWhenClosed
      BY DEF TimerOnlyWhenClosed
    <2>1. ~media_change /\ ~removed /\ \A p \in Procs : pc[p] \in Quiet
      BY DEF TimerInv, TimerQuiet
    <2>2. users = 0
      BY <2>1, UnusedIsZero DEF LockInv, InUse, Quiet
    <2>3. \A p \in Procs : lock = p => pc[p] = "unlock"
      BY <2>1 DEF LockInv, LockOwner, Holding, OpenLocked, Quiet
    <2>4. QED
      BY <2>1, <2>2, <2>3 DEF TimerOnlyWhenClosed
  <1>4. QED
    BY <1>1, <1>2, <1>3, LockInvariant, PTL DEF Spec

\* ... so add_timer never finds the timer armed.
THEOREM NoOopsHolds ==
  ASSUME Serialised
  PROVE  Spec => []NoOops
  <1>1. LockInv /\ TimerInv /\ [Next]_vars => TimerInv'
    BY TimerInvStep
  <1>2. TimerInv => NoOops
    BY DEF TimerInv
  <1>3. QED
    BY <1>1, <1>2, TimerInvInit, LockInvariant, PTL DEF Spec
=============================================================================
