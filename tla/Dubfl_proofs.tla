---------------------------- MODULE Dubfl_proofs ----------------------------
(* What Dubfl guarantees for any number of callers, and any files whose bytes *)
(* fit bsize, when nobody uses the disk or gives it another command while a   *)
(* command runs.                                                              *)
EXTENDS Dubfl, TLAPS

\* No file is so large that bsize wraps.
FilesFit == \A n \in Files : FileSize(n) < WrapSectors

\* The part of the type that the other invariants rest on.
Shape ==
    /\ fname \in Names \cup {NoFile} /\ f \in Files \cup {NoFile}
    /\ pc \in [Callers -> Pcs] /\ task \in [Callers -> Tasks]
    /\ fil \in [Callers -> Files \cup {NoFile}] /\ off \in [Callers -> Nat]
    /\ req \in [dir : {"none", "read", "write"}, sector : Nat]
    /\ capacity \in Nat /\ ssize \in Nat /\ bsize \in Nat
    /\ DOMAIN files = Files
    /\ \A n \in Files : DOMAIN files[n] = 0 .. FileSize(n) - 1

\* Where a function that several commands call may return to.
LEMMA ReturnTo ==
    ASSUME pc \in [Callers -> Pcs], NEW p \in Callers, Return(p)
    PROVE  /\ pc' \in [Callers -> Pcs]
           /\ pc'[p] \in {"idle", "unlink", "add_disk", "del_disk"}
           /\ pc'[p] = "unlink" => task[p] = "rmmod" /\ pc[p] = "save"
           /\ \A q \in Callers : q # p => pc'[q] = pc[q]
<1>1. PICK l \in {"idle", "unlink", "add_disk", "del_disk"} :
         /\ pc' = [pc EXCEPT ![p] = l]
         /\ l = "unlink" => task[p] = "rmmod" /\ pc[p] = "save"
  BY DEF Return, Goto
<1> QED
  BY <1>1 DEF Pcs

\* A round of a loop leaves the offset a number.
LEMMA OffAdvances ==
    ASSUME off \in [Callers -> Nat], NEW p \in Callers,
           \/ off' = [off EXCEPT ![p] = off[p] + 1] \/ off' = [off EXCEPT ![p] = off[p]]
           \/ off' = off
    PROVE  off' \in [Callers -> Nat]
  OBVIOUS

LEMMA ShapeCorrect == Spec => []Shape
<1> USE DubflAssumption
<1>1. Init => Shape
  BY DEF Init, Shape, Pcs, Tasks, NoReq
<1>2. Shape /\ [Next]_vars => Shape'
  <2> SUFFICES ASSUME Shape, [Next]_vars PROVE Shape'
    OBVIOUS
  <2> USE DEF Shape, device, locals
  <2>1. ASSUME NEW p \in Callers, Command(p) PROVE Shape'
    <3>1. CASE Insmod(p)
      BY <3>1 DEF Insmod, Begin, Goto, TakeName, Pcs, Tasks, Names
    <3>2. CASE LoadDisk(p)
      <4>1. pc' \in [Callers -> Pcs] /\ task' \in [Callers -> Tasks]
        BY <3>2 DEF LoadDisk, Begin, Goto, Pcs, Tasks
      <4>2. fname' \in Names \cup {NoFile}
        BY <3>2 DEF LoadDisk, TakeName
      <4> QED
        BY <3>2, <4>1, <4>2 DEF LoadDisk
    <3>3. CASE SaveDisk(p)
      BY <3>3 DEF SaveDisk, Begin, Goto, Pcs, Tasks
    <3>4. CASE UnlinkDisk(p)
      BY <3>4 DEF UnlinkDisk, Begin, Goto, Pcs, Tasks
    <3>5. CASE Rmmod(p)
      BY <3>5 DEF Rmmod, Begin, Goto, SaveAtExit, Pcs, Tasks
    <3> QED
      BY <2>1, <3>1, <3>2, <3>3, <3>4, <3>5 DEF Command
  <2>2. ASSUME NEW p \in Callers, LoadStep(p) PROVE Shape'
    <3>1. CASE LoadOpen(p)
      <4>1. CASE fname \in Files
        <5>1. /\ fil' = [fil EXCEPT ![p] = fname] /\ Goto(p, "close")
              /\ UNCHANGED <<device, files, capacity, req, task, off>>
          BY <3>1, <4>1, Zenon DEF LoadOpen
        <5> QED
          BY <4>1, <5>1 DEF Goto, Pcs
      <4>2. CASE fname \notin Files
        <5>1. Return(p)
          BY <3>1, <4>2 DEF LoadOpen
        <5>2. pc' \in [Callers -> Pcs]
          BY <5>1, ReturnTo
        <5> QED
          BY <3>1, <4>2, <5>2 DEF LoadOpen
      <4> QED
        BY <4>1, <4>2
    <3>2. CASE LoadClose(p)
      BY <3>2 DEF LoadClose, Goto, Pcs
    <3>3. CASE LoadBind(p)
      BY <3>3 DEF LoadBind, Goto, Pcs
    <3>4. CASE LoadSeek(p)
      <4>1. pc' \in [Callers -> Pcs]
        BY <3>4 DEF LoadSeek, UseFile, Goto, Pcs
      <4>2. off' \in [Callers -> Nat]
        BY <3>4 DEF LoadSeek
      <4> QED
        BY <3>4, <4>1, <4>2 DEF LoadSeek
    <3>5. CASE LoadSize(p)
      BY <3>5 DEF LoadSize, Sectors, Rewind, Goto, Pcs
    <3>6. CASE LoadBytes(p)
      <4>1. bsize' \in Nat
        BY <3>6 DEF LoadBytes
      <4> QED
        BY <3>6, <4>1 DEF LoadBytes, Goto, Pcs
    <3>7. CASE LoadFree(p)
      BY <3>7 DEF LoadFree, Goto, Pcs
    <3>8. CASE LoadAlloc(p)
      BY <3>8 DEF LoadAlloc, Goto, Pcs
    <3>9. CASE LoadRead(p)
      <4>1. pc' \in [Callers -> Pcs]
        BY <3>9, ReturnTo DEF LoadRead, UseFile, Goto, Pcs
      <4>2. off' \in [Callers -> Nat]
        <5>1. off' = [off EXCEPT ![p] = off[p] + 1] \/ off' = [off EXCEPT ![p] = off[p]]
              \/ off' = off
          BY <3>9 DEF LoadRead, Advance
        <5> QED
          BY <5>1, OffAdvances
      <4> QED
        BY <3>9, <4>1, <4>2 DEF LoadRead
    <3> QED
      BY <2>2, <3>1, <3>2, <3>3, <3>4, <3>5, <3>6, <3>7, <3>8, <3>9 DEF LoadStep
  <2>3. ASSUME NEW p \in Callers, UnlinkStep(p) PROVE Shape'
    <3>1. CASE UnlinkFree(p) \/ UnlinkClose(p)
      BY <3>1 DEF UnlinkFree, UnlinkClose, Goto, Pcs
    <3>2. CASE ForgetFile(p) \/ ForgetData(p) \/ ForgetName(p)
      BY <3>2 DEF ForgetFile, ForgetData, ForgetName, Goto, Pcs
    <3>3. CASE ForgetSizes(p)
      <4>1. pc' \in [Callers -> Pcs]
        BY <3>3, ReturnTo DEF ForgetSizes
      <4> QED
        BY <3>3, <4>1 DEF ForgetSizes, NoSizes
    <3> QED
      BY <2>3, <3>1, <3>2, <3>3 DEF UnlinkStep
  <2>4. ASSUME NEW p \in Callers,
               SaveRewind(p) \/ SaveWrite(p) \/ AddDisk(p) \/ SetupFails(p) \/ DelDisk(p)
        PROVE  Shape'
    <3>1. CASE SaveRewind(p)
      BY <3>1 DEF SaveRewind, Rewind, UseFile, Goto, Pcs
    <3>2. CASE SaveWrite(p)
      <4>1. pc' \in [Callers -> Pcs]
        BY <3>2, ReturnTo DEF SaveWrite, UseFile, Goto, Pcs
      <4>2. off' \in [Callers -> Nat]
        <5>1. off' = [off EXCEPT ![p] = off[p] + 1] \/ off' = off
          BY <3>2, Zenon DEF SaveWrite
        <5> QED
          BY <5>1, OffAdvances
      <4>3. /\ DOMAIN files' = Files
            /\ \A n \in Files : DOMAIN files'[n] = 0 .. FileSize(n) - 1
        <5>1. CASE UNCHANGED files
          BY <5>1
        <5>2. CASE \E s : f # NoFile /\ files' = [files EXCEPT ![f][s] = image[s]]
          BY <5>2
        <5> QED
          BY <3>2, <5>1, <5>2 DEF SaveWrite
      <4> QED
        BY <3>2, <4>1, <4>2, <4>3 DEF SaveWrite
    <3>3. CASE AddDisk(p)
      BY <3>3 DEF AddDisk, Goto, Pcs
    <3>4. CASE SetupFails(p)
      BY <3>4 DEF SetupFails, Goto, Pcs, Tasks
    <3>5. CASE DelDisk(p)
      BY <3>5 DEF DelDisk, Goto, Pcs
    <3> QED
      BY <2>4, <3>1, <3>2, <3>3, <3>4, <3>5
  <2>5. CASE Request
    BY <2>5 DEF Request, RequestCheck, NoReq
  <2>6. CASE Transfer
    BY <2>6 DEF Transfer, NoReq
  <2>7. CASE UNCHANGED vars
    BY <2>7 DEF vars
  <2> QED
    BY <2>1, <2>2, <2>3, <2>4, <2>5, <2>6, <2>7 DEF Next, Step
<1> QED
  BY <1>1, <1>2, PTL DEF Spec

-----------------------------------------------------------------------------
\* What the parts of the device say of each other between commands: with a file,
\* the image is as large as the file; without one, there is none.
HasFile == f \in Files /\ ~closed
Held    == HasFile /\ ssize = FileSize(f) /\ bsize = ssize
Bound   == Held /\ mem = "image" /\ DOMAIN image = 0 .. ssize - 1
Empty   == mem = "null" /\ DOMAIN image = 0 .. 0 - 1
Unbound == f = NoFile /\ ~closed /\ ssize = 0 /\ bsize = 0 /\ Empty

\* And in the middle of the command that p runs.
Midway(p) ==
    /\ pc[p] \in {"open", "close", "rewind", "add_disk", "del_disk", "oops"} =>
          Bound \/ Unbound
    /\ pc[p] \in {"close", "bind"} => fil[p] \in Files
    /\ pc[p] \in {"bind", "seek", "size", "bytes", "free"} => mem \in {"null", "image"}
    /\ pc[p] \in {"seek", "size", "bytes"} => HasFile
    /\ pc[p] = "size" => off[p] = FileSize(f)
    /\ pc[p] = "bytes" => ssize = FileSize(f)
    /\ pc[p] \in {"free", "alloc"} => Held
    /\ pc[p] = "alloc" => mem \in {"null", "freed"}
    /\ pc[p] \in {"read", "save"} => Bound
    /\ pc[p] = "unlink" => Bound \/ Unbound \/ (HasFile /\ mem = "null")
    /\ pc[p] = "shut" => ~closed
    /\ pc[p] \in {"no_data", "no_name", "no_size"} => f = NoFile /\ ~closed
    /\ pc[p] \in {"no_name", "no_size"} => Empty

\* Not every state of the device is one of these, but each is as its command left
\* it, since one command runs at a time and no request is served then.
Inv ==
    /\ wild = FALSE
    /\ \A p, q \in Callers : pc[p] # "idle" /\ pc[q] # "idle" => p = q
    /\ Idle => Bound \/ Unbound
    /\ \A p \in Callers : pc[p] # "idle" => Midway(p)
    /\ req # NoReq => Idle /\ req.sector < ssize

\* When p alone is in the driver, it is enough to know what its step leaves.
LEMMA OneMoves ==
    ASSUME NEW p \in Callers, \A q \in Callers \ {p} : pc[q] = "idle",
           \A q \in Callers \ {p} : pc'[q] = pc[q],
           wild' = FALSE, req' = NoReq,
           pc'[p] = "idle" => (Bound \/ Unbound)',
           pc'[p] # "idle" => Midway(p)'
    PROVE  Inv'
<1>1. Idle' => pc'[p] = "idle"
  BY DEF Idle
<1>2. \A q \in Callers : pc'[q] # "idle" => q = p
  OBVIOUS
<1> QED
  BY <1>1, <1>2, Zenon DEF Inv

\* A caller that is in the driver is alone there, and no request is served.
LEMMA Alone ==
    ASSUME Inv, NEW p \in Callers, pc[p] # "idle" \/ (Idle /\ req = NoReq)
    PROVE  /\ \A q \in Callers \ {p} : pc[q] = "idle"
           /\ req = NoReq /\ wild = FALSE
           /\ pc[p] # "idle" => Midway(p)
           /\ pc[p] = "idle" => Bound \/ Unbound
  BY Zenon DEF Inv, Idle

\* A function returns with the parts in agreement.
LEMMA Returns ==
    ASSUME Shape, NEW p \in Callers, Return(p), (Bound \/ Unbound)',
           \A q \in Callers \ {p} : pc[q] = "idle", wild' = FALSE, req' = NoReq
    PROVE  Inv'
<1>1. /\ pc'[p] \in {"idle", "unlink", "add_disk", "del_disk"}
      /\ \A q \in Callers : q # p => pc'[q] = pc[q]
  BY ReturnTo DEF Shape
<1>2. Midway(p)'
  BY <1>1 DEF Midway
<1> QED
  BY <1>1, <1>2, OneMoves, Zenon

LEMMA InvInit == Init => Inv
<1> USE DubflAssumption
<1> SUFFICES ASSUME Init PROVE Inv
  OBVIOUS
<1>1. Unbound
  BY DEF Init, Unbound, Empty, Memory
<1> QED
  BY <1>1, Zenon DEF Init, Inv, Idle

\* The commands begin when nothing else goes on.
LEMMA InvCommand ==
    ASSUME Exclusive, Shape, Inv, NEW p \in Callers, Command(p)
    PROVE  Inv'
<1> USE DubflAssumption
<1>1. Idle /\ req = NoReq
  BY Zenon DEF Command, Insmod, LoadDisk, SaveDisk, UnlinkDisk, Rmmod, Begin, MayBegin
<1>2. /\ pc[p] = "idle" /\ wild = FALSE /\ (Bound \/ Unbound)
      /\ \A q \in Callers \ {p} : pc[q] = "idle"
  BY <1>1, Alone DEF Idle
<1>3. /\ UNCHANGED <<f, closed, ssize, bsize, mem, image>>
      /\ req' = NoReq /\ wild' = FALSE
  BY <1>1, <1>2, Zenon DEF Command, Insmod, LoadDisk, SaveDisk, UnlinkDisk, Rmmod, device
<1>4. (Bound \/ Unbound)'
  BY <1>2, <1>3 DEF Bound, Unbound, Held, HasFile, Empty
<1>5. UNCHANGED pc \/ \E l \in {"open", "unlink", "rewind", "oops"} : Goto(p, l)
  BY DEF Command, Insmod, LoadDisk, SaveDisk, UnlinkDisk, Rmmod, SaveAtExit, Begin
<1>6. /\ \A q \in Callers \ {p} : pc'[q] = pc[q]
      /\ pc'[p] # "idle" => Midway(p)'
  BY <1>2, <1>4, <1>5 DEF Goto, Shape, Midway
<1> QED
  BY <1>2, <1>3, <1>4, <1>6, OneMoves, Zenon

\* Each step of a command leaves the device as the next one needs it.
LEMMA InvStep ==
    ASSUME FilesFit, Shape, Inv, NEW p \in Callers, Step(p)
    PROVE  Inv'
<1> USE DubflAssumption
<1>1. pc[p] # "idle"
  BY Zenon DEF Step, LoadStep, LoadOpen, LoadClose, LoadBind, LoadSeek, LoadSize, LoadBytes,
               LoadFree, LoadAlloc, LoadRead, SaveRewind, SaveWrite, UnlinkStep,
               UnlinkFree, UnlinkClose, ForgetFile, ForgetData, ForgetName, ForgetSizes,
               AddDisk, SetupFails, DelDisk
<1>2. /\ \A q \in Callers \ {p} : pc[q] = "idle"
      /\ req = NoReq /\ wild = FALSE /\ Midway(p)
  BY <1>1, Alone
<1>3. req' = NoReq
  BY <1>2, Zenon DEF Step, LoadStep, LoadOpen, LoadClose, LoadBind, LoadSeek, LoadSize, LoadBytes,
               LoadFree, LoadAlloc, LoadRead, SaveRewind, SaveWrite, UnlinkStep,
               UnlinkFree, UnlinkClose, ForgetFile, ForgetData, ForgetName, ForgetSizes,
               AddDisk, SetupFails, DelDisk
\* A step to l keeps the invariant if it leaves what Midway asks for there.
<1>4. ASSUME NEW l \in Pcs, Goto(p, l), wild' = FALSE,
             l = "idle" => (Bound \/ Unbound)', l # "idle" => Midway(p)'
      PROVE  Inv'
  <2>1. pc'[p] = l /\ \A q \in Callers \ {p} : pc'[q] = pc[q]
    BY <1>4 DEF Goto, Shape
  <2> QED
    BY <1>2, <1>3, <1>4, <2>1, OneMoves, Zenon
<1>5. \A l \in Pcs : Goto(p, l) => pc'[p] = l
  BY DEF Goto, Shape
<1>6. CASE LoadOpen(p)
  <2>1. (Bound \/ Unbound) /\ UNCHANGED device /\ wild' = FALSE
    BY <1>2, <1>6 DEF Midway, LoadOpen
  <2>2. (Bound \/ Unbound)'
    BY <2>1 DEF Bound, Unbound, Held, HasFile, Empty, device
  <2>3. CASE fname \in Files
    <3>1. Goto(p, "close") /\ fil' = [fil EXCEPT ![p] = fname]
      BY <1>6, <2>3, Zenon DEF LoadOpen
    <3>2. fil'[p] \in Files /\ pc'[p] = "close"
      BY <1>5, <2>3, <3>1 DEF Shape, Pcs
    <3>3. Midway(p)'
      BY <2>2, <3>2 DEF Midway
    <3> QED
      BY <1>4, <2>1, <3>1, <3>3 DEF Pcs
  <2>4. CASE fname \notin Files
    <3>1. Return(p)
      BY <1>6, <2>4, Zenon DEF LoadOpen
    <3> QED
      BY <1>2, <1>3, <2>1, <2>2, <3>1, Returns, Zenon
  <2> QED
    BY <2>3, <2>4
<1>7. CASE LoadClose(p) \/ LoadBind(p)
  <2>1. CASE LoadClose(p)
    <3>1. fil[p] \in Files /\ (Bound \/ Unbound) /\ Goto(p, "bind")
      BY <1>2, <2>1 DEF Midway, LoadClose
    <3>2. mem' \in {"null", "image"} /\ wild' = FALSE /\ fil' = fil
      BY <1>2, <2>1, <3>1
      DEF LoadClose, Close, Bound, Unbound, Held, HasFile, Empty, locals
    <3>3. Midway(p)'
      BY <1>5, <3>1, <3>2 DEF Midway, Pcs
    <3> QED
      BY <1>4, <3>1, <3>2, <3>3 DEF Pcs
  <2>2. CASE LoadBind(p)
    <3>1. fil[p] \in Files /\ mem \in {"null", "image"} /\ Goto(p, "seek")
      BY <1>2, <2>2 DEF Midway, LoadBind
    <3>2. HasFile' /\ mem' \in {"null", "image"} /\ wild' = FALSE
      BY <1>2, <2>2, <3>1 DEF LoadBind, HasFile
    <3>3. Midway(p)'
      BY <1>5, <3>1, <3>2 DEF Midway, Pcs
    <3> QED
      BY <1>4, <3>1, <3>2, <3>3 DEF Pcs
  <2> QED
    BY <1>7, <2>1, <2>2
<1>8. CASE LoadSeek(p) \/ LoadSize(p)
  <2>1. HasFile /\ mem \in {"null", "image"}
    BY <1>2, <1>8 DEF Midway, LoadSeek, LoadSize
  <2>2. HasFile' /\ mem' \in {"null", "image"} /\ wild' = FALSE
    <3>1. wild' = FALSE /\ UNCHANGED <<f, closed, mem>>
      BY <1>2, <1>8, <2>1, Zenon DEF LoadSeek, LoadSize, HasFile, device
    <3> QED
      BY <2>1, <3>1 DEF HasFile
  <2>3. CASE LoadSeek(p)
    <3>1. Goto(p, "size") /\ off'[p] = FileSize(f) /\ f' = f
      BY <2>1, <2>3 DEF LoadSeek, UseFile, HasFile, device, Shape
    <3>2. Midway(p)'
      BY <1>5, <2>2, <3>1 DEF Midway, Pcs
    <3> QED
      BY <1>4, <2>2, <3>1, <3>2 DEF Pcs
  <2>4. CASE LoadSize(p)
    <3>0. off[p] = FileSize(f) /\ FileSize(f) \in Nat
      BY <1>2, <2>1, <2>4 DEF LoadSize, Midway, HasFile
    <3>1. Goto(p, "bytes") /\ ssize' = FileSize(f) /\ f' = f
      BY <2>4, <3>0 DEF LoadSize, Sectors
    <3>2. Midway(p)'
      BY <1>5, <2>2, <3>1 DEF Midway, Pcs
    <3> QED
      BY <1>4, <2>2, <3>1, <3>2 DEF Pcs
  <2> QED
    BY <1>8, <2>3, <2>4
<1>9. CASE LoadBytes(p)
  <2>1. HasFile /\ mem \in {"null", "image"} /\ ssize = FileSize(f) /\ Goto(p, "free")
    BY <1>2, <1>9 DEF Midway, LoadBytes
  <2>2. FileSize(f) % WrapSectors = FileSize(f)
    <3>1. FileSize(f) \in Nat /\ FileSize(f) < WrapSectors /\ WrapSectors \in Nat \ {0}
      BY <2>1 DEF FilesFit, HasFile
    <3> QED
      BY <3>1
  <2>3. Held' /\ mem' \in {"null", "image"} /\ wild' = FALSE
    BY <1>2, <1>9, <2>1, <2>2 DEF LoadBytes, Held, HasFile
  <2>4. Midway(p)'
    BY <1>5, <2>1, <2>3 DEF Midway, Pcs
  <2> QED
    BY <1>4, <2>1, <2>3, <2>4 DEF Pcs
<1>10. CASE LoadFree(p)
  <2>1. Held /\ mem \in {"null", "image"} /\ Goto(p, "alloc")
    BY <1>2, <1>10 DEF Midway, LoadFree
  <2>2. Held' /\ mem' \in {"null", "freed"} /\ wild' = FALSE
    BY <1>2, <1>10, <2>1 DEF LoadFree, Free, Held, HasFile
  <2>3. Midway(p)'
    BY <1>5, <2>1, <2>2 DEF Midway, Pcs
  <2> QED
    BY <1>4, <2>1, <2>2, <2>3 DEF Pcs
<1>11. CASE LoadAlloc(p)
  <2>1. Held /\ wild' = FALSE /\ Held'
    BY <1>2, <1>11 DEF Midway, LoadAlloc, Held, HasFile
  <2>2. CASE Goto(p, "read") /\ mem' = "image" /\ image' = Memory(bsize)
    <3>1. Bound'
      BY <1>11, <2>1, <2>2 DEF Bound, Held, Memory, LoadAlloc
    <3>2. Midway(p)'
      BY <1>5, <2>2, <3>1 DEF Midway, Pcs
    <3> QED
      BY <1>4, <2>1, <2>2, <3>2 DEF Pcs
  <2>3. CASE Goto(p, "unlink") /\ mem' = "null"
    <3>1. Midway(p)'
      BY <1>5, <2>1, <2>3 DEF Midway, Held, Pcs
    <3> QED
      BY <1>4, <2>1, <2>3, <3>1 DEF Pcs
  <2> QED
    BY <1>11, <2>2, <2>3 DEF LoadAlloc
<1>12. CASE LoadRead(p)
  <2>1. pc[p] = "read" /\ Bound
    BY <1>2, <1>12 DEF Midway, LoadRead
  <2>2. UNCHANGED <<f, closed, ssize, bsize, mem>> /\ DOMAIN image' = DOMAIN image
    BY <1>12 DEF LoadRead
  <2>3. Bound' /\ f # NoFile /\ ~closed
    BY <2>1, <2>2 DEF Bound, Held, HasFile
  <2>4. CASE off[p] < bsize
    <3>1. off[p] \in DOMAIN image /\ mem = "image"
      BY <2>1, <2>4 DEF Bound, Held, Shape
    <3>2. wild' = FALSE /\ Goto(p, "read")
      BY <1>2, <1>12, <2>3, <2>4, <3>1, Zenon DEF LoadRead, UseFile
    <3>3. Midway(p)'
      BY <1>5, <2>3, <3>2 DEF Midway, Pcs
    <3> QED
      BY <1>4, <3>2, <3>3 DEF Pcs
  <2>5. CASE ~(off[p] < bsize)
    <3>1. Return(p) /\ wild' = FALSE
      BY <1>2, <1>12, <2>5, Zenon DEF LoadRead
    <3> QED
      BY <1>2, <1>3, <2>3, <3>1, Returns, Zenon
  <2> QED
    BY <2>4, <2>5
<1>13. CASE SaveWrite(p)
  <2>1. pc[p] = "save" /\ Bound
    BY <1>2, <1>13 DEF Midway, SaveWrite
  <2>2. UNCHANGED <<f, closed, ssize, bsize, mem, image>>
    BY <1>13, Zenon DEF SaveWrite, device
  <2>3. Bound' /\ f # NoFile /\ ~closed
    BY <2>1, <2>2 DEF Bound, Held, HasFile
  <2>4. CASE off[p] < bsize
    <3>1. off[p] \in DOMAIN image /\ mem = "image"
      BY <2>1, <2>4 DEF Bound, Held, Shape
    <3>2. wild' = FALSE /\ Goto(p, "save")
      BY <1>2, <1>13, <2>3, <2>4, <3>1, Zenon DEF SaveWrite, UseFile
    <3>3. Midway(p)'
      BY <1>5, <2>3, <3>2 DEF Midway, Pcs
    <3> QED
      BY <1>4, <3>2, <3>3 DEF Pcs
  <2>5. CASE ~(off[p] < bsize)
    <3>1. Return(p) /\ wild' = FALSE
      BY <1>2, <1>13, <2>5, Zenon DEF SaveWrite
    <3> QED
      BY <1>2, <1>3, <2>3, <3>1, Returns, Zenon
  <2> QED
    BY <2>4, <2>5
<1>14. CASE SaveRewind(p)
  <2>1. (Bound \/ Unbound) /\ UNCHANGED device
    BY <1>2, <1>14 DEF Midway, SaveRewind
  <2>2. wild' = FALSE /\ (Bound \/ Unbound)' /\ (f # NoFile => Bound')
    <3>1. wild' = FALSE
      BY <1>2, <1>14, <2>1, Zenon DEF SaveRewind, Bound, Unbound, Held, HasFile
    <3>2. (Bound \/ Unbound)' /\ (f # NoFile => Bound')
      BY <2>1 DEF Bound, Unbound, Held, HasFile, Empty, device
    <3> QED
      BY <3>1, <3>2
  <2>3. CASE f # NoFile
    <3>1. Goto(p, "save")
      BY <1>14, <2>3 DEF SaveRewind, UseFile
    <3>2. Midway(p)'
      BY <1>5, <2>2, <2>3, <3>1 DEF Midway, Pcs
    <3> QED
      BY <1>4, <2>2, <3>1, <3>2 DEF Pcs
  <2>4. CASE f = NoFile
    <3>1. Goto(p, "oops")
      BY <1>14, <2>4 DEF SaveRewind, UseFile
    <3>2. Midway(p)'
      BY <1>5, <2>2, <3>1 DEF Midway, Pcs
    <3> QED
      BY <1>4, <2>2, <3>1, <3>2 DEF Pcs
  <2> QED
    BY <2>3, <2>4
<1>15. CASE UnlinkFree(p) \/ UnlinkClose(p) \/ ForgetFile(p)
  <2>1. CASE UnlinkFree(p)
    <3>1. (Bound \/ Unbound \/ (HasFile /\ mem = "null")) /\ Goto(p, "shut")
      BY <1>2, <2>1 DEF Midway, UnlinkFree
    <3>2. wild' = FALSE /\ ~closed'
      BY <1>2, <2>1, <3>1 DEF UnlinkFree, Free, Bound, Unbound, Held, HasFile, Empty
    <3>3. Midway(p)'
      BY <1>5, <3>1, <3>2 DEF Midway, Pcs
    <3> QED
      BY <1>4, <3>1, <3>2, <3>3 DEF Pcs
  <2>2. CASE UnlinkClose(p)
    <3>1. ~closed /\ Goto(p, "no_file") /\ wild' = FALSE
      BY <1>2, <2>2 DEF Midway, UnlinkClose, Close
    <3>2. Midway(p)'
      BY <1>5, <3>1 DEF Midway, Pcs
    <3> QED
      BY <1>4, <3>1, <3>2 DEF Pcs
  <2>3. CASE ForgetFile(p)
    <3>1. f' = NoFile /\ ~closed' /\ Goto(p, "no_data") /\ wild' = FALSE
      BY <1>2, <2>3 DEF ForgetFile
    <3>2. Midway(p)'
      BY <1>5, <3>1 DEF Midway, Pcs
    <3> QED
      BY <1>4, <3>1, <3>2 DEF Pcs
  <2> QED
    BY <1>15, <2>1, <2>2, <2>3
<1>16. CASE ForgetData(p) \/ ForgetName(p) \/ ForgetSizes(p)
  <2>1. f = NoFile /\ ~closed
    BY <1>2, <1>16 DEF Midway, ForgetData, ForgetName, ForgetSizes
  <2>2. f' = NoFile /\ ~closed' /\ wild' = FALSE
    BY <1>2, <1>16, <2>1 DEF ForgetData, ForgetName, ForgetSizes
  <2>3. Empty'
    <3>1. CASE ForgetData(p)
      BY <3>1 DEF ForgetData, Empty, Memory
    <3>2. CASE ForgetName(p) \/ ForgetSizes(p)
      BY <1>2, <3>2 DEF Midway, ForgetName, ForgetSizes, Empty
    <3> QED
      BY <1>16, <3>1, <3>2
  <2>4. CASE ForgetData(p) \/ ForgetName(p)
    <3>1. PICK l \in {"no_name", "no_size"} : Goto(p, l)
      BY <2>4 DEF ForgetData, ForgetName
    <3>2. Midway(p)'
      BY <1>5, <2>2, <2>3, <3>1 DEF Midway, Pcs
    <3> QED
      BY <1>4, <2>2, <3>1, <3>2 DEF Pcs
  <2>5. CASE ForgetSizes(p)
    <3>1. Unbound'
      BY <2>2, <2>3, <2>5 DEF ForgetSizes, NoSizes, Unbound
    <3> QED
      BY <1>2, <1>3, <2>2, <2>5, <3>1, Returns, Zenon DEF ForgetSizes
  <2> QED
    BY <1>16, <2>4, <2>5
<1>17. CASE AddDisk(p) \/ SetupFails(p) \/ DelDisk(p)
  <2>1. (Bound \/ Unbound) /\ UNCHANGED device /\ wild' = FALSE
    BY <1>2, <1>17 DEF Midway, AddDisk, SetupFails, DelDisk
  <2>2. (Bound \/ Unbound)'
    BY <2>1 DEF Bound, Unbound, Held, HasFile, Empty, device
  <2>3. PICK l \in {"idle", "unlink"} : Goto(p, l)
    BY <1>17 DEF AddDisk, SetupFails, DelDisk
  <2>4. l # "idle" => Midway(p)'
    BY <1>5, <2>2, <2>3 DEF Midway, Pcs
  <2> QED
    BY <1>4, <2>1, <2>2, <2>3, <2>4 DEF Pcs
<1> QED
  BY <1>6, <1>7, <1>8, <1>9, <1>10, <1>11, <1>12, <1>13, <1>14, <1>15, <1>16, <1>17
  DEF Step, LoadStep, UnlinkStep

\* Requests are served between commands, inside the image there is.
LEMMA InvRequest ==
    ASSUME Exclusive, Shape, Inv, Request \/ Transfer
    PROVE  Inv'
<1>1. CASE Request
  <2>1. UNCHANGED <<f, closed, ssize, bsize, mem, image, pc, wild>> /\ Idle
    BY <1>1, Zenon DEF Request, device
  <2>2. req' # NoReq => req'.sector < ssize
    BY <1>1 DEF Request, RequestCheck, Shape
  <2>3. (Bound \/ Unbound)'
    BY <2>1 DEF Inv, Bound, Unbound, Held, HasFile, Empty
  <2>4. Idle'
    BY <2>1 DEF Idle
  <2> QED
    BY <2>1, <2>2, <2>3, <2>4, Zenon DEF Inv, Idle
<1>2. CASE Transfer
  <2>1. Idle /\ req.sector < ssize /\ (Bound \/ Unbound) /\ wild = FALSE
    BY <1>2, Zenon DEF Transfer, Inv
  <2>2. Bound /\ req.sector \in DOMAIN image
    BY <2>1 DEF Bound, Unbound, Shape
  <2>3. wild' = FALSE /\ UNCHANGED <<f, closed, ssize, bsize, mem, pc>> /\ req' = NoReq
    BY <1>2, <2>1, <2>2, Zenon DEF Transfer, Bound
  <2>4. DOMAIN image' = DOMAIN image
    BY <1>2, <2>2 DEF Transfer
  <2>5. Bound' /\ Idle'
    BY <2>1, <2>2, <2>3, <2>4 DEF Bound, Held, HasFile, Idle
  <2> QED
    BY <2>3, <2>5, Zenon DEF Inv, Idle
<1> QED
  BY <1>1, <1>2

LEMMA InvCorrect ==
    ASSUME Exclusive, FilesFit
    PROVE  Spec => [](Shape /\ Inv)
<1>1. Shape /\ Inv /\ [Next]_vars => Inv'
  <2> SUFFICES ASSUME Shape, Inv, [Next]_vars PROVE Inv'
    OBVIOUS
  <2>1. CASE UNCHANGED vars
    BY <2>1 DEF vars, device, locals, Inv, Idle, Midway, Bound, Unbound, Held, HasFile, Empty
  <2> QED
    BY <2>1, InvCommand, InvStep, InvRequest DEF Next
<1> QED
  BY <1>1, InvInit, ShapeCorrect, PTL DEF Spec

\* NoWildAccess (dubfl.c:15): requests, the loops that load and save, and vfree use
\* the image that is there and stay inside it, whatever files were bound before.
THEOREM NothingWild ==
    ASSUME Exclusive, FilesFit
    PROVE  Spec => []NoWildAccess
<1>1. Inv => NoWildAccess
  BY DEF Inv, NoWildAccess
<1> QED
  BY <1>1, InvCorrect, PTL

\* PartsAgree: between commands the file, the image and the size that requests are
\* checked against agree, whichever commands ran and failed.
THEOREM ThePartsAgree ==
    ASSUME Exclusive, FilesFit
    PROVE  Spec => []PartsAgree
<1>1. Inv => PartsAgree
  BY DubflAssumption DEF Inv, PartsAgree, Settled, Bound, Unbound, Held, HasFile, Empty
<1> QED
  BY <1>1, InvCorrect, PTL

-----------------------------------------------------------------------------
\* The rest of the type, which needs no assumption on how the disk is used.
Contents == /\ \A s \in DOMAIN image : image[s] \in Value
            /\ \A n \in Files : \A s \in DOMAIN files[n] : files[n][s] \in Value
            /\ dirty \subseteq DOMAIN image
Modes == /\ mem \in {"null", "image", "freed"}
         /\ module \in {"out", "loading", "live", "unloading"}
         /\ wild \in BOOLEAN /\ closed \in BOOLEAN

LEMMA ModesStep == Modes /\ [Next]_vars => Modes'
<1> SUFFICES ASSUME Modes, [Next]_vars PROVE Modes'
  OBVIOUS
\* What each step may make of the four.
<1> DEFINE Mem    == mem' = mem \/ mem' \in {"null", "image", "freed"}
           Module == module' = module \/ module' \in {"out", "loading", "live", "unloading"}
           Wild   == \/ wild' = wild
                     \/ wild' = (wild \/ mem = "freed")
                     \/ wild' = (wild \/ closed)
                     \/ \E s : wild' = (wild \/ closed \/ mem # "image" \/ s \notin DOMAIN image)
                     \/ \E s : wild' = (wild \/ mem # "image" \/ s \notin DOMAIN image)
           Closed == closed' = closed \/ closed' = FALSE \/ closed' = (f # NoFile)
<1>1. ASSUME NEW p \in Callers, LoadStep(p) PROVE Mem /\ Module /\ Wild /\ Closed
  BY <1>1, Zenon DEF LoadStep, LoadOpen, LoadClose, LoadBind, LoadSeek, LoadSize, LoadBytes,
     LoadFree, LoadAlloc, LoadRead, Free, Close, device
<1>2. ASSUME NEW p \in Callers, UnlinkStep(p) PROVE Mem /\ Module /\ Wild /\ Closed
  BY <1>2, Zenon DEF UnlinkStep, UnlinkFree, UnlinkClose, ForgetFile, ForgetData,
     ForgetName, ForgetSizes, Free, Close
<1>3. ASSUME NEW p \in Callers,
             SaveRewind(p) \/ SaveWrite(p) \/ AddDisk(p) \/ SetupFails(p) \/ DelDisk(p)
      PROVE  Mem /\ Module /\ Wild /\ Closed
  BY <1>3, Zenon DEF SaveRewind, SaveWrite, AddDisk, SetupFails, DelDisk, device
<1>4. ASSUME NEW p \in Callers, Command(p) PROVE Mem /\ Module /\ Wild /\ Closed
  BY <1>4, Zenon DEF Command, Insmod, LoadDisk, SaveDisk, UnlinkDisk, Rmmod, device
<1>5. ASSUME Request \/ Transfer \/ UNCHANGED vars PROVE Mem /\ Module /\ Wild /\ Closed
  BY <1>5, Zenon DEF Request, Transfer, vars, device
<1>6. Mem /\ Module /\ Wild /\ Closed
  BY <1>1, <1>2, <1>3, <1>4, <1>5, Zenon DEF Next, Step
<1>7. wild' \in BOOLEAN /\ closed' \in BOOLEAN
  BY <1>6, Zenon DEF Modes
<1> QED
  BY <1>6, <1>7, Zenon DEF Modes

LEMMA ContentsStep == Shape /\ Contents /\ [Next]_vars => Contents'
<1> USE DubflAssumption
<1> SUFFICES ASSUME Shape, Contents, [Next]_vars PROVE Contents'
  OBVIOUS
<1>1. Garbage \in Value /\ Written \in Value
  BY DEF Value
<1>2. CASE UNCHANGED <<image, files, dirty>>
  BY <1>2 DEF Contents
<1>3. CASE UNCHANGED files /\ dirty' = {} /\ \E n : image' = Memory(n)
  BY <1>1, <1>3 DEF Contents, Memory
<1>4. ASSUME NEW p \in Callers, LoadRead(p) PROVE Contents'
  <2>1. UNCHANGED <<files, dirty>>
    BY <1>4, Zenon DEF LoadRead
  <2>2. \/ image' = image
        \/ \E s : /\ f # NoFile /\ s \in DOMAIN files[f] /\ s \in DOMAIN image
                  /\ image' = [image EXCEPT ![s] = files[f][s]]
    BY <1>4, Zenon DEF LoadRead
  <2>3. f # NoFile => f \in Files
    BY DEF Shape
  <2> QED
    BY <2>1, <2>2, <2>3 DEF Contents
<1>5. ASSUME NEW p \in Callers, SaveWrite(p) PROVE Contents'
  <2>1. UNCHANGED image /\ dirty' \subseteq dirty
    BY <1>5 DEF SaveWrite, device
  <2>2. \/ files' = files
        \/ \E s : s \in DOMAIN image /\ files' = [files EXCEPT ![f][s] = image[s]]
    BY <1>5, Zenon DEF SaveWrite
  <2>3. \A n \in Files : \A s \in DOMAIN files'[n] : files'[n][s] \in Value
    <3>1. CASE files' = files
      BY <3>1 DEF Contents
    <3>2. ASSUME NEW s \in DOMAIN image, files' = [files EXCEPT ![f][s] = image[s]],
                 NEW n \in Files, NEW t \in DOMAIN files'[n]
          PROVE  files'[n][t] \in Value
      <4>1. CASE n = f
        <5>1. files'[n] = [files[n] EXCEPT ![s] = image[s]]
          BY <3>2, <4>1 DEF Shape
        <5> QED
          BY <3>2, <4>1, <5>1 DEF Contents
      <4>2. CASE n # f
        <5>1. files'[n] = files[n]
          BY <3>2, <4>2 DEF Shape
        <5> QED
          BY <3>2, <4>2, <5>1 DEF Contents
      <4> QED
        BY <4>1, <4>2
    <3> QED
      BY <2>2, <3>1, <3>2
  <2> QED
    BY <2>1, <2>3 DEF Contents
<1>6. CASE Transfer
  <2>1. UNCHANGED files
    BY <1>6, Zenon DEF Transfer
  <2>2. \/ image' = image /\ dirty' = dirty
        \/ \E s \in DOMAIN image : /\ image' = [image EXCEPT ![s] = Written]
                                   /\ dirty' = dirty \cup {s}
    BY <1>6, Zenon DEF Transfer
  <2> QED
    BY <1>1, <2>1, <2>2 DEF Contents
<1>7. ASSUME NEW p \in Callers, LoadStep(p), ~LoadRead(p) PROVE Contents'
  <2>1. \/ UNCHANGED <<image, files, dirty>>
        \/ UNCHANGED files /\ dirty' = {} /\ \E n : image' = Memory(n)
    BY <1>7, Zenon DEF LoadStep, LoadOpen, LoadClose, LoadBind, LoadSeek, LoadSize,
       LoadBytes, LoadFree, LoadAlloc, device
  <2> QED
    BY <1>2, <1>3, <2>1, Zenon
<1>8. ASSUME NEW p \in Callers, UnlinkStep(p) PROVE Contents'
  <2>1. \/ UNCHANGED <<image, files, dirty>>
        \/ UNCHANGED files /\ dirty' = {} /\ \E n : image' = Memory(n)
    BY <1>8, Zenon DEF UnlinkStep, UnlinkFree, UnlinkClose, ForgetFile, ForgetData,
       ForgetName, ForgetSizes, device
  <2> QED
    BY <1>2, <1>3, <2>1, Zenon
<1>9. ASSUME NEW p \in Callers, Command(p) PROVE Contents'
  BY <1>2, <1>9, Zenon
  DEF Command, Insmod, LoadDisk, SaveDisk, UnlinkDisk, Rmmod, device
<1>10. ASSUME NEW p \in Callers, SaveRewind(p) \/ AddDisk(p) \/ SetupFails(p) \/ DelDisk(p)
       PROVE  Contents'
  BY <1>2, <1>10, Zenon DEF SaveRewind, AddDisk, SetupFails, DelDisk, device
<1>11. CASE Request \/ UNCHANGED vars
  BY <1>2, <1>11, Zenon DEF Request, vars, device
<1> QED
  BY <1>4, <1>5, <1>6, <1>7, <1>8, <1>9, <1>10, <1>11, Zenon DEF Next, Step

LEMMA TypeInit == Init => Modes /\ Contents
<1> USE DubflAssumption
<1> SUFFICES ASSUME Init PROVE Modes /\ Contents
  OBVIOUS
<1>1. Modes
  BY Zenon DEF Init, Modes
<1>2. \A n \in Files : \A s \in 0 .. FileSize(n) - 1 : <<n, s>> \in Value
  <2> TAKE n \in Files
  <2> TAKE s \in 0 .. FileSize(n) - 1
  <2>1. s \in 0 .. FileSize(n)
    OBVIOUS
  <2>2. <<n, s>> \in {n} \X (0 .. FileSize(n))
    BY <2>1
  <2> QED
    BY <2>2, Zenon DEF Value
<1>3. Contents
  BY <1>2 DEF Init, Contents, Memory
<1> QED
  BY <1>1, <1>3

\* Type correctness, whatever statements of commands and requests interleave, and
\* however large the files are.
THEOREM TypeCorrect == Spec => []TypeOK
<1>1. Shape /\ Modes /\ Contents => TypeOK
  BY Zenon DEF Shape, Modes, Contents, TypeOK
<1> QED
  BY <1>1, ShapeCorrect, TypeInit, ModesStep, ContentsStep, PTL DEF Spec

-----------------------------------------------------------------------------
\* The image is the file's, but for what was written since.
Clean == \A s \in DOMAIN image \ dirty : image[s] = files[f][s]

\* How far the loops that load and save have come.
Progress(p) ==
    /\ /\ pc[p] \in {"open", "close", "rewind", "unlink", "add_disk", "del_disk"}
       /\ f # NoFile
       => Clean
    /\ pc[p] \in {"bytes", "free", "alloc"} => off[p] = 0
    /\ pc[p] = "read" =>
          dirty = {} /\ \A s \in DOMAIN image : s < off[p] => image[s] = files[f][s]
    /\ pc[p] = "save" => Clean /\ \A s \in dirty : off[p] =< s
    /\ task[p] = "rmmod" /\ pc[p] = "unlink" => dirty = {}

Copied ==
    /\ Idle /\ f # NoFile => Clean
    /\ \A p \in Callers : pc[p] # "idle" => Progress(p)

\* As OneMoves.
LEMMA OneCopies ==
    ASSUME NEW p \in Callers, \A q \in Callers \ {p} : pc[q] = "idle",
           \A q \in Callers \ {p} : pc'[q] = pc[q],
           pc'[p] = "idle" => (f # NoFile => Clean)',
           pc'[p] # "idle" => Progress(p)'
    PROVE  Copied'
<1>1. Idle' => pc'[p] = "idle"
  BY DEF Idle
<1>2. \A q \in Callers : pc'[q] # "idle" => q = p
  OBVIOUS
<1> QED
  BY <1>1, <1>2, Zenon DEF Copied

\* As Returns: a save that blk_exit made returns with nothing left to write.
LEMMA ReturnsCopied ==
    ASSUME Shape, NEW p \in Callers, Return(p), (f # NoFile => Clean)', task' = task,
           pc[p] = "save" => dirty' = {},
           \A q \in Callers \ {p} : pc[q] = "idle"
    PROVE  Copied'
<1>1. /\ pc'[p] \in {"idle", "unlink", "add_disk", "del_disk"}
      /\ pc'[p] = "unlink" => task[p] = "rmmod" /\ pc[p] = "save"
      /\ \A q \in Callers : q # p => pc'[q] = pc[q]
  BY ReturnTo DEF Shape
<1>2. Progress(p)'
  BY <1>1 DEF Progress
<1> QED
  BY <1>1, <1>2, OneCopies, Zenon

LEMMA CopiedCommand ==
    ASSUME Exclusive, Shape, Inv, Contents, Copied, NEW p \in Callers, Command(p)
    PROVE  Copied'
<1> USE DubflAssumption
<1>1. Idle /\ req = NoReq
  BY Zenon DEF Command, Insmod, LoadDisk, SaveDisk, UnlinkDisk, Rmmod, Begin, MayBegin
<1>2. /\ pc[p] = "idle" /\ (f # NoFile => Clean) /\ (Bound \/ Unbound)
      /\ \A q \in Callers \ {p} : pc[q] = "idle"
  BY <1>1, Alone DEF Idle, Copied
<1>3. UNCHANGED <<f, image, files, dirty>>
  BY Zenon DEF Command, Insmod, LoadDisk, SaveDisk, UnlinkDisk, Rmmod, device
<1>4. (f # NoFile => Clean)' /\ (Clean => Clean')
  BY <1>2, <1>3 DEF Clean
<1>5. \/ UNCHANGED <<pc, task>>
      \/ \E l \in {"open", "rewind", "oops"} : Goto(p, l)
      \/ Goto(p, "unlink") /\ task' = [task EXCEPT ![p] = "ioctl"]
  BY DEF Command, Insmod, LoadDisk, SaveDisk, UnlinkDisk, Rmmod, SaveAtExit, Begin
<1>6. \A q \in Callers \ {p} : pc'[q] = pc[q]
  BY <1>5 DEF Goto, Shape
<1>7. pc'[p] # "idle" => Progress(p)'
  <2>1. CASE UNCHANGED pc
    BY <1>2, <2>1
  <2>2. CASE \E l \in {"open", "rewind", "oops"} : Goto(p, l)
    BY <1>4, <2>2 DEF Goto, Shape, Progress
  <2>3. CASE Goto(p, "unlink") /\ task' = [task EXCEPT ![p] = "ioctl"]
    BY <1>4, <2>3 DEF Goto, Shape, Progress
  <2> QED
    BY <1>5, <2>1, <2>2, <2>3
<1> QED
  BY <1>2, <1>4, <1>6, <1>7, OneCopies, Zenon

LEMMA CopiedStep ==
    ASSUME FilesFit, Shape, Inv, Contents, Copied, NEW p \in Callers, Step(p)
    PROVE  Copied'
<1> USE DubflAssumption
<1>1. pc[p] # "idle"
  BY Zenon DEF Step, LoadStep, LoadOpen, LoadClose, LoadBind, LoadSeek, LoadSize, LoadBytes,
               LoadFree, LoadAlloc, LoadRead, SaveRewind, SaveWrite, UnlinkStep,
               UnlinkFree, UnlinkClose, ForgetFile, ForgetData, ForgetName, ForgetSizes,
               AddDisk, SetupFails, DelDisk
<1>2. /\ \A q \in Callers \ {p} : pc[q] = "idle"
      /\ Midway(p) /\ Progress(p)
  BY <1>1, Alone DEF Copied
<1>3. ASSUME NEW l \in Pcs, Goto(p, l),
             l = "idle" => (f # NoFile => Clean)', l # "idle" => Progress(p)'
      PROVE  Copied'
  <2>1. pc'[p] = l /\ \A q \in Callers \ {p} : pc'[q] = pc[q]
    BY <1>3 DEF Goto, Shape
  <2> QED
    BY <1>2, <1>3, <2>1, OneCopies, Zenon
<1>4. \A l \in Pcs : Goto(p, l) => pc'[p] = l
  BY DEF Goto, Shape
<1>5. CASE LoadOpen(p)
  <2>1. (f # NoFile => Clean)' /\ pc[p] = "open" /\ task' = task
    BY <1>2, <1>5 DEF LoadOpen, Progress, Clean, device
  <2>2. CASE fname \in Files
    <3>1. Goto(p, "close")
      BY <1>5, <2>2, Zenon DEF LoadOpen
    <3>2. Progress(p)'
      BY <1>4, <2>1, <3>1 DEF Progress, Pcs
    <3> QED
      BY <1>3, <3>1, <3>2 DEF Pcs
  <2>3. CASE fname \notin Files
    <3>1. Return(p)
      BY <1>5, <2>3, Zenon DEF LoadOpen
    <3> QED
      BY <1>2, <2>1, <3>1, ReturnsCopied, Zenon
  <2> QED
    BY <2>2, <2>3
<1>6. CASE LoadClose(p) \/ LoadBind(p) \/ LoadSeek(p)
  <2>1. PICK l \in {"bind", "seek", "size", "oops"} : Goto(p, l)
    BY <1>6 DEF LoadClose, LoadBind, LoadSeek, UseFile
  <2>2. Progress(p)'
    BY <1>4, <2>1 DEF Progress, Pcs
  <2> QED
    BY <1>3, <2>1, <2>2 DEF Pcs
<1>7. CASE LoadSize(p) \/ LoadBytes(p)
  <2>1. PICK l \in {"bytes", "free"} : Goto(p, l)
    BY <1>7 DEF LoadSize, LoadBytes
  <2>2. off'[p] = 0
    BY <1>2, <1>7 DEF LoadSize, LoadBytes, Rewind, Progress, Shape, locals
  <2>3. Progress(p)'
    BY <1>4, <2>1, <2>2 DEF Progress, Pcs
  <2> QED
    BY <1>3, <2>1, <2>3 DEF Pcs
<1>8. CASE LoadFree(p)
  <2>1. Goto(p, "alloc") /\ off'[p] = 0
    BY <1>2, <1>8 DEF LoadFree, Progress, locals
  <2>2. Progress(p)'
    BY <1>4, <2>1 DEF Progress, Pcs
  <2> QED
    BY <1>3, <2>1, <2>2 DEF Pcs
<1>9. CASE LoadAlloc(p)
  <2>1. off'[p] = 0 /\ dirty' = {}
    BY <1>2, <1>9 DEF LoadAlloc, Progress, locals
  <2>2. CASE Goto(p, "read") /\ image' = Memory(bsize)
    <3>1. \A s \in DOMAIN image' : ~(s < 0)
      BY <2>2 DEF Memory
    <3>2. Progress(p)'
      BY <1>4, <2>1, <2>2, <3>1 DEF Progress, Pcs
    <3> QED
      BY <1>3, <2>2, <3>2 DEF Pcs
  <2>3. CASE Goto(p, "unlink") /\ image' = Memory(0)
    <3>1. Progress(p)'
      BY <1>4, <2>1, <2>3 DEF Progress, Clean, Memory, Pcs
    <3> QED
      BY <1>3, <2>3, <3>1 DEF Pcs
  <2> QED
    BY <1>9, <2>2, <2>3 DEF LoadAlloc
<1>10. CASE LoadRead(p)
  <2>1. /\ pc[p] = "read" /\ Bound /\ dirty = {} /\ off[p] \in Nat
        /\ \A s \in DOMAIN image : s < off[p] => image[s] = files[f][s]
    BY <1>2, <1>10 DEF Midway, LoadRead, Progress, Shape
  <2>2. UNCHANGED <<f, files, dirty, task>>
    BY <1>10, Zenon DEF LoadRead
  <2>3. CASE off[p] < bsize
    <3>1. /\ off[p] \in DOMAIN image /\ f # NoFile /\ off[p] \in DOMAIN files[f]
      BY <2>1, <2>3 DEF Bound, Held, HasFile, Shape
    <3>2. /\ image' = [image EXCEPT ![off[p]] = files[f][off[p]]] /\ Goto(p, "read")
          /\ off' = [off EXCEPT ![p] = off[p] + 1]
      BY <1>10, <2>3, <3>1, Zenon DEF LoadRead, Advance, UseFile
    <3>3. off'[p] = off[p] + 1 /\ DOMAIN image' = DOMAIN image
      BY <3>2 DEF Shape
    <3>4. \A s \in DOMAIN image' : s < off'[p] => image'[s] = files'[f'][s]
      BY <2>1, <2>2, <3>2, <3>3 DEF Bound, Held
    <3>5. Progress(p)'
      BY <1>4, <2>1, <2>2, <3>2, <3>4 DEF Progress, Pcs
    <3> QED
      BY <1>3, <3>2, <3>5 DEF Pcs
  <2>4. CASE ~(off[p] < bsize)
    <3>1. Return(p) /\ UNCHANGED image
      BY <1>10, <2>4, Zenon DEF LoadRead
    <3>2. \A s \in DOMAIN image : s < off[p]
      BY <2>1, <2>4 DEF Bound, Held, Shape
    <3>3. Clean'
      BY <2>1, <2>2, <3>1, <3>2 DEF Clean
    <3> QED
      BY <1>2, <2>1, <2>2, <3>1, <3>3, ReturnsCopied, Zenon
  <2> QED
    BY <2>3, <2>4
<1>11. CASE SaveWrite(p)
  <2>1. /\ pc[p] = "save" /\ Bound /\ Clean /\ off[p] \in Nat
        /\ \A s \in dirty : off[p] =< s
    BY <1>2, <1>11 DEF Midway, SaveWrite, Progress, Shape
  <2>2. UNCHANGED <<f, image, task>>
    BY <1>11, Zenon DEF SaveWrite, device
  <2>3. CASE off[p] < bsize
    <3>1. off[p] \in DOMAIN image /\ f \in Files /\ off[p] \in DOMAIN files[f]
      BY <2>1, <2>3 DEF Bound, Held, HasFile, Shape
    <3>2. /\ files' = [files EXCEPT ![f][off[p]] = image[off[p]]] /\ Goto(p, "save")
          /\ off' = [off EXCEPT ![p] = off[p] + 1] /\ dirty' = dirty \ {off[p]}
      BY <1>11, <2>3, <3>1, DubflAssumption, Zenon DEF SaveWrite, UseFile
    <3>3. off'[p] = off[p] + 1 /\ files'[f] = [files[f] EXCEPT ![off[p]] = image[off[p]]]
      BY <3>1, <3>2 DEF Shape
    <3>4. Clean'
      BY <2>1, <2>2, <3>1, <3>2, <3>3 DEF Clean
    <3>5. \A s \in dirty' : off'[p] =< s
      BY <2>1, <3>2, <3>3 DEF Contents, Bound, Held, HasFile, Shape
    <3>6. Progress(p)'
      BY <1>4, <3>2, <3>4, <3>5 DEF Progress, Pcs
    <3> QED
      BY <1>3, <3>2, <3>6 DEF Pcs
  <2>4. CASE ~(off[p] < bsize)
    <3>1. Return(p) /\ UNCHANGED <<files, dirty>>
      BY <1>11, <2>4, Zenon DEF SaveWrite
    <3>2. dirty' = {}
      BY <2>1, <2>4, <3>1 DEF Contents, Bound, Held, HasFile, Shape
    <3>3. Clean'
      BY <2>1, <2>2, <3>1 DEF Clean
    <3> QED
      BY <1>2, <2>2, <3>1, <3>2, <3>3, ReturnsCopied, Zenon
  <2> QED
    BY <2>3, <2>4
<1>12. CASE SaveRewind(p)
  <2>1. CASE f # NoFile
    <3>1. Goto(p, "save") /\ off'[p] = 0 /\ Clean' /\ dirty' = dirty
      BY <1>2, <1>12, <2>1 DEF SaveRewind, UseFile, Rewind, Progress, Clean, device, Shape
    <3>2. \A s \in dirty' : 0 =< s
      BY <1>2, <1>12, <2>1, <3>1
      DEF SaveRewind, Contents, Midway, Bound, Unbound, Held, HasFile, Shape
    <3>3. Progress(p)'
      BY <1>4, <3>1, <3>2 DEF Progress, Pcs
    <3> QED
      BY <1>3, <3>1, <3>3 DEF Pcs
  <2>2. CASE f = NoFile
    <3>1. Goto(p, "oops")
      BY <1>12, <2>2 DEF SaveRewind, UseFile
    <3>2. Progress(p)'
      BY <1>4, <3>1 DEF Progress, Pcs
    <3> QED
      BY <1>3, <3>1, <3>2 DEF Pcs
  <2> QED
    BY <2>1, <2>2
<1>13. CASE UnlinkFree(p) \/ UnlinkClose(p) \/ ForgetFile(p) \/ ForgetData(p) \/ ForgetName(p)
  <2>1. PICK l \in {"shut", "no_file", "no_data", "no_name", "no_size"} : Goto(p, l)
    BY <1>13 DEF UnlinkFree, UnlinkClose, ForgetFile, ForgetData, ForgetName
  <2>2. Progress(p)'
    BY <1>4, <2>1 DEF Progress, Pcs
  <2> QED
    BY <1>3, <2>1, <2>2 DEF Pcs
<1>14. CASE ForgetSizes(p)
  <2>1. Return(p) /\ f' = f /\ task' = task /\ pc[p] = "no_size"
    BY <1>14, Zenon DEF ForgetSizes
  <2>2. f' = NoFile
    BY <1>2, <2>1 DEF Midway
  <2> QED
    BY <1>2, <2>1, <2>2, ReturnsCopied, Zenon
<1>15. CASE AddDisk(p) \/ DelDisk(p)
  <2>1. /\ UNCHANGED <<f, image, files, dirty>> /\ Goto(p, "idle")
        /\ pc[p] \in {"add_disk", "del_disk"}
    BY <1>15 DEF AddDisk, DelDisk, device
  <2>2. (f # NoFile => Clean)'
    BY <1>2, <2>1 DEF Progress, Clean
  <2> QED
    BY <1>3, <2>1, <2>2 DEF Pcs
<1>16. CASE SetupFails(p)
  <2>1. /\ UNCHANGED <<f, image, files, dirty>> /\ Goto(p, "unlink")
        /\ pc[p] = "add_disk" /\ task'[p] = "failed"
    BY <1>16 DEF SetupFails, device, Shape
  <2>2. (f # NoFile => Clean)'
    BY <1>2, <2>1 DEF Progress, Clean
  <2>3. Progress(p)'
    BY <1>4, <2>1, <2>2 DEF Progress, Pcs
  <2> QED
    BY <1>3, <2>1, <2>3 DEF Pcs
<1> QED
  BY <1>5, <1>6, <1>7, <1>8, <1>9, <1>10, <1>11, <1>12, <1>13, <1>14, <1>15, <1>16
  DEF Step, LoadStep, UnlinkStep

LEMMA CopiedRequest ==
    ASSUME Shape, Inv, Contents, Copied, Request \/ Transfer
    PROVE  Copied'
<1>1. CASE Request
  BY <1>1 DEF Request, device, locals, Copied, Idle, Clean, Progress
<1>2. CASE Transfer
  <2>1. Idle /\ UNCHANGED <<f, files, pc>>
    BY <1>2, Zenon DEF Transfer, Inv
  <2>2. \/ UNCHANGED <<image, dirty>>
        \/ \E s \in DOMAIN image : /\ image' = [image EXCEPT ![s] = Written]
                                   /\ dirty' = dirty \cup {s}
    BY <1>2, Zenon DEF Transfer
  <2>3. (f # NoFile => Clean)'
    BY <2>1, <2>2 DEF Copied, Clean
  <2> QED
    BY <2>1, <2>3 DEF Copied, Idle
<1> QED
  BY <1>1, <1>2

LEMMA CopiedCorrect ==
    ASSUME Exclusive, FilesFit
    PROVE  Spec => [](Shape /\ Inv /\ Copied)
<1>1. Init => Copied
  BY DEF Init, Copied, Idle
<1>2. Shape /\ Inv /\ Contents /\ Copied /\ [Next]_vars => Copied'
  <2> SUFFICES ASSUME Shape, Inv, Contents, Copied, [Next]_vars PROVE Copied'
    OBVIOUS
  <2>1. CASE UNCHANGED vars
    BY <2>1 DEF vars, device, locals, Copied, Idle, Clean, Progress
  <2> QED
    BY <2>1, CopiedCommand, CopiedStep, CopiedRequest DEF Next
<1> QED
  BY <1>1, <1>2, InvCorrect, TypeInit, ShapeCorrect, ContentsStep, PTL DEF Spec

\* ImageIsFile: between commands the image differs from the file only in what was
\* written since it was loaded or saved.
THEOREM TheImageIsTheFile ==
    ASSUME Exclusive, FilesFit
    PROVE  Spec => []ImageIsFile
<1>1. Copied => ImageIsFile
  BY DEF Copied, Clean, ImageIsFile, Settled
<1> QED
  BY <1>1, CopiedCorrect, PTL

\* SavedAtExit (dubfl.c:240): when blk_exit comes to unlink_file, the file has
\* everything that was written.
THEOREM ExitSaves ==
    ASSUME Exclusive, FilesFit
    PROVE  Spec => []SavedAtExit
<1>1. Inv /\ Copied => SavedAtExit
  <2> SUFFICES ASSUME Inv, Copied, NEW p \in Callers, task[p] = "rmmod", pc[p] = "unlink"
               PROVE  dirty = {} /\ \A s \in DOMAIN image : image[s] = files[f][s]
    BY DEF SavedAtExit
  <2>1. (HasFile \/ Unbound) /\ dirty = {} /\ (f # NoFile => Clean)
    BY DEF Inv, Copied, Midway, Progress, Bound, Held
  <2>2. CASE HasFile
    BY DubflAssumption, <2>1, <2>2 DEF Clean, HasFile
  <2>3. CASE Unbound
    BY <2>1, <2>3 DEF Unbound, Empty
  <2> QED
    BY <2>1, <2>2, <2>3
<1> QED
  BY <1>1, CopiedCorrect, PTL
=============================================================================
