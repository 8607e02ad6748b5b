------------------------------- MODULE Dubfl -------------------------------
(***************************************************************************)
(* The dubfl driver (lesson-13-block-devices/dubfl/dubfl.c): a disk whose  *)
(* image in memory is loaded from a file, bound to another file, saved and *)
(* unbound with ioctls while requests read and write it.                   *)
(*                                                                         *)
(* The ioctls take no lock: their statements, each a step, and those of    *)
(* the request function, which the block layer calls with the queue's lock *)
(* held, may interleave.  Exclusive = TRUE is the use the driver is made for: nobody *)
(* uses the disk, or gives it another command, while a command runs.       *)
(***************************************************************************)
EXTENDS Integers, FiniteSets

CONSTANTS
    Callers,      \* threads that call ioctl, insmod and rmmod
    Files,        \* the names of the files that exist
    Missing,      \* a name that no file has
    NoFile,       \* NULL, and the empty name
    FileSize(_),  \* the size of each file, in sectors
    Written,      \* what a write request puts in a sector
    Garbage,      \* what vmalloc leaves in a sector
    WrapSectors,  \* the number of sectors at which a 32 bit byte count wraps
    Exclusive,    \* see above
    BoundAtExit,  \* the module is only unloaded with a file bound
    InsmodNames   \* the values of the parameter file at insmod

ASSUME DubflAssumption ==
    /\ Missing \notin Files /\ NoFile \notin Files \cup {Missing}
    /\ \A n \in Files : FileSize(n) \in Nat
    /\ WrapSectors \in Nat \ {0}
    /\ Exclusive \in BOOLEAN /\ BoundAtExit \in BOOLEAN
    /\ InsmodNames \subseteq Files \cup {Missing, NoFile}

VARIABLES
    fname,   \* device.fname
    f,       \* device.f: the file that is open
    closed,  \* it is not open any more
    ssize,   \* device.ssize
    bsize,   \* device.bsize, counted in sectors
    mem,     \* device.data: NULL, an image, or the address of freed memory
    image,   \* the contents of that memory, sector by sector
    files,   \* the contents of the files
    capacity,\* of the gendisk
    req,     \* the request being served: its direction and sector
    pc,      \* where each caller is
    task,    \* what it is doing
    fil,     \* fil in load_file: the file it has opened and not yet bound
    off,     \* off2 in load_file, then off1 in its loop, as in save_file's
    module,  \* the state of the module
    wild,    \* history: memory that is not the image, or a closed file, was used
    dirty    \* history: the sectors written since they were loaded or saved

device == <<fname, f, closed, ssize, bsize, mem, image>>
locals == <<fil, off>>
vars == <<device, files, capacity, req, pc, task, locals, module, wild, dirty>>

Names   == Files \cup {Missing}
NoReq   == [dir |-> "none", sector |-> 0]
\* The sectors a vmalloc of n sectors gives.
Memory(n) == [s \in 0 .. n - 1 |-> Garbage]
Idle == \A p \in Callers : pc[p] = "idle"

Goto(p, l) == pc' = [pc EXCEPT ![p] = l]

Init ==
    /\ fname = NoFile /\ f = NoFile /\ closed = FALSE
    /\ ssize = 0 /\ bsize = 0
    /\ mem = "null" /\ image = Memory(0)
    /\ files = [n \in Files |-> [s \in 0 .. FileSize(n) - 1 |-> <<n, s>>]]
    /\ capacity = 0 /\ req = NoReq
    /\ pc = [p \in Callers |-> "idle"]
    /\ task = [p \in Callers |-> "none"]
    /\ fil = [p \in Callers |-> NoFile] /\ off = [p \in Callers |-> 0]
    /\ module = "out" /\ wild = FALSE /\ dirty = {}

-----------------------------------------------------------------------------
\* Callers.

MayBegin(p) ==
    /\ pc[p] = "idle"
    /\ Exclusive => Idle /\ req = NoReq

Begin(p, t, l) ==
    /\ MayBegin(p)
    /\ task' = [task EXCEPT ![p] = t]
    /\ Goto(p, l)

\* A function that all of insmod, rmmod and ioctl call returns.
Return(p) ==
    Goto(p, IF task[p] = "insmod" THEN "add_disk"
            ELSE IF task[p] = "rmmod" /\ pc[p] = "save" THEN "unlink"
            ELSE IF task[p] \in {"rmmod", "failed"} THEN "del_disk"
            ELSE "idle")

\* off1 is set to the start of the file.  A mutant leaves it where it was.
NotRewound(p) == UNCHANGED off
Rewind(p) == off' = [off EXCEPT ![p] = 0]

\* The next statement is l, unless this one was given NULL for a file.
UseFile(p, l) == Goto(p, IF f = NoFile THEN "oops" ELSE l)

\* load_file starts: it notes the name before it looks at it.
TakeName(p, n) == fname' = n

\* blk_init: with no parameter file, load_file copies from NULL.
Insmod(p) ==
    \E n \in InsmodNames :
        /\ module = "out" /\ Idle
        /\ module' = "loading"
        /\ Begin(p, "insmod", IF n = NoFile THEN "oops" ELSE "open")
        /\ IF n = NoFile THEN UNCHANGED fname ELSE TakeName(p, n)
        /\ UNCHANGED <<f, closed, ssize, bsize, mem, image, files, capacity, req,
                       locals, wild, dirty>>

\* DUBFL_LOAD_DISK.
LoadDisk(p) ==
    \E n \in Names \cup {NoFile} :
        /\ module = "live" /\ MayBegin(p)
        /\ TakeName(p, n)
        /\ IF n = NoFile THEN UNCHANGED <<pc, task>> ELSE Begin(p, "ioctl", "open")
        /\ UNCHANGED <<f, closed, ssize, bsize, mem, image, files, capacity, req,
                       locals, module, wild, dirty>>

\* DUBFL_SAVE_DISK: refused without a file or an image.
SaveDisk(p) ==
    /\ module = "live"
    /\ f # NoFile /\ mem # "null"
    /\ Begin(p, "ioctl", "rewind")
    /\ UNCHANGED <<device, files, capacity, req, locals, module, wild, dirty>>

\* DUBFL_UNLINK_DISK.
UnlinkDisk(p) ==
    /\ module = "live"
    /\ Begin(p, "ioctl", "unlink")
    /\ UNCHANGED <<device, files, capacity, req, locals, module, wild, dirty>>

\* blk_exit, when nobody has the disk open: save_file first, and nobody asks
\* whether there is a file.  A mutant does not save.
SaveForgotten == "unlink"
SaveAtExit == "rewind"
Rmmod(p) ==
    /\ module = "live" /\ Idle /\ req = NoReq
    /\ BoundAtExit => f # NoFile
    /\ module' = "unloading"
    /\ Begin(p, "rmmod", SaveAtExit)
    /\ UNCHANGED <<device, files, capacity, req, locals, wild, dirty>>

-----------------------------------------------------------------------------
\* load_file.

\* The file named in the device is opened; filp_open may sleep.
LoadOpen(p) ==
    /\ pc[p] = "open"
    /\ IF fname \in Files
       THEN fil' = [fil EXCEPT ![p] = fname] /\ Goto(p, "close")
       ELSE fil' = fil /\ Return(p)
    /\ UNCHANGED <<device, files, capacity, req, task, off, module, wild, dirty>>

\* filp_close of the file that is bound, if there is one: closing it twice is a
\* use of a closed file.
Close == /\ closed' = (f # NoFile)
         /\ wild' = (wild \/ closed)

LoadClose(p) ==
    /\ pc[p] = "close"
    /\ Close
    /\ Goto(p, "bind")
    /\ UNCHANGED <<fname, f, ssize, bsize, mem, image, files, capacity, req, task,
                   locals, module, dirty>>

LoadBind(p) ==
    /\ pc[p] = "bind"
    /\ f' = fil[p] /\ closed' = FALSE
    /\ fil' = [fil EXCEPT ![p] = NoFile]
    /\ Goto(p, "seek")
    /\ UNCHANGED <<fname, ssize, bsize, mem, image, files, capacity, req, task, off,
                   module, wild, dirty>>

\* off2 is the length of the file that is bound by now ...
LoadSeek(p) ==
    /\ pc[p] = "seek"
    /\ off' = [off EXCEPT ![p] = IF f = NoFile THEN @ ELSE FileSize(f)]
    /\ wild' = (wild \/ closed)
    /\ UseFile(p, "size")
    /\ UNCHANGED <<device, files, capacity, req, task, fil, module, dirty>>

\* ... from which the sizes are stored, one after the other.  A mutant takes the
\* difference the other way round.
SectorsBack(off1, off2) == off1 - off2
Sectors(off1, off2) == off2 - off1

LoadSize(p) ==
    /\ pc[p] = "size"
    /\ ssize' = Sectors(0, off[p]) /\ Rewind(p)
    /\ Goto(p, "bytes")
    /\ UNCHANGED <<fname, f, closed, bsize, mem, image, files, capacity, req, task,
                   fil, module, wild, dirty>>

LoadBytes(p) ==
    /\ pc[p] = "bytes"
    /\ bsize' = ssize % WrapSectors
    /\ Goto(p, "free")
    /\ UNCHANGED <<fname, f, closed, ssize, mem, image, files, capacity, req, task,
                   locals, module, wild, dirty>>

\* vfree of the image, if there is one: freeing it twice is a use of memory that
\* is not the image.
Free == /\ mem' = IF mem = "null" THEN "null" ELSE "freed"
        /\ wild' = (wild \/ mem = "freed")

LoadFree(p) ==
    /\ pc[p] = "free"
    /\ Free
    /\ Goto(p, "alloc")
    /\ UNCHANGED <<fname, f, closed, ssize, bsize, image, files, capacity, req, task,
                   locals, module, dirty>>

\* vmalloc may fail, and does for a size of 0: then unlink_file cleans up.
LoadAlloc(p) ==
    /\ pc[p] = "alloc"
    /\ \/ /\ bsize > 0
          /\ mem' = "image" /\ image' = Memory(bsize)
          /\ Goto(p, "read")
       \/ /\ mem' = "null" /\ image' = Memory(0)
          /\ Goto(p, "unlink")
    /\ dirty' = {}
    /\ UNCHANGED <<fname, f, closed, ssize, bsize, files, capacity, req, task, locals,
                   module, wild>>

\* vfs_read advances the offset by what it read, which is nothing when it fails or
\* the file is shorter by now.  A mutant gives it a copy of the offset.
AdvanceCopy(s, got) == s
Advance(s, got) == IF got THEN s + 1 ELSE s

\* One round of the loop that reads the file into the image.
LoadRead(p) ==
    LET s == off[p]
        got == f # NoFile /\ s \in DOMAIN files[f]
    IN
    /\ pc[p] = "read"
    /\ IF s < bsize
       THEN /\ wild' = (wild \/ closed \/ mem # "image" \/ s \notin DOMAIN image)
            /\ image' = IF got /\ s \in DOMAIN image
                        THEN [image EXCEPT ![s] = files[f][s]] ELSE image
            /\ off' = [off EXCEPT ![p] = Advance(s, got)]
            /\ UseFile(p, "read")
       ELSE Return(p) /\ UNCHANGED <<wild, image, off>>
    /\ UNCHANGED <<fname, f, closed, ssize, bsize, mem, files, capacity, req, task,
                   fil, module, dirty>>

-----------------------------------------------------------------------------
\* save_file and unlink_file.

SaveRewind(p) ==
    /\ pc[p] = "rewind"
    /\ Rewind(p)
    /\ wild' = (wild \/ closed)
    /\ UseFile(p, "save")
    /\ UNCHANGED <<device, files, capacity, req, task, fil, module, dirty>>

\* One round of the loop that writes the image to the file.
SaveWrite(p) ==
    /\ pc[p] = "save"
    /\ IF off[p] < bsize
       THEN LET s == off[p] IN
            /\ wild' = (wild \/ closed \/ mem # "image" \/ s \notin DOMAIN image)
            /\ files' = IF s \in DOMAIN image /\ f # NoFile
                        THEN [files EXCEPT ![f][s] = image[s]] ELSE files
            /\ dirty' = dirty \ {s}
            /\ off' = [off EXCEPT ![p] = s + 1]
            /\ UseFile(p, "save")
       ELSE Return(p) /\ UNCHANGED <<wild, files, dirty, off>>
    /\ UNCHANGED <<device, capacity, req, task, fil, module>>

UnlinkFree(p) ==
    /\ pc[p] = "unlink"
    /\ Free
    /\ Goto(p, "shut")
    /\ UNCHANGED <<fname, f, closed, ssize, bsize, image, files, capacity, req, task,
                   locals, module, dirty>>

UnlinkClose(p) ==
    /\ pc[p] = "shut"
    /\ Close
    /\ Goto(p, "no_file")
    /\ UNCHANGED <<fname, f, ssize, bsize, mem, image, files, capacity, req, task,
                   locals, module, dirty>>

\* The rest of unlink_file forgets the binding, one part after the other.
ForgetFile(p) ==
    /\ pc[p] = "no_file"
    /\ f' = NoFile /\ closed' = FALSE
    /\ Goto(p, "no_data")
    /\ UNCHANGED <<fname, ssize, bsize, mem, image, files, capacity, req, task,
                   locals, module, wild, dirty>>

ForgetData(p) ==
    /\ pc[p] = "no_data"
    /\ mem' = "null" /\ image' = Memory(0) /\ dirty' = {}
    /\ Goto(p, "no_name")
    /\ UNCHANGED <<fname, f, closed, ssize, bsize, files, capacity, req, task,
                   locals, module, wild>>

ForgetName(p) ==
    /\ pc[p] = "no_name"
    /\ fname' = NoFile
    /\ Goto(p, "no_size")
    /\ UNCHANGED <<f, closed, ssize, bsize, mem, image, files, capacity, req, task,
                   locals, module, wild, dirty>>

\* A mutant: the sizes are left.
SizesLeft == UNCHANGED <<ssize, bsize>>
NoSizes == ssize' = 0 /\ bsize' = 0

ForgetSizes(p) ==
    /\ pc[p] = "no_size"
    /\ NoSizes
    /\ Return(p)
    /\ UNCHANGED <<fname, f, closed, mem, image, files, capacity, req, task, locals,
                   module, wild, dirty>>

-----------------------------------------------------------------------------
\* setup_device after load_file, whose result it ignores.
AddDisk(p) ==
    /\ pc[p] = "add_disk"
    /\ capacity' = ssize
    /\ module' = "live"
    /\ Goto(p, "idle")
    /\ UNCHANGED <<device, files, req, task, locals, wild, dirty>>

\* The queue or the gendisk cannot be had: unlink_file, and insmod fails.
SetupFails(p) ==
    /\ pc[p] = "add_disk"
    /\ task' = [task EXCEPT ![p] = "failed"]
    /\ Goto(p, "unlink")
    /\ UNCHANGED <<device, files, capacity, req, locals, module, wild, dirty>>

\* del_gendisk and the rest of blk_exit, or what blk_init does when setup_device
\* failed.
DelDisk(p) ==
    /\ pc[p] = "del_disk"
    /\ capacity' = 0
    /\ module' = "out"
    /\ Goto(p, "idle")
    /\ UNCHANGED <<device, files, req, task, locals, wild, dirty>>

-----------------------------------------------------------------------------
\* my_request.

\* A request of one sector, which the block layer has found to be below the
\* capacity, passes the check against ssize, or is failed.  A mutant lets the
\* sector behind the last one pass.
RequestCheckByOne(s) == s =< ssize
RequestCheck(s) == s + 1 =< ssize
Request ==
    /\ module = "live" /\ req = NoReq
    /\ Exclusive => Idle
    /\ \E d \in {"read", "write"}, s \in 0 .. capacity - 1 :
          req' = IF RequestCheck(s) THEN [dir |-> d, sector |-> s] ELSE NoReq
    /\ UNCHANGED <<device, files, capacity, pc, task, locals, module, wild, dirty>>

\* transfer, which checks nothing.
Transfer ==
    LET s == req.sector IN
    /\ req # NoReq
    /\ wild' = (wild \/ mem # "image" \/ s \notin DOMAIN image)
    /\ IF req.dir = "write" /\ s \in DOMAIN image
       THEN image' = [image EXCEPT ![s] = Written] /\ dirty' = dirty \cup {s}
       ELSE UNCHANGED <<image, dirty>>
    /\ req' = NoReq
    /\ UNCHANGED <<fname, f, closed, ssize, bsize, mem, files, capacity, pc, task,
                   locals, module>>

-----------------------------------------------------------------------------
LoadStep(p) ==
    \/ LoadOpen(p) \/ LoadClose(p) \/ LoadBind(p) \/ LoadSeek(p) \/ LoadSize(p)
    \/ LoadBytes(p) \/ LoadFree(p) \/ LoadAlloc(p) \/ LoadRead(p)

UnlinkStep(p) ==
    \/ UnlinkFree(p) \/ UnlinkClose(p) \/ ForgetFile(p) \/ ForgetData(p)
    \/ ForgetName(p) \/ ForgetSizes(p)

Step(p) ==
    \/ LoadStep(p) \/ SaveRewind(p) \/ SaveWrite(p) \/ UnlinkStep(p)
    \/ AddDisk(p) \/ SetupFails(p) \/ DelDisk(p)

Command(p) ==
    Insmod(p) \/ LoadDisk(p) \/ SaveDisk(p) \/ UnlinkDisk(p) \/ Rmmod(p)

Next == (\E p \in Callers : Command(p) \/ Step(p)) \/ Request \/ Transfer

Spec == Init /\ [][Next]_vars

\* A thread that is in the driver goes on.
FairSpec == Spec /\ \A p \in Callers : WF_vars(Step(p))

-----------------------------------------------------------------------------
Value == {Garbage, Written} \cup UNION {{n} \X (0 .. FileSize(n)) : n \in Files}

Pcs == {"idle", "open", "close", "bind", "seek", "size", "bytes", "free", "alloc",
        "read", "rewind", "save", "unlink", "shut", "no_file", "no_data", "no_name",
        "no_size", "add_disk", "del_disk", "oops"}
Tasks == {"none", "ioctl", "insmod", "failed", "rmmod"}

\* Type invariant (struct own_disk and the local state of the callers).
TypeOK ==
    /\ fname \in Names \cup {NoFile} /\ f \in Files \cup {NoFile}
    /\ closed \in BOOLEAN
    /\ ssize \in Nat /\ bsize \in Nat
    /\ mem \in {"null", "image", "freed"}
    /\ \A s \in DOMAIN image : image[s] \in Value
    /\ \A n \in Files : \A s \in DOMAIN files[n] : files[n][s] \in Value
    /\ capacity \in Nat
    /\ req \in [dir : {"none", "read", "write"}, sector : Nat]
    /\ pc \in [Callers -> Pcs] /\ task \in [Callers -> Tasks]
    /\ fil \in [Callers -> Files \cup {NoFile}] /\ off \in [Callers -> Nat]
    /\ module \in {"out", "loading", "live", "unloading"}
    /\ wild \in BOOLEAN
    /\ dirty \subseteq DOMAIN image

\* dubfl.c:15: data is the disk's image in memory.  Requests, the loops that
\* load and save, and vfree use the image that is there and stay inside it,
\* whatever files of whatever sizes were bound before; and a file that has been
\* closed is not used, or closed again.
NoWildAccess == ~wild

\* No command is under way.
Settled == module = "live" /\ Idle

\* The parts of the device agree: with a file, which is open, the sizes are the
\* file's, and the image has the size that requests are checked against; without
\* one there is no image and no size.
PartsAgree ==
    Settled =>
        /\ mem = IF f = NoFile THEN "null" ELSE "image"
        /\ ssize = IF f = NoFile THEN 0 ELSE FileSize(f)
        /\ bsize = ssize /\ DOMAIN image = 0 .. ssize - 1
        /\ ~closed

\* The image differs from the file only in what was written since it was loaded
\* or saved: loads and saves are complete, and no request went elsewhere.
ImageIsFile ==
    Settled /\ f # NoFile =>
        \A s \in DOMAIN image \ dirty : image[s] = files[f][s]

\* blk_exit saves: when it comes to unlink_file nothing written is left that the
\* file does not have.
SavedAtExit ==
    \A p \in Callers : task[p] = "rmmod" /\ pc[p] = "unlink" =>
        dirty = {} /\ \A s \in DOMAIN image : image[s] = files[f][s]

\* dubfl.c:97, 148: the loops that load and save come to the end of the image, and
\* every command that began ends.
CommandsEnd == \A p \in Callers : pc[p] # "idle" ~> pc[p] = "idle"

\* dubfl.c:175: save_file is called with a file and an image.
NoOops == \A p \in Callers : pc[p] # "oops"
=============================================================================
