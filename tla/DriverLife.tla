----------------------------- MODULE DriverLife -----------------------------
(***************************************************************************)
(* How the modules of the repository come and go: what each acquires in    *)
(* its init function, what it gives back when a step of that fails, and    *)
(* what its exit function releases.  A module is a list of parts, each a   *)
(* list of steps; a step that fails gives back what its undo names, and    *)
(* then the load fails, or, where the code takes no notice, goes on with   *)
(* the next part.  Some take a step that succeeded for one that failed.    *)
(***************************************************************************)
EXTENDS Integers, Sequences

CONSTANTS
    Configs,  \* each a module, and what may fail
    N         \* ndevices of xd and sbull

VARIABLES
    conf,     \* which module, and what may fail
    module,   \* its state
    ptr,      \* what the variable for each thing holds
    held,     \* the things the module has from the kernel
    part,     \* where the init function is: in which part ...
    step,     \* ... at which step
    drop,     \* the releases to do before anything else
    fault,    \* history: something was released that is not there
    leaked    \* history: things the kernel still has of a module that is gone,
              \* or that can no longer go

vars == <<conf, module, ptr, held, part, step, drop, fault, leaked>>

-----------------------------------------------------------------------------
\* The modules.

One(kind)    == <<kind, 0>>
Of(kind, i)  == <<kind, i>>
\* The load fails with a step that is a Get, and goes on after a Try.
Get(r, undo) == [get |-> r, undo |-> undo, vital |-> TRUE]
Try(r, undo) == [get |-> r, undo |-> undo, vital |-> FALSE]

\* Releases: Free is made in any case; FreeIf looks at the pointer before it,
\* Clear also sets it to NULL.
Free(r)   == [of |-> r, guarded |-> FALSE, clears |-> FALSE]
FreeIf(r) == [of |-> r, guarded |-> TRUE, clears |-> FALSE]
Clear(r)  == [of |-> r, guarded |-> TRUE, clears |-> TRUE]

\* The parts of init: the first one, and one for each device.  The releases of exit:
\* m for each device.
Devices(first, Device(_)) ==
    [k \in 1 .. N + 1 |-> IF k = 1 THEN first ELSE Device(k - 1)]
ForDevices(m, Releases(_)) ==
    [j \in 1 .. m * N |-> Releases(((j - 1) \div m) + 1)[((j - 1) % m) + 1]]

\* block_mod_s.c.  setup_device leaves dev->data as it is when it has freed it.
XdDevice(i) ==
    << Try(Of("data", i), << >>),
       Try(Of("queue", i), <<FreeIf(Of("data", i))>>),
       Try(Of("disk", i), <<FreeIf(Of("data", i))>>) >>
XdInit ==
    Devices(<< Get(One("major"), << >>), Get(One("array"), <<Free(One("major"))>>) >>,
            XdDevice)
\* A mutant releases the gendisk without a look at the pointer.
XdReleasesUnguarded(i) ==
    <<Free(Of("disk", i)), FreeIf(Of("queue", i)), FreeIf(Of("data", i))>>
XdReleases(i) ==
    <<FreeIf(Of("disk", i)), FreeIf(Of("queue", i)), FreeIf(Of("data", i))>>
XdExit == ForDevices(3, XdReleases) \o <<Free(One("major")), Free(One("array"))>>

\* sbull.c.  The timer is initialised when there are data, and stopped in any
\* case; without an array the major number stays, since it is given back under
\* another name.
SbullDevice(i) ==
    << Try(Of("data", i), << >>),
       Try(Of("timer", i), << >>),
       Try(Of("queue", i), <<FreeIf(Of("data", i))>>),
       Try(Of("disk", i), <<FreeIf(Of("data", i))>>) >>
SbullInit ==
    Devices(<<Get(One("major"), << >>), Get(One("array"), << >>)>>, SbullDevice)
SbullReleases(i) ==
    <<Free(Of("timer", i)), FreeIf(Of("disk", i)), FreeIf(Of("queue", i)),
      FreeIf(Of("data", i))>>
SbullExit ==
    ForDevices(4, SbullReleases) \o <<Free(One("major")), Free(One("array"))>>

\* block_mod_c.c: the queue stays when there is no major number or gendisk.
XbcInit ==
    << << Get(One("data"), << >>),
          Get(One("queue"), <<Free(One("data"))>>),
          Get(One("major"), <<Free(One("data"))>>),
          Get(One("disk"), <<Free(One("major")), Free(One("data"))>>) >> >>
\* Mutants free the memory first, or not at all, as block_mod_e.c does.
XbcExitDataFirst ==
    <<Free(One("data")), Free(One("disk")), Free(One("major")), Free(One("queue"))>>
XbcExitNoVfree == <<Free(One("disk")), Free(One("major")), Free(One("queue"))>>
XbcExit ==
    <<Free(One("disk")), Free(One("major")), Free(One("queue")), Free(One("data"))>>

\* lab2_block.c, which block_mod_c.c was written after, does the same.
Lab2Init == XbcInit
Lab2Exit == XbcExit

\* dubfl.c: load_file opens the file of the image and loads it, and setup_device
\* goes on without.  unlink_file releases the two; the queue stays when there is
\* no gendisk.
DubflUnlink == <<Clear(One("data")), Clear(One("image"))>>
DubflInit ==
    LET undo == DubflUnlink \o <<Free(One("major"))>> IN
    << <<Get(One("major"), << >>)>>,
       <<Try(One("image"), << >>), Try(One("data"), DubflUnlink)>>,
       <<Get(One("queue"), undo), Get(One("disk"), undo)>> >>
DubflExit ==
    DubflUnlink \o <<Free(One("disk")), Free(One("queue")), Free(One("major"))>>
\* Before that it saves the image, without a look whether there is a file.
DubflExitUses == {One("image")}

\* procfs_rw/rw.c.
RwInit ==
    LET undo == <<Clear(One("file")), Clear(One("dir")), Clear(One("data"))>> IN
    << <<Get(One("data"), undo), Get(One("dir"), undo), Get(One("file"), undo)>> >>
RwExit == <<Clear(One("file")), Clear(One("dir")), Clear(One("data"))>>

\* examples.245.proc/mod_proct.c.
ProctInit ==
    << <<Get(One("dir"), << >>), Get(One("file"), <<Free(One("dir"))>>)>> >>
ProctExit == <<Free(One("file")), Free(One("dir"))>>

\* examples.245.proc/mod_proc.c.
ProcInit == << <<Get(One("file"), << >>)>> >>
ProcExit == <<Free(One("file"))>>

\* sys/xxx.c: the file is asked for without a class too, and the class stays when
\* the file cannot be created.
XxxInit == << <<Try(One("class"), << >>)>>, <<Get(One("file"), << >>)>> >>
XxxExit == <<Free(One("file")), Free(One("class"))>>

\* sys/xxm.c: three files.
XxmInit == << <<Try(One("class"), << >>)>> >>
              \o [k \in 1 .. 3 |-> <<Try(Of("file", k), << >>)>>]
XxmExit == [k \in 1 .. 3 |-> Free(Of("file", k))] \o <<Free(One("class"))>>

\* mpu6050.c: nothing is given back when a step fails.
MpuFiles == [k \in 1 .. 7 |-> Of("file", k)]
MpuInit ==
    << <<Get(One("driver"), << >>), Get(One("class"), << >>)>>
          \o [k \in 1 .. 7 |-> Get(MpuFiles[k], << >>)] >>
MpuExit ==
    [k \in 1 .. 7 |-> Free(MpuFiles[k])]
        \o <<FreeIf(One("class")), Free(One("driver"))>>

InitOf == [xd |-> XdInit, sbull |-> SbullInit, xbc |-> XbcInit, lab2 |-> Lab2Init,
           dubfl |-> DubflInit, rw |-> RwInit, proct |-> ProctInit,
           proc |-> ProcInit, xxx |-> XxxInit, xxm |-> XxmInit, mpu6050 |-> MpuInit]
ExitOf == [xd |-> XdExit, sbull |-> SbullExit, xbc |-> XbcExit, lab2 |-> Lab2Exit,
           dubfl |-> DubflExit, rw |-> RwExit, proct |-> ProctExit,
           proc |-> ProcExit, xxx |-> XxxExit, xxm |-> XxmExit, mpu6050 |-> MpuExit]
Drivers == DOMAIN InitOf
ExitUses(driver) == IF driver = "dubfl" THEN DubflExitUses ELSE {}

\* register_blkdev returns 0 when the number was given, by a parameter of the
\* module.  These take that for a failure, with the number held.
TakeZeroForFailure == {"xd", "sbull", "dubfl"}

Kinds  == {"major", "array", "data", "timer", "queue", "disk", "image", "dir",
           "file", "driver", "class"}
Things == Kinds \X (0 .. (IF N > 7 THEN N ELSE 7))

\* What may fail: to get a thing of some kind, or, with a number that was given, to
\* see that it was got.
Failures == Kinds \cup {"given"}

ASSUME LifeAssumption ==
    /\ N \in Nat \ {0}
    /\ \A c \in Configs : c.driver \in Drivers /\ c.fails \subseteq Failures

\* The failures that each module's code provides for.
Provided ==
    [xd |-> {"major", "array", "data"}, sbull |-> {"major"}, xbc |-> {"data", "queue"},
     lab2 |-> {"data", "queue"}, dubfl |-> {"major", "queue"},
     rw |-> Kinds, proct |-> Kinds, proc |-> Kinds, xxx |-> {}, xxm |-> {},
     mpu6050 |-> {"driver"}]

\* Nothing else fails, of the module that is there or of any.
AsProvided   == conf.fails \subseteq Provided[conf.driver]
OnlyProvided == \A c \in Configs : c.fails \subseteq Provided[c.driver]

-----------------------------------------------------------------------------
Parts == InitOf[conf.driver]

Init ==
    /\ conf \in Configs
    /\ module = "out"
    /\ ptr = [r \in Things |-> "null"]
    /\ held = {} /\ part = 1 /\ step = 1 /\ drop = << >>
    /\ fault = FALSE /\ leaked = {}

\* insmod.
Load ==
    /\ module = "out"
    /\ module' = "loading"
    /\ part' = 1 /\ step' = 1
    /\ UNCHANGED <<conf, ptr, held, drop, fault, leaked>>

\* What the init function does next.
Step == Parts[part][step]
AtStep == module = "loading" /\ drop = << >> /\ part =< Len(Parts)

\* After a step comes the next one of its part, or the next part.  A mutant does not
\* get on.
NextPart == part' = part + 1 /\ step' = 1
AdvanceNot == UNCHANGED <<part, step>>
Advance == IF step < Len(Parts[part]) THEN step' = step + 1 /\ UNCHANGED part
           ELSE NextPart

Acquire ==
    /\ AtStep
    /\ ptr' = [ptr EXCEPT ![Step.get] = "held"]
    /\ held' = held \cup {Step.get}
    /\ Advance
    /\ UNCHANGED <<conf, module, drop, fault, leaked>>

StepFails ==
    /\ AtStep
    /\ Step.get[1] \in conf.fails
    /\ drop' = Step.undo
    /\ IF Step.vital THEN module' = "failing" /\ UNCHANGED <<part, step>>
       ELSE NextPart /\ UNCHANGED module
    /\ UNCHANGED <<conf, ptr, held, fault, leaked>>

\* The number is got, and the variable for it is 0.
TakenForFailure ==
    /\ AtStep
    /\ Step.get = One("major") /\ conf.driver \in TakeZeroForFailure
    /\ "given" \in conf.fails
    /\ held' = held \cup {Step.get}
    /\ drop' = Step.undo
    /\ module' = "failing"
    /\ UNCHANGED <<conf, ptr, part, step, fault, leaked>>

\* The next release, in an init or an exit function.
Release ==
    /\ drop # << >>
    /\ drop' = Tail(drop)
    /\ LET d == Head(drop)
           skip == d.guarded /\ ptr[d.of] = "null"
       IN
       /\ fault' = (fault \/ (~skip /\ ptr[d.of] # "held"))
       /\ held' = IF skip THEN held ELSE held \ {d.of}
       /\ ptr' = IF skip THEN ptr
                 ELSE [ptr EXCEPT ![d.of] = IF d.clears THEN "null" ELSE "stale"]
    /\ UNCHANGED <<conf, module, part, step, leaked>>

\* The init function returns 0.
Loaded ==
    /\ module = "loading" /\ drop = << >> /\ part > Len(Parts)
    /\ module' = "live"
    /\ UNCHANGED <<conf, ptr, held, part, step, drop, fault, leaked>>

\* rmmod, when nobody uses the module.
Unload ==
    /\ module = "live"
    /\ \A r \in ExitUses(conf.driver) : ptr[r] = "held"
    /\ module' = "unloading"
    /\ drop' = ExitOf[conf.driver]
    /\ UNCHANGED <<conf, ptr, held, part, step, fault, leaked>>

\* Where exit uses what is not there, rmmod ends in an oops before anything is
\* released, and the module stays.
Oops ==
    /\ module = "live"
    /\ \E r \in ExitUses(conf.driver) : ptr[r] # "held"
    /\ module' = "stuck"
    /\ fault' = TRUE /\ leaked' = leaked \cup held
    /\ UNCHANGED <<conf, ptr, held, part, step, drop>>

\* It can be neither loaded nor unloaded again.
Refused == module = "stuck" /\ UNCHANGED vars

\* The kernel frees the module, its variables included.
Gone ==
    /\ module \in {"failing", "unloading"} /\ drop = << >>
    /\ module' = "out"
    /\ leaked' = leaked \cup held
    /\ held' = {} /\ ptr' = [r \in Things |-> "null"]
    /\ UNCHANGED <<conf, part, step, drop, fault>>

Next ==
    \/ Load \/ Acquire \/ StepFails \/ TakenForFailure \/ Release \/ Loaded
    \/ Unload \/ Oops \/ Refused \/ Gone

Spec == Init /\ [][Next]_vars

-----------------------------------------------------------------------------
\* Type invariant: what is still to be acquired has not been, and what is held the
\* variables name, but for a number taken for a failure.
TypeOK ==
    /\ conf \in Configs
    /\ module \in {"out", "loading", "failing", "live", "unloading", "stuck"}
    /\ ptr \in [Things -> {"null", "held", "stale"}]
    /\ held \subseteq Things /\ leaked \subseteq Things
    /\ AsProvided => \A r \in held : ptr[r] = "held"
    /\ part \in 1 .. Len(Parts) + 1
    /\ part =< Len(Parts) => step \in 1 .. Len(Parts[part])
    /\ module = "loading" =>
          \A k \in 1 .. Len(Parts) : \A j \in 1 .. Len(Parts[k]) :
             k > part \/ (k = part /\ j >= step) => ptr[Parts[k][j].get] = "null"
    /\ fault \in BOOLEAN

\* A module releases only what it has: nothing twice, nothing it could not get,
\* whichever of the failures its code provides for occur and however often it was
\* loaded.  Whatever fails, the others than these five keep to that.
Faulty == {"xd", "sbull", "dubfl", "xxx", "xxm"}
NoFault == fault => ~AsProvided /\ conf.driver \in Faulty

\* Nothing is left of a module whose load failed, with a failure that its code
\* provides for, or that was unloaded; and whatever fails, nothing but these.
Stays ==
    [xd |-> {"major"}, sbull |-> {"major"}, xbc |-> {"queue"}, lab2 |-> {"queue"},
     dubfl |-> {"major", "queue", "disk"}, rw |-> {}, proct |-> {}, proc |-> {},
     xxx |-> {"class"}, xxm |-> {}, mpu6050 |-> {"driver", "class", "file"}]
NothingLeft == \A r \in leaked : ~AsProvided /\ r[1] \in Stays[conf.driver]

\* What the kernel calls the module for: a gendisk, a file of procfs or sysfs.
Fronts == {r \in held : r[1] \in {"disk", "file"}}
\* What the functions called then use, the image of dubfl and the timer of sbull
\* excepted: exit begins with those, when no program has the device open.
Behind(driver, r) ==
    CASE driver \in {"xd", "sbull"} ->
             {One("major"), One("array"), Of("data", r[2]), Of("queue", r[2])}
      [] driver \in {"xbc", "lab2"} -> {One("major"), One("data"), One("queue")}
      [] driver = "dubfl" -> {One("major"), One("queue")}
      [] driver = "rw" -> {One("data"), One("dir")}
      [] driver = "proct" -> {One("dir")}
      [] driver = "proc" -> {}
      [] driver \in {"xxx", "xxm"} -> {One("class")}
      [] driver = "mpu6050" -> {One("class"), One("driver")}

\* While the kernel may still call the module for a disk or a file, everything
\* behind it is there: it comes last and goes first, with the failures provided for.
Backed == AsProvided => \A r \in Fronts : Behind(conf.driver, r) \subseteq held
=============================================================================
