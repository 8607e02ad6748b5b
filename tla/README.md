# Models of the kernel-training drivers

This directory holds TLA+ models of the drivers of this repository (the lessons
of a course on Linux kernel modules), configurations that check them with TLC on
small instances, and proofs that TLAPS checks for instances of any size. Paths
below are relative to `src/`.

## 1. The system

The repository is not one program. It is a set of small kernel modules, each
with its own state, which meet the kernel (block layer, VFS, timers, i2c) and,
in a few places, each other's sources (`#include "../request.c"`). What they
share are the hard parts: code that the kernel calls from several processes and
from interrupts, buffers with a length and a position, and a life that starts in
an init function, any step of which may fail, and ends in an exit function.

| part | state | operations | who calls it | hard behaviour |
|---|---|---|---|---|
| **sbull** (`lesson-13-block-devices/block_mod.LDD3/original/sbull.c`), users and medium | `users`, `media_change`, `data`, the timer, `dev->lock` | `sbull_open`, `sbull_release`, `sbull_media_changed`, `sbull_revalidate`, `sbull_invalidate`, exit | the block layer, under its own semaphore in the kernels the driver is made for; the timer interrupt; `rescan_partitions` | an open racing the timer; a release racing an open; `sbull_revalidate` runs without the lock; unloading with a timer armed |
| sbull, requests | the queue, the request served, `data` | `sbull_request`, `sbull_full_request`, `sbull_make_request` with `sbull_transfer`, `sbull_xfer_bio`, `sbull_xfer_request` | the block layer with the queue's lock held; `make_request` in every process that submits | requests of several bios, bios of several segments, a request ended in parts, copies with no lock |
| **xd** (`block_mod.LDD3/block_mod_s.c`), sbull ported | the same without users and medium | `simple_request`, `full_request`, `make_request` and helpers | the same | the same |
| **xbc, xbe, lab2** (`request.c`, `ioctl.c`, `common.c`, `block_mod_c.c`, `block_mod_e.c`, `block_mod.LDD_35/original/lab2_block.c`), ram disks | `data`, the queue | `my_request`, geometry, init, exit | the same | errors in the middle of a request |
| **dubfl** (`dubfl/dubfl.c`), a disk loaded from a file | `fname`, `f`, `ssize`, `bsize`, `data` | ioctls that load, save, unlink; `my_request`; insmod, rmmod | user programs, at any time; the block layer | commands take no lock; a load that fails half way; unloading with nothing bound |
| **procfs_rw** (`lesson-03-modules-interfaces/procfs_rw/rw.c`) | buffer, length and read position, all global | `example_read`, `example_write` | VFS, from any number of processes | one position for all readers, faults in the middle of a copy, no lock |
| **procfs examples** (`examples.245.proc/`) | a string; a position per open file | `node_read`, `node_write`; the program `mcat` | VFS; `mcat` reads until it is told the end | the string changes between two measurements; termination |
| **sysfs examples** (`sys/`, `lesson-04-memory-management/mm/xxx.c`) | a string | show, store | sysfs | long writes |
| **mpu6050** (`mpu6050/mpu6050.c`) | the i2c client, the values last read | probe, remove, show functions, init, exit | i2c core, sysfs | remove during a read; read errors taken for values |
| init and exit of all modules | what was acquired | | insmod, rmmod | a step that fails: nothing may be left, or be released twice |
| tools and the rest | | `fchange`, `ioctl-diag`, `test_blk`, `test_seq`, `int80/`, `hello`, `dependencies/` | | sequential programs that print |

What makes each part correct:

- *sbull, users and medium.* The count is exact; nobody who has the device open
  meets a removed medium; data are wiped only while nobody uses the device; the
  timer exists only while the device is closed and never after the exit function
  has stopped it; an open ends; a device left closed does lose its medium.
- *Requests, in every mode.* No bio is lost or ended twice; a bio is ended after
  its data have been copied, each sector to its place and nowhere else; segments
  are kept apart; a bio that is submitted is ended.
- *The disk, as its users see it.* A read returns every write that had ended
  before it was submitted; what was written stays.
- *dubfl.* Requests and loops stay inside the image; file, image and sizes agree
  between commands; only what was written differs from the file; nothing written
  is lost when the module goes.
- *mpu6050.* The device that is used is one that is bound, and so is the one whose
  word is shown; a word of the sensor becomes the number it stands for. (That the
  word was measured during the show the code does not ensure, see 2.6.)
- *Text interfaces.* Reads stay inside the message, skip nothing and repeat
  nothing; the string keeps its end; a reader comes to an end.
- *Life of a module.* Nothing is released twice or without having been acquired,
  nothing is left behind, and nothing that the kernel can still call has lost
  what it needs.

## 2. Modules

| module | models | built on |
|---|---|---|
| `Sbull` | users, medium, timer and unloading of one sbull device | |
| `Sbull_proofs` | theorems about it | `Sbull` |
| `BlockDevice` | abstract: what a block driver owes to those who submit bios | |
| `BlockDevice_proofs` | theorems about it | `BlockDevice` |
| `RequestModes` | the request functions of xd, sbull, the ram disks, lab2 and dubfl, with the block layer's queue | implements `BlockDevice` |
| `RequestModes_proofs` | theorems about it, the refinement included | `RequestModes`, `BlockDevice_proofs` |
| `Dubfl` | the binding of a disk to a file | its requests are also a driver of `RequestModes` |
| `Dubfl_proofs` | theorems about it | `Dubfl` |
| `TextNode` | files of /proc and /sys, with their readers and writers | |
| `TextNode_proofs` | theorems about it | `TextNode` |
| `Mpu6050` | the i2c sensor: devices, attributes, reading of values, conversions | |
| `Mpu6050_proofs` | theorems about it | `Mpu6050` |
| `Geometry` | what the block drivers answer to `HDIO_GETGEO`, with theorems | |
| `DriverLife` | init and exit of eleven modules | |
| `DriverLife_proofs` | theorems about it | `DriverLife` |

`MC*` modules give them instances. A definition that is followed in a module by
another of nearly the same name, introduced as *a mutant*, is not part of the
model: it is the definition with a plausible bug in it (`OpenDelTimerNoSync`:
`del_timer` for `del_timer_sync`), and stands there to show that a property
breaks when the code is changed that way. `PROJECT.json` lists for each property
of each passing run the mutant that breaks it, for each definition the lines of
code it translates, and the hazards of the code with the properties that would
catch them.

### 2.1 Sbull

Each statement of `sbull_open`, `sbull_release`, `sbull_revalidate` and
`sbull_invalidate` between which something else can happen is an action;
`pc[p]` says where process `p` is. `users++` is a load and a store, so that a lost update
is possible when the lock does not prevent it.

- *The kernel around it* (external): `open` and `release` are called with
  `bd_sem` held (`Serialised = TRUE`), as `do_open` and `blkdev_put` do in the
  2.6 kernels sbull.c is written for; `check_disk_change` asks `sbull_media_changed`
  and on a change calls `sbull_revalidate` and sets `bd_invalidated`, which makes
  the block layer read the partitions again and revalidate a second time, outside
  `dev->lock`. `BLKRRPART` does the same on request. A module is not unloaded
  while a process is inside it or holds the device.
- `Serialised = FALSE` takes `bd_sem` away. That is not a kernel: it asks what
  the driver's own lock is worth.
- *The timer.* `INVALIDATE_DELAY` is not measured: an armed timer may expire at any
  moment, which covers every delay. `del_timer_sync` waits for a handler that is
  running, `Invalidate` needs the lock. `sbull_release` arms the timer (line 229)
  before it gives up the lock (231), so the handler may have to wait for the
  releaser, and for nobody else (`TimerOnlyWhenClosed`). On the releaser's own
  processor it would wait for ever; there only the length of the delay prevents it,
  and the model has a processor for each.
- `data` tells apart four contents (`blank`, `user`, `zero`, `freed`); `removed`
  is a history variable: what is there belongs to a medium that was removed.
- `LockedIO` is false for `RM_NOQUEUE`, where writes come without the lock.
- *Not modelled:* that `check_disk_change` may sleep with a spin lock held; that
  `users` is a `short` (its wrap needs 65536 opens).

### 2.2 BlockDevice and RequestModes

`BlockDevice` has bios of a direction, a place and a length. It copies any set
of the sectors of an active bio, in any order and possibly again; it ends a bio
well when all of it has been copied (`moved`), and with an error only when it is
not file system I/O. There is no order between bios that are active together. `ReadsFresh` and `WritesKept` say what
this is worth to a user; they are not assumed of the drivers but follow.

`RequestModes` has the block layer: bios are submitted, become a request or join
one whose last bio they follow (`Mergeable`), requests are fetched in any order,
ended a segment at a time (`EndSegment`: `__blk_end_request_cur`, `end_request`)
or whole (`EndBio`: `__blk_end_request_all`, `end_that_request_first`). The drivers differ in

- the number of sectors they ask `transfer` for with each segment (`Nsect`) and
  the sector they send it to (`Dest`);
- what they do with requests that are not file system I/O (`Refuse`);
- what they make of a transfer beyond the end (`BeyondEnd`, `Reported`, `NextSegment`);
- what they end after the copy (`EndCurrent`, `EndAll`), and in `make_request`
  whether they hold a lock: they do not, so `MakeTransfer` copies a sector at a time.

A copy that is longer than its segment runs on into memory that is not the
bio's: a read sets `strayed`, a write puts `Stray` on the disk. Nothing
more is said about that memory. `ImplementsBlockDevice` is the refinement:
`BlockDevice!Spec` with `bio` mapped to direction, sector and total length and
the other variables taken as they are. It is a real restriction: a bio ended before
its copy, a sector copied to another place, a bio ended twice are all steps that
`BlockDevice` does not have.

A pseudo-bio of direction `other` stands for a request that is not file system
I/O; `make_request` is never given one. lab2 is not given one either: its
request function ends such a request as if it were done, so that nothing could
be said about it; what is modelled of it is the code for kernels from 2.6.31 on. Bios never run over the end of the disk
(the block layer checks that, `Descriptions`). Mappings (`__bio_kmap_atomic`) are
left out.

### 2.3 Dubfl

Callers run insmod, rmmod and the ioctls statement by statement: the ioctls take no
lock, so that the statements of `load_file`, `unlink_file` and `save_file` and the
two parts of a request (`Request`: the check against `ssize`; `Transfer`: the copy)
can interleave. A statement of C is one step, the one with `vmalloc` in it and a
round of a loop included; the local `fil` and the offsets are each caller's own, `fname`,
`f`, `ssize`, `bsize` and `data` the device's.
`Step(p)` is the next such step of caller `p`.
With `Exclusive = TRUE` they do not: a command starts only when no other runs and
no request is being served, and no request starts while a command runs. That is
an assumption about the use of the disk, stated here because the driver has nothing to
enforce it; `dubfl_concurrent` shows what happens otherwise.

Sizes are counted in sectors, files are functions from sectors to values,
`vmalloc` fails at will and for a size of 0, `filp_open` fails for `Missing`.
`bsize` is a 32 bit number of bytes: it wraps at 2^23 sectors, scaled to `WrapSectors`; the
runs keep files below it. A file's tail that is not a whole sector is not part of the disk.
`vfs_read` and `vfs_write` move one sector each; errors of theirs, which would
make the loops endless, are left out. Opening with `fname` of `NoFile` is the
empty name; insmod without the parameter makes `strcpy` read from NULL (`oops`).
One thing the model shows and no run states: `load_file` stores the new name before it opens the
file, so that after a load that failed `DUBFL_GET_INFO` names a file
that is not the one bound.

### 2.4 TextNode

One module for four kinds of file, which have the same steps; `conf.file`
selects what differs:

- `buffer` (procfs_rw): one length and one position for everybody;
- `node` (fops_rw.c): a terminated string with a position per open file;
- `class` (`sys/xxx.c`, `sys/xxm.c`, `mm/xxx.c`): a terminated string that a show
  copies, up to its end, to a page of the open file, from which sysfs (external)
  serves the reads;
- `broken` (`sys/xxe.c`): the same, but show reports an error when it has copied.

A program opens a file and reads it until it gets 0, as `mcat` does, with any count;
or writes a message with any count. The steps of a call are the end test and
the choice of the count, the clamping, the copy, the advance of the position;
for a show the copy to the page; and for a write the clamping, the copy, and the
new length or terminator.

- Differences that wrap below zero are "more than anything", so nothing is clamped.
- Faults of `copy_to_user` and `copy_from_user` cut a copy of `buffer` short;
  the others ignore them, and their callers' memory is taken to be there.
- `conf.calls` says which calls may overlap. `buffer` is checked with callers
  that take turns (`SharedInTurns`: with reads that overlap, two readers clamp
  their counts by the same position, and the second runs past the message), `node` with reads that
  overlap, and for what it then still keeps, with everything overlapping; files
  of a class with everything overlapping.
- `xxx_store` does not clamp: a message longer than the array would run over it.
  `Counts` gives it what fits.
- A copy is one step. The count of `node_read` comes from a second `strlen`;
  that a write may fall between it and the first is left out.

### 2.5 DriverLife

A module is a list of parts, each a list of steps: `Get(r, undo)` acquires `r`,
and on failure releases what `undo` names and makes the load fail; `Try(r, undo)`
is a step whose failure the init function ignores: it goes on with the next part
(the next device of xd or sbull, the next file of xxm, dubfl without an image,
xxx and xxm without a class). `part` and `step` say where init is, `drop` what is
to be released before it, or exit, goes on. Releases are
plain (`Free`), guarded by a test of the pointer (`FreeIf`), or guarded and
clearing it (`Clear`). `ptr` is what the module's variable holds, `held` what the kernel has given and not
got back.

Which kinds of things may not be had is `conf.fails`. One more thing can go wrong,
`"given"`: `register_blkdev` returns 0 when it succeeds with a number that was given as a
parameter, which xd, sbull and dubfl take for a failure, with the number taken
(`TakenForFailure`). `Provided` lists for each
module the failures that its code provides for, `AsProvided` says that the module
that is there has no others, and `OnlyProvided` that none has. `Provided` is as large
as it can be: with any one failure more of something that the module asks for, it releases
wrongly, leaves something, or is called without what it uses.

dubfl's exit saves the image first, and uses the file for that
(`DubflExitUses`). Without one, because it could not be opened at insmod, rmmod ends in
an oops before anything is released, and the module stays, in use for ever
(`Oops`, `Refused`; `dubfl.fc15.hist` records it). So `Provided` of dubfl
has neither the image nor, since a failed `vmalloc` unbinds the file, the data. That an
ioctl unbinds the file later is the business of `Dubfl`.

`driver_life` runs every module with what it provides for (`Handled`) and with all
failures there are (`Anything`). In the second case the properties say what
the code can still be held to: `NoFault` that only the modules in `Faulty` release
wrongly, `NothingLeft` that no more stays than `Stays` lists; both lists are as short
as they can be. At which line it goes wrong the hazards in `PROJECT.json` say:
xd and sbull leave a pointer to freed memory when the queue or the gendisk cannot be had
(`block_mod_s.c:188`), mpu6050 leaves its i2c driver registered
(`mpu6050.c:215`), block_mod_c.c leaves its queue (`:30`); xxx.c and xxm.c go on without
a class. `xbe` (not in the model) releases nothing at all on failure. `block_mod_s.c` skips `blk_put_queue` before
kernel 3.0 in RM_NOQUEUE; the model is the code of 3.0 and later.

### 2.6 Mpu6050

Shows of several programs run at once: each takes `drv_client`, reads all
registers into the one structure that all share, and prints its attribute out of
that. A measurement is abstracted to whose answer it is; the number of an error,
which the code stores like a measurement, is nobody's (`NoDevice`).

- *The i2c core and sysfs* (external): a device that appears is offered to the
  driver when that is registered; probing may refuse it; `i2c_del_driver`
  unbinds the devices one by one; `class_remove_file` waits for the shows of its
  file (`Drained`).
- With several devices, `drv_client` is the one probed last, and any removal
  clears it, whichever device goes.
- Devices may go away. Those in `Removable` do at any moment, and a show that has taken
  `drv_client` then goes on with a device that is gone: neither the driver nor the
  i2c core prevents it (hazard of line 23). The others go away only while no show
  runs, which is an assumption about how the sensor is used, and what `ClientsAlive`
  promises is about these. With `Removable = {}` it is the promise for a sensor that is
  never pulled out under a show, with `Removable = Devices` it says of shows nothing. Removal at the
  end of the module is modelled in full for all devices; that the files go first is what
  makes it safe.
- `ShowsBound` says whose word a show prints, and no more: it may be an error, and
  it may be older than the show, since another show that was slow between its
  read and its store (one statement of C, but two steps) puts an old word over a new one.
- Init is modelled with what it asks for available; failures are in `DriverLife`.
- `U16`, `S16` and `Temperature` are the conversions, with C's truncating division
  (`Quotient`); theorems of `Mpu6050_proofs` are about them.

### 2.7 Geometry

`GetGeo` (ioctl.c of xbc, xbe, dubfl), `Lab2GetGeo` and `SbullGetGeo` are the
answers to `HDIO_GETGEO`, with `cylinders` of 16 bits. There is no state: the module has
three theorems and no run. dubfl computes its geometry from the parameter `size`,
not from the file it has bound; its answer has nothing to do with its capacity.

## 3. Runs

| run | question | instance | states |
|---|---|---|---|
| `sbull_serialised` | do count, medium, timer and wiping agree, does an open end, does a closed device lose its medium? | 3 processes, load and unload without bound | 517 |
| `sbull_unserialised` | what does `dev->lock` alone give? | 3 processes, symmetry | 2,682 |
| `block_device` | is the promise of a driver enough for its users? | 3 bios, 2 sectors, symmetry | 33,805 |
| `request_bios` | do all modes of all drivers keep it, with bios that join requests? | 3 bios of one segment, 3 sectors, symmetry | 661,912 |
| `request_segments` | and with bios of two segments; does every bio end? | 2 bios, 4 sectors, equal and unequal segments | 239,699 |
| `xd_vector` | is each segment handled independently in the other modes? (violated) | 1 bio of two segments | stops at the first |
| `dubfl_exclusive` | does the image stay inside its memory and agree with the file; does a command end? | 2 callers; files of 0, 1 and 3 sectors, one missing | 746,929 |
| `dubfl_exit` | is `save_file` only called with a file? (violated) | 1 caller | stops at the first |
| `dubfl_concurrent` | is the image used only while it is there? (violated) | 1 caller and requests | stops at the first |
| `text_nodes` | do reads stay inside the message and skip nothing; does a reader end? | 2 programs, messages of up to 2 characters, counts of up to 3 | 160,353 |
| `driver_life` | is everything released, once, in the right order, and what stays when it is not? | 11 modules, each with what it provides for and with every failure; 3 devices | 9,851 |
| `mpu6050` | is the device that is used, and the one whose word is shown, bound? | 2 programs, 2 devices, one of them removable under a show, 2 registers, symmetry | 584,454 |

**Why the bounds are enough.** In `Sbull` a hazard needs an opener, one who
releases and a third who has the device open or is second to open, besides the
timer. Three bios let a request consist of two while a third is on its own or
completed before; two sectors let two bios overlap in part. Bios of two segments
are the shortest that have a segment after the first; `{<<0,1,3>>, <<0,2,3>>}` has the longer one
second and first. Files of 0, 1 and 3 sectors give a load that fails in
vmalloc, one to a smaller and one to a larger image. With two programs one message can be
replaced while it is read; with a capacity of two a message can be read in two
pieces and be one too long. Three devices give `driver_life` a first, a middle and a last.
In `mpu6050` two programs store to the structure in turns, two devices let one go
while the other is the client, one of them also under a show, and with two registers one
is stored and one is not; the theorems take any number of each.
The two files of /proc with a capacity of 3 have two million states and showed no other behaviour in safety.

**Fairness.** *Sbull:* a process inside the kernel is scheduled, an armed timer
expires and its handler ends (weak fairness of `InKernel(p)`, `Expire`,
`Invalidate`); nothing is assumed about users opening, writing, releasing. This
is enough because locks are held for one or a few steps and `bd_sem` is not needed by those who are inside.
*RequestModes:* the block layer calls the request function while its queue
is not empty, and driver code goes on (weak fairness of `RequestFn` as a whole and of each
`MakeRequest(b)`); which request is fetched is left open, and still each one is
served because no more than the bios there are can come. *TextNode:* a call that
was made goes on (weak), and a program in its loop gets its turn although others
may take theirs before (strong fairness of `ReadBegin`: with `calls = "reads"` a
write of somebody else disables it again and again). *Dubfl:* a thread that is in the
driver goes on (weak fairness of `Step(p)`), which with `Exclusive` nothing can
disable; nothing is assumed about commands being given. A `vfs_read` or `vfs_write`
that moves nothing for ever is not in the model. `DriverLife` and `Mpu6050` state safety only.

**Deadlock** is checked in `sbull_serialised`, `dubfl_exclusive`, `dubfl_concurrent`,
`text_nodes`, `mpu6050` and `driver_life`. It is off where the system may stop: every bio has
ended, or (`sbull_unserialised`, `dubfl_exit`) a BUG or an oops has stopped the
process. In `driver_life` a module that is stuck after an oops refuses what is asked
of it for ever (`Refused`), so that stopping anywhere else would be found.

## 4. What the code does otherwise than it says

Three drivers disagree with their own comments or checks; each of the runs below
ends in a counterexample.

1. `xd_vector`: block_mod_s.c:50 says that every segment of a bio is
   handled independently. `xfer_bio` asks for `bio_sectors( bio )`, all that is left of the bio,
   with every segment (lines 58, 61). Right for bios of one segment only.
   sbull.c:135 says the same, and asks for `bio_cur_sectors( bio )` (lines
   138, 140), the length of the first segment: right for equal segments only. With
   `Configs <- SbullVector` in `MCRequestModes_xd_vector.cfg` the run ends in a
   counterexample for sbull, too.
2. `dubfl_exit`: `DUBFL_SAVE_DISK` checks that there is a file (dubfl.c:175), `blk_exit` does
   not (line 243). dubfl.fc15.hist records the oops.
3. `dubfl_concurrent`: dubfl.c:15 says that `data` is the image; ioctls free and
   replace it while a request is between check and copy.

Theorems show four more, which need no run:

- `Lab2GeometryWraps`: lab2_block.c:56 wants the total capacity; bytes are taken for
  sectors, and the default of 128 MB is reported as a disk of no cylinders.
- `SbullGeometryTooLarge`: sbull.c:296 reports 512 times the disk.
- `TemperatureTooWarm`: below -0.5 degrees the temperature printed is too warm by
  half a degree to one and a half (mpu6050.c:40).
- `ErrorsReadAsMeasurements`: an error of the bus becomes a measurement (mpu6050.c:29).

## 5. Proofs

`Sbull_proofs`, for any finite set of processes:

- `LockInvariant` (`Spec => []LockInv`), **with or without** `bd_sem`. `LockInv` is
  inductive and says: the lock's owner is the one process in the locked part of
  open or release; a count that has been loaded is the count; the process that checks
  and revalidates is the first opener; a removed medium is flagged; a module
  that is not live has no processes; and the properties themselves.
  `UsersExact` alone is not inductive: a stored count is right only because the value loaded before is, and
  that only because nobody else can be between load and store.
- From it `TypeCorrect`, `UsersExactHolds`, `NoStaleMediumHolds`,
  `NoTimerAfterExitHolds`, `WipeOnlyUnusedHolds` (an action property).
- With `Serialised`, `TimerInv` adds that whoever is inside the driver owns
  `bd_sem`, and that a timer that is armed or running has nobody past
  `del_timer_sync` but the releaser that armed it; it gives `TimerOnlyWhenClosedHolds` and `NoOopsHolds`
  (`add_timer` never finds the timer armed).

`BlockDevice_proofs`, for any set of bios and any size (`SizeAssumption`):

- `Invariance` (`Spec => []IInv`). `ReadsFresh` and `WritesKept` speak of bios
  that have ended; `IInv` says the same of every sector already copied
  (`FreshSoFar`, `KeptSoFar`), and that `before` names bios that have ended, that
  a bio not yet submitted has copied nothing and one that ended well everything
  (`Accounted`).
- From it `TypeCorrect`, `ReadsFreshHolds`, `WritesKeptHolds`.

`Dubfl_proofs`, for any number of callers, any set of files of any sizes:

- `TypeCorrect`, with the statements of commands and requests interleaved as they like;
  it does not say that the sizes fit the file, which then they need not.
- With `Exclusive` (one command at a time, no request during a command) and
  `FilesFit` (files that `bsize` can count), `Inv`: the device is `Bound` or
  `Unbound` whenever no command runs, and in the middle of one it is as that
  command left it (`Midway`). `PartsAgree` alone is not inductive, since it says
  nothing of a command under way, which is where files change and memory fails.
  From `Inv`: `NothingWild`, `ThePartsAgree`.
- `Copied` adds how far the loops have come (`Progress`): what has been loaded is
  the file's, what has been saved is no longer dirty. From it `TheImageIsTheFile`
  and `ExitSaves`.

`RequestModes_proofs`, for any number of bios, any shapes, a disk of any size, and
all drivers:

- In every mode, sound or not, `Invariance` (`Spec => []RInv`). `RInv` is `TypeOK`
  with where each bio has got to (`Positions`) and what the lists hold
  (`Accounted`: every active bio of a queue is at exactly one place of exactly one
  list, and every place holds an active bio). `OneRequestEach` counts and does not
  say that places differ within the request being served, from which bios are
  dropped one at a time; `TypeOK` alone does not bound what a segment's copy asks
  for. From it `TypeCorrect` and `OneRequestEachHolds`.
- With `AllSound` (every configuration asks for a segment's own sectors, as the
  simple functions always do, and the others for bios of one segment, sbull's also
  for equal segments), `SoundInvariance` (`Spec => []SInv`). `SInv` adds for each
  bio that what lies before the next sector to be copied has been copied, within
  the bio and to its own place (`Covered`); `OwnSectors` is the lemma
  that the arithmetic of `Nsect` and `Dest` comes to exactly the segment's sectors.
  From it `SegmentsIndependentHolds` and `Implements`
  (`Spec => ImplementsBlockDevice`): each transfer maps to a copy of
  `BlockDevice`, each end of a bio to an end there, everything else to a stutter.
- `ReadsFreshHere` and `WritesKeptHere` put the refinement together with the theorems of
  `BlockDevice_proofs`: what is proved of the promise holds of the drivers.

`MCRequestModes` assumes, and TLC evaluates, that the configurations of the passing runs are
sound and those of `xd_vector` are not.

`TextNode_proofs`, for any capacity and any number of programs:

- `AlwaysTerminated` and `TypeCorrect`, whatever overlaps. The invariant of the first adds that a write under
  way is no longer than the capacity, which the terminator's place depends on.
- With `SharedInTurns`, `Invariance` (`Spec => []IInv`). `ReadsInside` says nothing of
  a count that has been clamped and not yet copied; `IInv` says that it ends inside
  the message until the copy (`Positions`), which needs that no write comes between
  (`Exclusive`), and that what has been read is the beginning of the one
  message or page it is read from (`Sources`). The place of the first NUL is found with
  `WellFoundedInduction`. From it `ReadsInsideHolds` and `ConsecutiveHolds`.

`DriverLife_proofs`, for any number of devices:

- `Sound(c)` is what can be said of the lists of a module without running it:
  each thing is asked for once (`Distinct`), a disk or a file when what it uses is there
  (`FrontLast`), and a failure that ends init, like exit, releases everything that was got, once,
  looking at the pointer wherever the thing may be missing, and disks and files
  before what they use (`UndoFits`, `Returns`).
- `SoundInvariance`: a module whose lists are sound keeps `IInv`, which
  ties the pointers to where init is (`Coming`), and the releases that are left to what
  is still there and to its order (`Going`, `Ordered`). `NoFault` and `NothingLeft` only
  look back at what has gone wrong and are not inductive without it.
- `XdSound` to `XxxSound` show that the lists of each of the eleven modules are
  sound for the failures in `Provided`. With `OnlyProvided`: `TypeCorrect`, `NoFaultHolds`,
  `NothingLeftHolds`, `BackedHolds`, in which case they are about everything: no wrong release,
  nothing that stays. What `NoFault` and `NothingLeft` say of the other failures (`Faulty`,
  `Stays`) is model-checked only.
- `NoMistakes`: with `OnlyProvided` no step is `TakenForFailure` or `Oops`. For dubfl this is where the proof
  needs that its exit has the file (`SureOfItself`).

`Mpu6050_proofs`, for any number of programs, devices and attributes:

- For any choice of `Removable`: `TypeCorrect`; `ClientsAreAlive`, from an invariant that
  ties files, shows and the driver's life together (when the driver is let go there are
  no files and no shows); `ShowsAreBound`, from one that says of a show half way that
  every register it has passed is from a known device, whoever stored it last (`KnownSoFar`), and
  that no device stops being known while a show is under way (`KnownStay`).
- The conversions: `WordsAreMeasurements` (two's complement: the number of 16 bits with a
  sign that is the word modulo 65536), `TemperatureRounded`, `TemperatureTooWarm`, `ErrorsReadAsMeasurements`.

`Geometry`: `RamGeometryIsCapacity` (xbc and xbe describe their whole disk, for every
size below 2048 MB), `Lab2GeometryWraps`, `SbullGeometryTooLarge`.

Besides `Serialised`, `Exclusive`, `FilesFit`, `AllSound`, `SharedInTurns` and `OnlyProvided`,
which are stated in the theorems that need them, the
only assumptions are the `ASSUME`s of the modules: finite sets of processes,
Booleans, numbers that are natural, model values that differ. What is assumed of the
use of mpu6050 is a parameter, `Removable`, which the theorems name. None of the six is
idle: without `Serialised` and `Exclusive` the runs `sbull_unserialised` and
`dubfl_concurrent` show what remains, `xd_vector` is a configuration that is not
sound, and for `SharedInTurns` and `OnlyProvided` see 2.4 and 2.5.

*Only model-checked:* liveness (`OpenCompletes`, `ClosedIsRemoved`, `EveryBioEnds`,
`CommandsEnd`, `ReaderEnds`) and the absence of deadlock, which with `ENABLED` is out of the prover's reach, and that the three violated runs
end in a counterexample. Every invariant of a passing run is a
theorem, those of `driver_life` for the failures provided for. No module declares a RECURSIVE
operator; what an operator defined by recursion returns for all inputs could not
be proved either.

## 6. Not modelled, and why

- `fchange.c`, `ioctl-diag.c`, `test_blk.c`, `test_seq.c`, `lab2_block_test.c`,
  `int80/`, `hello/`: sequential programs that print or ask; the calls they make are actions of
  the models above.
- `141.c` to `143.c`: fragments of drivers for hardware that does not exist;
  `lab2_block_OLD` and the request function of `lab2_block.c` for kernels before
  2.6.31: the same loop with the older interface.
- `dependencies/`: a counter shared by two modules, whose order of loading the kernel sees to.
- `DUBFL_GET_INFO`, major numbers: replies that change nothing.
- Modules for kernels up to 3.9 in `examples.245.proc` (`mod_2.c`, `mod_procr.c`,
  `mod_procr2.c`): the same init and exit, and a function that copies a constant.

## 7. What could come next

1. Proofs of the converse: that in a configuration that is not sound some segment is
   asked for more or less than its own sectors, so that `Sound` is the exact condition; that
   `Provided` cannot be larger, and `Faulty` and `Stays` are enough, for any number of devices; what still
   holds of `buffer` when its reads overlap.
2. A composition of `Sbull` with its requests, so that a write of an open device
   is a bio of `BlockDevice`.
3. A promise about a sensor that is removed under a show, and about files of dubfl that are cut
   while they are loaded, once the code has an answer to them.
