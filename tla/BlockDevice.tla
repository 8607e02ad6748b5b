---------------------------- MODULE BlockDevice ----------------------------
(***************************************************************************)
(* What a block driver owes to those who submit bios to it, in any of the  *)
(* request modes: every sector of a bio is copied between the place on the *)
(* disk and the place in memory that the bio names and nowhere else, only  *)
(* while the bio is the driver's; a bio ends well only when all its        *)
(* sectors have been copied; only what is not file system I/O ends badly.  *)
(* Nothing is said of the order in which bios, or their sectors, are       *)
(* served.                                                                 *)
(***************************************************************************)
EXTENDS Integers

CONSTANTS
    Bios,    \* each is submitted once
    Size,    \* sectors of the disk
    Blank    \* what a sector or a buffer holds before anything is copied to it

ASSUME SizeAssumption == Size \in Nat \ {0}

VARIABLES
    bio,     \* what each bio asks for
    st,      \* where each bio is
    disk,    \* the contents of the sectors
    buf,     \* the memory of the bios that read
    moved,   \* the sectors of each bio that have been copied
    before   \* history: the bios that had ended when this one was submitted

vars == <<bio, st, disk, buf, moved, before>>

Sectors == 0 .. Size - 1
Dirs    == {"read", "write", "other"}   \* "other" is not file system I/O

\* The block layer refuses bios that run over the end of the disk.
Fits(sector, len) == sector + len =< Size

Requests == {r \in [dir : Dirs, sector : Sectors, len : 1 .. Size] :
                Fits(r.sector, r.len)}

Offsets(b) == 0 .. bio[b].len - 1
Ended      == {b \in Bios : st[b] \in {"ok", "err"}}

\* What a bio that writes carries at an offset.  A mutant: one sector further.
PayloadShifted(b, o) == <<b, o + 1>>
Payload(b, o) == <<b, o>>
Contents == {Blank} \cup (Bios \X Sectors)

Init ==
    /\ bio \in [Bios -> Requests]
    /\ st = [b \in Bios |-> "new"]
    /\ disk = [s \in Sectors |-> Blank]
    /\ buf = [b \in Bios |-> [o \in Sectors |-> Blank]]
    /\ moved = [b \in Bios |-> {}]
    /\ before = [b \in Bios |-> {}]

Submit(b) ==
    /\ st[b] = "new"
    /\ st' = [st EXCEPT ![b] = "active"]
    /\ before' = [before EXCEPT ![b] = Ended]
    /\ UNCHANGED <<bio, disk, buf, moved>>

Write(b, O) ==
    /\ bio[b].dir = "write"
    /\ disk' = [s \in Sectors |-> IF s - bio[b].sector \in O
                                  THEN Payload(b, s - bio[b].sector)
                                  ELSE disk[s]]
    /\ UNCHANGED buf

Read(b, O) ==
    /\ bio[b].dir = "read"
    /\ buf' = [buf EXCEPT ![b] = [o \in Sectors |->
                  IF o \in O THEN disk[bio[b].sector + o] ELSE buf[b][o]]]
    /\ UNCHANGED disk

\* Some of its sectors are copied, possibly not for the first time.
Move(b) ==
    /\ st[b] = "active"
    /\ \E O \in SUBSET Offsets(b) :
          /\ Write(b, O) \/ Read(b, O)
          /\ moved' = [moved EXCEPT ![b] = @ \cup O]
    /\ UNCHANGED <<bio, st, before>>

\* Every sector has been copied.  A mutant: some have.
SomeCopied(b) == moved[b] # {}
AllCopied(b)  == moved[b] = Offsets(b)

Succeed(b) ==
    /\ st[b] = "active" /\ bio[b].dir # "other"
    /\ AllCopied(b)
    /\ st' = [st EXCEPT ![b] = "ok"]
    /\ UNCHANGED <<bio, disk, buf, moved, before>>

Fail(b) ==
    /\ st[b] = "active" /\ bio[b].dir = "other"
    /\ st' = [st EXCEPT ![b] = "err"]
    /\ UNCHANGED <<bio, disk, buf, moved, before>>

Next == \E b \in Bios : Submit(b) \/ Move(b) \/ Succeed(b) \/ Fail(b)

Spec == Init /\ [][Next]_vars

-----------------------------------------------------------------------------
\* Type invariant.
TypeOK ==
    /\ bio \in [Bios -> Requests]
    /\ st \in [Bios -> {"new", "active", "ok", "err"}]
    /\ disk \in [Sectors -> Contents]
    /\ buf \in [Bios -> [Sectors -> Contents]]
    /\ moved \in [Bios -> SUBSET Sectors]
    /\ before \in [Bios -> SUBSET Bios]

\* The bio whose payload for sector s is the value v.
Wrote(b, s, v) ==
    bio[b].dir = "write" /\ s - bio[b].sector \in Offsets(b)
        /\ v = Payload(b, s - bio[b].sector)

\* The write d of sector s was over before bio b was submitted.
WriteBefore(d, b, s) ==
    d \in before[b] /\ bio[d].dir = "write" /\ s - bio[d].sector \in Offsets(d)

\* A value v of sector s is one that bio b may see: it is not older than a
\* write that was over when b was submitted.
MaySee(b, s, v) ==
    \A d \in Bios : WriteBefore(d, b, s) =>
        \E c \in Bios : Wrote(c, s, v) /\ ~WriteBefore(c, d, s)

\* A read that ended well sees every write that had ended before it was
\* submitted, unless a write that did not end before that one replaced it.
ReadsFresh ==
    \A r \in Bios : st[r] = "ok" /\ bio[r].dir = "read" =>
        \A o \in Offsets(r) : MaySee(r, bio[r].sector + o, buf[r][o])

\* Data written stays on the disk: a sector of a write that ended holds that
\* write's data or that of a write that was not over when it was submitted.
WritesKept ==
    \A d \in Bios : st[d] = "ok" /\ bio[d].dir = "write" =>
        \A o \in Offsets(d) :
            \E c \in Bios : /\ Wrote(c, bio[d].sector + o, disk[bio[d].sector + o])
                            /\ ~WriteBefore(c, d, bio[d].sector + o)
=============================================================================
