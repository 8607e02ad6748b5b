------------------------------- MODULE RequestModes -------------------------------
(***************************************************************************)
(* The request functions of lesson-13-block-devices: those of xd           *)
(* (block_mod.LDD3/block_mod_s.c) and of sbull, the driver it was ported   *)
(* from (original/sbull.c), in their three request modes; the one that the *)
(* ram disks xbc and xbe share (request.c) and the one it was written      *)
(* after, of lab2 (block_mod.LDD_35/original); and that of dubfl.          *)
(*                                                                         *)
(* In RM_SIMPLE and RM_FULL the block layer calls the driver's request     *)
(* function, which serves requests with the queue's lock held until there  *)
(* are none; in RM_NOQUEUE make_request runs in every submitter at once,   *)
(* with no queue and no lock.                                              *)
(*                                                                         *)
(* A bio is a run of sectors on the disk and a list of segments of memory. *)
(* A shape gives where its segments start and end: <<0, 1, 3>> has one     *)
(* segment of one sector and one of two.  A segment ends where its page    *)
(* does: what lies behind it in memory is not the bio's.  A request that   *)
(* is not file system I/O is a bio of direction "other"; make_request is   *)
(* given no such thing, and lab2, which ends it as if it were done, is not *)
(* here either.                                                            *)
(***************************************************************************)
EXTENDS Integers, Sequences

CONSTANTS
    Bios,      \* each is submitted once
    Size,      \* sectors of the disk
    Blank,     \* what a sector or a buffer holds before anything is copied
    Stray,     \* memory that is not the bio's
    Configs    \* each a driver, its request mode and the shapes of its bios

Drivers == {"xd", "sbull", "ram", "lab2", "dubfl"}
Modes   == {"RM_SIMPLE", "RM_FULL", "RM_NOQUEUE"}
\* The ram disks and dubfl serve requests in the simple way only.
HasMode(d, m) == m = "RM_SIMPLE" \/ d \in {"xd", "sbull"}

IsShape(sh) ==
    /\ sh \in Seq(Nat) /\ Len(sh) > 1 /\ sh[1] = 0
    /\ \A i, j \in DOMAIN sh : i < j => sh[i] < sh[j]

ASSUME ConfigsAssumption ==
    /\ Size \in Nat \ {0}
    /\ Stray \notin {Blank} \cup (Bios \X (0 .. Size - 1))
    /\ \A c \in Configs :
          /\ c.driver \in Drivers /\ c.mode \in Modes
          /\ HasMode(c.driver, c.mode)
          /\ \A sh \in c.shapes : IsShape(sh)

VARIABLES
    conf,    \* which driver, loaded with which parameter
    bio,     \* what each bio asks for
    st,      \* where each bio is
    idx,     \* bi_idx: the segments the block layer has accounted for
    seg,     \* the segment that is copied next
    off,     \* and, in make_request, the sector of it
    failed,  \* an error was reported for a part of the bio
    queue,   \* the requests on the queue, each a sequence of adjacent bios
    rq,      \* the request being served; << >> outside the request function
    disk,    \* dev->data, sector by sector
    buf,     \* the memory of the bios that read
    strayed, \* history: memory that is not the bio's was written
    moved,   \* history: the sectors of each bio that have been copied
    before   \* history: the bios that had ended when this one was submitted

layerVars == <<bio, st, idx, failed, queue, rq, before>>
copyVars  == <<disk, buf, strayed, moved>>
vars == <<conf, layerVars, seg, off, copyVars>>

Sectors == 0 .. Size - 1
Dirs    == {"read", "write", "other"}
Total(sh) == sh[Len(sh)]
Segments(b) == Len(bio[b].shape) - 1

\* What the block layer accepts: bios that do not run over the end.
Descriptions ==
    {d \in [dir : Dirs, sector : Sectors, shape : conf.shapes] :
        d.sector + Total(d.shape) =< Size}

Queued == conf.mode # "RM_NOQUEUE"
Ended  == {b \in Bios : st[b] \in {"ok", "err"}}

Init ==
    /\ conf \in Configs
    /\ bio \in [Bios -> Descriptions]
    /\ (Queued /\ conf.driver # "lab2") \/ \A b \in Bios : bio[b].dir # "other"
    /\ st  = [b \in Bios |-> "new"]
    /\ idx = [b \in Bios |-> 0]
    /\ seg = [b \in Bios |-> 1]
    /\ off = [b \in Bios |-> 0]
    /\ failed = [b \in Bios |-> FALSE]
    /\ queue = {} /\ rq = << >>
    /\ disk = [s \in Sectors |-> Blank]
    /\ buf  = [b \in Bios |-> [o \in Sectors |-> Blank]]
    /\ strayed = FALSE
    /\ moved  = [b \in Bios |-> {}]
    /\ before = [b \in Bios |-> {}]

-----------------------------------------------------------------------------
\* The block layer.

\* The bio follows the last bio of request q on the disk, in the same direction.
Mergeable(q, b) ==
    LET last == bio[q[Len(q)]] IN
    /\ last.dir = bio[b].dir /\ bio[b].dir # "other"
    /\ last.sector + Total(last.shape) = bio[b].sector

\* A bio becomes a request, joins one, or is given to make_request.
Submit(b) ==
    /\ st[b] = "new" /\ rq = << >>
    /\ st' = [st EXCEPT ![b] = "active"]
    /\ before' = [before EXCEPT ![b] = Ended]
    /\ \/ ~Queued /\ UNCHANGED queue
       \/ Queued /\ queue' = queue \cup {<<b>>}
       \/ Queued /\ \E q \in queue :
             /\ Mergeable(q, b)
             /\ queue' = (queue \ {q}) \cup {Append(q, b)}
    /\ UNCHANGED <<conf, bio, idx, seg, off, failed, rq, copyVars>>

\* blk_fetch_request, elv_next_request: the elevator gives any request, or none
\* is left.
Fetch ==
    IF queue = {}
    THEN rq' = << >> /\ UNCHANGED queue
    ELSE \E q \in queue : rq' = q /\ queue' = queue \ {q}

\* The block layer calls the request function.
CallRequestFn ==
    /\ rq = << >> /\ queue # {}
    /\ Fetch
    /\ UNCHANGED <<conf, bio, st, idx, seg, off, failed, before, copyVars>>

\* bio_endio.
EndStatus(bad) == IF bad THEN "err" ELSE "ok"

InRequest(b) == \E k \in DOMAIN rq : rq[k] = b

\* A segment of the request has been accounted for, and rest is what is left of
\* it: the loop goes on with that or with the next request.  A mutant does not
\* look at what is left.
FetchAlways(rest) == Fetch
GoOn(rest) ==
    IF rest # << >> THEN rq' = rest /\ UNCHANGED queue ELSE Fetch

\* The current segment is the last of its bio.  A mutant counts from 0.
LastSegmentFrom0(b) == idx[b] = Segments(b)
LastSegment(b) == idx[b] + 1 = Segments(b)

\* __blk_end_request_cur, end_request: the block layer accounts for the current
\* segment of the request.  When it was the last of its bio, the bio ends.
EndSegment(bad) ==
    LET b    == rq[1]
        done == LastSegment(b)
    IN
    /\ idx' = [idx EXCEPT ![b] = @ + 1]
    /\ failed' = [failed EXCEPT ![b] = @ \/ bad]
    /\ st' = [st EXCEPT ![b] = IF done THEN EndStatus(failed'[b]) ELSE @]
    /\ seg' = [c \in Bios |-> IF InRequest(c) THEN idx'[c] + 1 ELSE seg[c]]
    /\ GoOn(IF done THEN Tail(rq) ELSE rq)
    /\ UNCHANGED <<conf, bio, off, before, copyVars>>

\* __blk_end_request_all, and end_that_request_first for all the sectors of the
\* request, end its bios one by one: the first that is left.
EndBio(status) ==
    /\ st' = [st EXCEPT ![rq[1]] = status]
    /\ GoOn(Tail(rq))
    /\ UNCHANGED <<conf, bio, idx, seg, off, failed, before, copyVars>>

-----------------------------------------------------------------------------
\* transfer, and what the drivers ask it to copy.

Length(b, i) == bio[b].shape[i + 1] - bio[b].shape[i]

\* The number of sectors asked for with segment i of bio b.  xd's xfer_bio takes
\* bio_sectors, all that is left of the bio ...
XdNsect(b) == Total(bio[b].shape) - bio[b].shape[idx[b] + 1]
\* ... sbull_xfer_bio takes bio_cur_sectors, the first segment that is left ...
SbullNsect(b) == Length(b, idx[b] + 1)
\* ... and the simple request functions take the current segment of the request,
\* which is segment i.  A mutant takes what xfer_bio takes.
NsectOfBio(b, i) == IF conf.driver = "xd" THEN XdNsect(b) ELSE SbullNsect(b)
Nsect(b, i) ==
    IF conf.mode = "RM_SIMPLE" THEN Length(b, i)
    ELSE IF conf.driver = "xd" THEN XdNsect(b) ELSE SbullNsect(b)

\* The sector it goes to: past what is accounted for, and past the segments
\* that this call of xfer_bio has copied.  A mutant stays at the bio's start.
DestOfBio(b, i) == bio[b].sector + (i - idx[b] - 1) * Nsect(b, i)
Dest(b, i) ==
    bio[b].sector + bio[b].shape[idx[b] + 1] + (i - idx[b] - 1) * Nsect(b, i)

\* The only check that is made of a transfer: sbull and lab2 print a line, the
\* others report an error.
BeyondEnd(b, i) == Dest(b, i) + Nsect(b, i) > Size
Reported == conf.driver \notin {"sbull", "lab2"}

\* What is not file system I/O is refused: by xd and dubfl whole, by the others
\* segment by segment.  dubfl treats what runs over the end in the same way.
Refused ==
    /\ rq # << >>
    /\ \/ bio[rq[1]].dir = "other"
       \/ conf.driver = "dubfl" /\ BeyondEnd(rq[1], idx[rq[1]] + 1)

Refuse ==
    /\ Refused
    /\ \/ conf.driver \in {"xd", "dubfl"} /\ EndBio("err")
       \/ conf.driver \notin {"xd", "dubfl"} /\ EndSegment(conf.driver # "lab2")

\* Where in the bio sector j of the copy lies; past the segment, nowhere.
InSegment(b, i, j) == j < Length(b, i)
Offset(b, i, j) == bio[b].shape[i] + j

Payload(b, i, j) ==
    IF InSegment(b, i, j) THEN <<b, Offset(b, i, j)>> ELSE Stray

\* memcpy of the sectors J of the copy with segment i of bio b.
Copy(b, i, J) ==
    LET dest == Dest(b, i)
        own  == {j \in J : InSegment(b, i, j)}
    IN
    /\ \/ /\ bio[b].dir = "write"
          /\ disk' = [s \in Sectors |-> IF s - dest \in J
                                        THEN Payload(b, i, s - dest)
                                        ELSE disk[s]]
          /\ UNCHANGED <<buf, strayed>>
       \/ /\ bio[b].dir = "read"
          /\ buf' = [buf EXCEPT ![b] = [o \in Sectors |->
                        IF o - bio[b].shape[i] \in own
                        THEN disk[dest + o - bio[b].shape[i]]
                        ELSE buf[b][o]]]
          /\ strayed' = (strayed \/ own # J)
          /\ UNCHANGED disk
    /\ moved' = [moved EXCEPT ![b] = @ \cup {Offset(b, i, j) : j \in own}]

-----------------------------------------------------------------------------
\* simple_request and full_request.

\* The request is one for the driver.
Serving == rq # << >> /\ ~Refused

\* simple_request, sbull_request and my_request: the current segment of the
\* request.
SimpleTransfer ==
    /\ Serving /\ conf.mode = "RM_SIMPLE"
    /\ LET b == rq[1] IN
          /\ seg[b] = idx[b] + 1
          /\ seg' = [seg EXCEPT ![b] = @ + 1]
          /\ \/ /\ BeyondEnd(b, seg[b])
                /\ failed' = [failed EXCEPT ![b] = @ \/ Reported]
                /\ UNCHANGED copyVars
             \/ /\ ~BeyondEnd(b, seg[b])
                /\ Copy(b, seg[b], 0 .. Nsect(b, seg[b]) - 1)
                /\ UNCHANGED failed
    /\ UNCHANGED <<conf, bio, st, idx, off, queue, rq, before>>

\* xfer_bio after an error: xd's gives up on the bio, sbull's goes on.
NextSegment(b) == IF Reported THEN Segments(b) + 1 ELSE seg[b] + 1

\* full_request: xfer_request goes through all the bios that are left of the
\* request and xfer_bio through all their segments; xfer_request does not look
\* at xfer_bio's errors.
FullTransfer ==
    /\ Serving /\ conf.mode = "RM_FULL"
    /\ \E k \in DOMAIN rq :
          LET b == rq[k] IN
          /\ \A n \in 1 .. k - 1 : seg[rq[n]] > Segments(rq[n])
          /\ seg[b] =< Segments(b)
          /\ \/ /\ BeyondEnd(b, seg[b])
                /\ seg' = [seg EXCEPT ![b] = NextSegment(b)]
                /\ UNCHANGED copyVars
             \/ /\ ~BeyondEnd(b, seg[b])
                /\ seg' = [seg EXCEPT ![b] = @ + 1]
                /\ Copy(b, seg[b], 0 .. Nsect(b, seg[b]) - 1)
    /\ UNCHANGED <<conf, layerVars, off>>

\* The driver has copied what it copies before it ends something.  A mutant
\* ends it first.
TransferredOrNot == TRUE
Transferred ==
    \/ conf.mode = "RM_SIMPLE" /\ seg[rq[1]] = idx[rq[1]] + 2
    \/ conf.mode = "RM_FULL" /\ \A k \in DOMAIN rq : seg[rq[k]] > Segments(rq[k])

\* simple_request, sbull_request and full_request end the current segment,
\* although full_request has copied all of the request.
EndCurrent ==
    /\ Serving /\ Transferred
    /\ conf.mode = "RM_SIMPLE" \/ conf.driver = "xd"
    /\ EndSegment(FALSE)

\* sbull_full_request ends all that sbull_xfer_request has gone through.
EndAll ==
    /\ Serving /\ Transferred
    /\ conf.mode = "RM_FULL" /\ conf.driver = "sbull"
    /\ EndBio("ok")

-----------------------------------------------------------------------------
\* make_request, in the process that submitted the bio.

Making(b) == ~Queued /\ st[b] = "active"

\* xfer_bio copies with no lock: other processes copy between two sectors.
MakeTransfer(b) ==
    /\ Making(b) /\ seg[b] =< Segments(b)
    /\ \/ /\ off[b] = 0 /\ BeyondEnd(b, seg[b])
          /\ seg' = [seg EXCEPT ![b] = NextSegment(b)]
          /\ failed' = [failed EXCEPT ![b] = @ \/ Reported]
          /\ UNCHANGED <<off, copyVars>>
       \/ /\ off[b] > 0 \/ ~BeyondEnd(b, seg[b])
          /\ Copy(b, seg[b], {off[b]})
          /\ IF off[b] + 1 < Nsect(b, seg[b])
             THEN off' = [off EXCEPT ![b] = @ + 1] /\ UNCHANGED seg
             ELSE off' = [off EXCEPT ![b] = 0] /\ seg' = [seg EXCEPT ![b] = @ + 1]
          /\ UNCHANGED failed
    /\ UNCHANGED <<conf, bio, st, idx, queue, rq, before>>

\* bio_endio( bio, status ).
MakeEnd(b) ==
    /\ Making(b) /\ seg[b] > Segments(b)
    /\ st' = [st EXCEPT ![b] = EndStatus(failed[b])]
    /\ UNCHANGED <<conf, bio, idx, seg, off, failed, queue, rq, before, copyVars>>

-----------------------------------------------------------------------------
RequestFn ==
    \/ CallRequestFn \/ Refuse
    \/ SimpleTransfer \/ FullTransfer \/ EndCurrent \/ EndAll
MakeRequest(b) == MakeTransfer(b) \/ MakeEnd(b)

Next ==
    \/ RequestFn
    \/ \E b \in Bios : Submit(b) \/ MakeRequest(b)

Spec == Init /\ [][Next]_vars

\* The block layer calls the request function while the queue is not empty, a
\* processor that runs driver code goes on with it.
FairSpec ==
    Spec /\ WF_vars(RequestFn) /\ \A b \in Bios : WF_vars(MakeRequest(b))

-----------------------------------------------------------------------------
Contents == {Blank, Stray} \cup (Bios \X Sectors)

\* Type invariant.
TypeOK ==
    /\ conf \in Configs
    /\ bio \in [Bios -> Descriptions]
    /\ st \in [Bios -> {"new", "active", "ok", "err"}]
    /\ idx \in [Bios -> Nat] /\ seg \in [Bios -> Nat \ {0}] /\ off \in [Bios -> Nat]
    /\ \A b \in Bios : /\ idx[b] =< Segments(b) /\ idx[b] < seg[b]
                       /\ seg[b] =< Segments(b) + 1
    /\ failed \in [Bios -> BOOLEAN]
    /\ queue \subseteq Seq(Bios) /\ rq \in Seq(Bios)
    /\ disk \in [Sectors -> Contents]
    /\ buf \in [Bios -> [Sectors -> Contents]]
    /\ strayed \in BOOLEAN
    /\ moved \in [Bios -> SUBSET Sectors]
    /\ before \in [Bios -> SUBSET Bios]

\* Each active bio of the queued modes is at one place of one request: none is
\* lost or served twice, when bios join requests and requests are fetched.
Requests == queue \cup (IF rq = << >> THEN {} ELSE {rq})
OneRequestEach ==
    Queued =>
        \A b \in Bios : st[b] = "active" <=>
            \E q \in Requests : \E k \in DOMAIN q :
                /\ q[k] = b
                /\ \A r \in Requests : \A n \in DOMAIN r :
                      r[n] = b => r = q /\ n = k

\* "Each segment is handled independently": no copy made for a segment goes on
\* to memory behind it.
SegmentsIndependent == ~strayed /\ \A s \in Sectors : disk[s] # Stray

\* A configuration in which a segment's own sectors are asked for.  The simple
\* request functions copy one segment at a time.  The others go through segments as
\* if those that are left were of one length, sbull's that of the first, xd's that
\* of all together.
Sound(c) ==
    \/ c.mode = "RM_SIMPLE"
    \/ \A sh \in c.shapes : Len(sh) = 2
    \/ c.driver = "sbull" /\ \A sh \in c.shapes : \A i \in DOMAIN sh :
                                sh[i] = (i - 1) * sh[2]
AllSound == \A c \in Configs : Sound(c)

\* What BlockDevice promises of every bio and every sector.
Device == INSTANCE BlockDevice WITH
    bio <- [b \in Bios |-> [dir    |-> bio[b].dir,
                            sector |-> bio[b].sector,
                            len    |-> Total(bio[b].shape)]]
ImplementsBlockDevice == Device!Spec

\* A bio that was submitted is ended.
EveryBioEnds == \A b \in Bios : st[b] = "active" ~> st[b] \in {"ok", "err"}
=============================================================================
