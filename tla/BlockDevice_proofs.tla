------------------------- MODULE BlockDevice_proofs -------------------------
(***************************************************************************)
(* What the users of a block device may rely on follows from the promise   *)
(* of its driver, for any number of bios and any size of the disk.  The    *)
(* invariant speaks of each sector copied so far, where the properties     *)
(* speak of bios that have ended: a sector that a write has copied holds   *)
(* the data of that write or of one that was not over when it was          *)
(* submitted, and this is what a read that copies the sector finds.        *)
(***************************************************************************)
EXTENDS BlockDevice, TLAPS

\* Bios come to an end once, when all is copied.
Accounted ==
    /\ \A b \in Bios : before[b] \subseteq Ended
    /\ \A b \in Bios : moved[b] \subseteq Offsets(b)
    /\ \A b \in Bios : st[b] = "new" => moved[b] = {}
    /\ \A b \in Bios : st[b] = "ok" => moved[b] = Offsets(b)
    /\ \A b \in Bios : st[b] = "err" => bio[b].dir = "other"

\* Sector s holds the data of a write that was not over when d was submitted.
HoldsFor(d, s) ==
    \E c \in Bios : Wrote(c, s, disk[s]) /\ ~WriteBefore(c, d, s)

KeptSoFar ==
    \A d \in Bios : bio[d].dir = "write" =>
        \A o \in moved[d] : HoldsFor(d, bio[d].sector + o)

FreshSoFar ==
    \A r \in Bios : bio[r].dir = "read" =>
        \A o \in moved[r] : MaySee(r, bio[r].sector + o, buf[r][o])

IInv == TypeOK /\ Accounted /\ KeptSoFar /\ FreshSoFar

-----------------------------------------------------------------------------
\* The offsets of a bio are on the disk.
LEMMA OffsetsOnDisk ==
    ASSUME TypeOK, NEW b \in Bios, NEW o \in Offsets(b)
    PROVE  /\ o \in Sectors /\ bio[b].sector \in Int
           /\ bio[b].sector + o \in Sectors
           /\ (bio[b].sector + o) - bio[b].sector = o
BY SizeAssumption DEF TypeOK, Requests, Fits, Offsets, Sectors

\* What a write that ended did stays visible to a bio submitted after it.
LEMMA KeptIsFresh ==
    ASSUME IInv, NEW r \in Bios, NEW s \in Sectors
    PROVE  MaySee(r, s, disk[s])
<1> SUFFICES ASSUME NEW d \in Bios, WriteBefore(d, r, s)
             PROVE  HoldsFor(d, s)
    BY DEF MaySee, HoldsFor
<1>1. st[d] = "ok"
    BY DEF WriteBefore, IInv, Accounted, Ended
<1>2. s - bio[d].sector \in moved[d]
    BY <1>1 DEF WriteBefore, IInv, Accounted
<1>3. bio[d].sector + (s - bio[d].sector) = s
    BY DEF IInv, TypeOK, Requests, Sectors
<1> QED BY <1>2, <1>3 DEF WriteBefore, IInv, KeptSoFar

-----------------------------------------------------------------------------
LEMMA InitInv == Init => IInv
<1> SUFFICES ASSUME Init PROVE IInv
    OBVIOUS
<1>1. TypeOK
    BY DEF Init, TypeOK, Contents
<1>2. Accounted /\ KeptSoFar /\ FreshSoFar
    BY DEF Init, Accounted, Ended, Offsets, KeptSoFar, FreshSoFar
<1> QED BY <1>1, <1>2 DEF IInv

\* bio and before say the same of two bios before and after a step that does not
\* submit one of them.
LEMMA HoldsForStays ==
    ASSUME NEW d \in Bios, NEW s, HoldsFor(d, s),
           bio' = bio, before'[d] = before[d], disk'[s] = disk[s]
    PROVE  HoldsFor(d, s)'
BY DEF HoldsFor, Wrote, WriteBefore, Offsets, Payload

LEMMA MaySeeStays ==
    ASSUME NEW r \in Bios, NEW s, NEW v, MaySee(r, s, v), TypeOK,
           bio' = bio, before' = before
    PROVE  MaySee(r, s, v)'
BY DEF MaySee, Wrote, WriteBefore, Offsets, Payload

-----------------------------------------------------------------------------
\* A bio that is submitted is not in any before, and has copied nothing.
LEMMA SubmitInv ==
    ASSUME IInv, NEW b \in Bios, Submit(b)
    PROVE  IInv'
<1> USE DEF IInv, Submit
<1>1. TypeOK'
    BY DEF TypeOK, Ended, Requests, Contents, Dirs
<1>2. Ended' = Ended
    BY DEF Ended, TypeOK
<1>3. \A c \in Bios : c # b => before'[c] = before[c]
    BY DEF TypeOK
<1>4. before'[b] = Ended /\ moved[b] = {}
    BY DEF TypeOK, Accounted
<1>5. Accounted'
    BY <1>2, <1>3, <1>4 DEF Accounted, TypeOK, Offsets
<1>6. KeptSoFar'
    BY <1>3, <1>4, HoldsForStays DEF KeptSoFar
<1>7. FreshSoFar'
    <2> SUFFICES ASSUME NEW r \in Bios, bio[r].dir = "read", NEW o \in moved[r],
                        NEW d \in Bios, WriteBefore(d, r, bio[r].sector + o)'
                 PROVE  \E c \in Bios :
                            /\ Wrote(c, bio[r].sector + o, buf[r][o])'
                            /\ ~WriteBefore(c, d, bio[r].sector + o)'
        BY DEF FreshSoFar, MaySee
    <2>1. r # b /\ d # b
        BY <1>3, <1>4 DEF WriteBefore, Accounted, Ended, TypeOK
    <2>2. WriteBefore(d, r, bio[r].sector + o)
        BY <1>3, <2>1 DEF WriteBefore, Offsets
    <2>3. PICK c \in Bios : /\ Wrote(c, bio[r].sector + o, buf[r][o])
                            /\ ~WriteBefore(c, d, bio[r].sector + o)
        BY <2>2 DEF FreshSoFar, MaySee
    <2> QED BY <1>3, <2>1, <2>3 DEF Wrote, WriteBefore, Offsets, Payload
<1> QED BY <1>1, <1>5, <1>6, <1>7

\* A bio ends: nothing changes but that.
LEMMA EndInv ==
    ASSUME IInv, NEW b \in Bios, Succeed(b) \/ Fail(b)
    PROVE  IInv'
<1> USE DEF IInv, Succeed, Fail
<1>1. TypeOK'
    BY DEF TypeOK, Requests, Contents, Dirs
<1>2. Ended \subseteq Ended'
    BY DEF Ended, TypeOK
<1>3. Accounted'
    BY <1>2 DEF Accounted, TypeOK, Offsets, AllCopied
<1>4. KeptSoFar'
    BY HoldsForStays DEF KeptSoFar
<1>5. FreshSoFar'
    BY MaySeeStays DEF FreshSoFar
<1> QED BY <1>1, <1>3, <1>4, <1>5

\* A write copies sectors: it was not over when anything was submitted.
LEMMA WriteInv ==
    ASSUME IInv, NEW b \in Bios, st[b] = "active", NEW O \in SUBSET Offsets(b),
           Write(b, O), moved' = [moved EXCEPT ![b] = @ \cup O],
           UNCHANGED <<bio, st, before>>
    PROVE  IInv'
<1> USE DEF IInv, Write
<1>1. TypeOK'
    <2>1. \A s \in Sectors : s - bio[b].sector \in O =>
              Payload(b, s - bio[b].sector) \in Contents
        BY OffsetsOnDisk DEF Payload, Contents
    <2>2. disk' \in [Sectors -> Contents]
        BY <2>1 DEF TypeOK
    <2>3. moved' \in [Bios -> SUBSET Sectors]
        BY OffsetsOnDisk DEF TypeOK
    <2> QED BY <2>2, <2>3 DEF TypeOK, Requests, Dirs, Contents
<1>2. Accounted'
    BY DEF Accounted, TypeOK, Offsets, Ended
<1>3. KeptSoFar'
    <2> SUFFICES ASSUME NEW d \in Bios, bio[d].dir = "write", NEW o \in moved'[d]
                 PROVE  HoldsFor(d, bio[d].sector + o)'
        BY DEF KeptSoFar
    <2> DEFINE s == bio[d].sector + o
    <2>1. o \in Offsets(d) /\ s \in Sectors /\ s - bio[d].sector = o
        BY <1>2, OffsetsOnDisk DEF Accounted, Offsets
    <2>2. CASE s - bio[b].sector \in O
        <3>1. Wrote(b, s, disk[s])'
            BY <2>1, <2>2 DEF Wrote, Offsets, Payload
        <3>2. b \notin before[d]
            BY DEF Accounted, Ended
        <3> QED BY <3>1, <3>2 DEF HoldsFor, WriteBefore
    <2>3. CASE s - bio[b].sector \notin O
        <3>1. o \in moved[d]
            BY <2>1, <2>3 DEF TypeOK
        <3>2. disk'[s] = disk[s]
            BY <2>1, <2>3
        <3> QED BY <3>1, <3>2, HoldsForStays DEF KeptSoFar
    <2> QED BY <2>2, <2>3
<1>4. FreshSoFar'
    BY MaySeeStays DEF FreshSoFar, TypeOK
<1> QED BY <1>1, <1>2, <1>3, <1>4

\* A read copies sectors: it finds what the writes before it have left.
LEMMA ReadInv ==
    ASSUME IInv, NEW b \in Bios, st[b] = "active", NEW O \in SUBSET Offsets(b),
           Read(b, O), moved' = [moved EXCEPT ![b] = @ \cup O],
           UNCHANGED <<bio, st, before>>
    PROVE  IInv'
<1> USE DEF IInv, Read
<1>1. TypeOK'
    <2>1. \A o \in O : disk[bio[b].sector + o] \in Contents
        BY OffsetsOnDisk DEF TypeOK
    <2>2. buf' \in [Bios -> [Sectors -> Contents]]
        BY <2>1 DEF TypeOK
    <2>3. moved' \in [Bios -> SUBSET Sectors]
        BY OffsetsOnDisk DEF TypeOK
    <2> QED BY <2>2, <2>3 DEF TypeOK, Requests, Dirs, Contents
<1>2. Accounted'
    BY DEF Accounted, TypeOK, Offsets, Ended
<1>3. KeptSoFar'
    BY HoldsForStays DEF KeptSoFar, TypeOK
<1>4. FreshSoFar'
    <2> SUFFICES ASSUME NEW r \in Bios, bio[r].dir = "read", NEW o \in moved'[r]
                 PROVE  MaySee(r, bio[r].sector + o, buf'[r][o])
        BY MaySeeStays DEF FreshSoFar
    <2>1. o \in Sectors /\ bio[r].sector + o \in Sectors
        BY <1>2, OffsetsOnDisk DEF Accounted, Offsets
    <2>2. CASE r = b /\ o \in O
        <3>1. buf'[r][o] = disk[bio[r].sector + o]
            BY <2>1, <2>2 DEF TypeOK
        <3> QED BY <2>1, <3>1, KeptIsFresh
    <2>3. CASE ~(r = b /\ o \in O)
        BY <2>1, <2>3 DEF FreshSoFar, TypeOK
    <2> QED BY <2>2, <2>3
<1> QED BY <1>1, <1>2, <1>3, <1>4

LEMMA NextInv == IInv /\ [Next]_vars => IInv'
<1> SUFFICES ASSUME IInv, [Next]_vars PROVE IInv'
    OBVIOUS
<1>1. ASSUME NEW b \in Bios, Submit(b) PROVE IInv'
    BY <1>1, SubmitInv
<1>2. ASSUME NEW b \in Bios, Move(b) PROVE IInv'
    BY <1>2, WriteInv, ReadInv DEF Move
<1>3. ASSUME NEW b \in Bios, Succeed(b) \/ Fail(b) PROVE IInv'
    BY <1>3, EndInv
<1>4. ASSUME UNCHANGED vars PROVE IInv'
    <2> USE <1>4 DEF vars, IInv
    <2>1. TypeOK' /\ Accounted'
        BY DEF TypeOK, Requests, Contents, Dirs, Accounted, Ended, Offsets
    <2>2. KeptSoFar'
        BY HoldsForStays DEF KeptSoFar
    <2>3. FreshSoFar'
        BY MaySeeStays DEF FreshSoFar
    <2> QED BY <2>1, <2>2, <2>3
<1> QED BY <1>1, <1>2, <1>3, <1>4 DEF Next

-----------------------------------------------------------------------------
\* The invariant of a device whose driver keeps its promise (transfer,
\* block_mod_s.c:30-43): what has been copied so far is kept, and was fresh.
THEOREM Invariance == Spec => []IInv
BY InitInv, NextInv, PTL DEF Spec

\* The state stays well typed; in particular only whole payloads reach the disk.
THEOREM TypeCorrect == Spec => []TypeOK
BY Invariance, PTL DEF IInv

\* A read that ended well saw every write that had ended before it was submitted.
THEOREM ReadsFreshHolds == Spec => []ReadsFresh
<1>1. IInv => ReadsFresh
    BY DEF IInv, Accounted, FreshSoFar, ReadsFresh
<1> QED BY <1>1, Invariance, PTL

\* What a write that ended has written stays, unless a write that was not over
\* when it was submitted replaced it.
THEOREM WritesKeptHolds == Spec => []WritesKept
<1>1. IInv => WritesKept
    BY DEF IInv, Accounted, KeptSoFar, HoldsFor, WritesKept
<1> QED BY <1>1, Invariance, PTL
=============================================================================
