------------------------- MODULE RequestModes_proofs -------------------------
(***************************************************************************)
(* The request functions keep the promise of BlockDevice, for any number   *)
(* of bios of any shapes on a disk of any size, in every mode in which     *)
(* they ask for a segment's own sectors (AllSound); and in every mode, no  *)
(* bio is lost or served twice by the queue.                               *)
(***************************************************************************)
EXTENDS RequestModes, TLAPS

\* What may be asked of bios and where they are: what is being served has a
\* segment left; make_request has no queue, and what it is in the middle of was
\* not beyond the end when it began.
HalfWay(b) ==
    /\ seg[b] =< Segments(b)
    /\ ~BeyondEnd(b, seg[b])
    /\ off[b] < Nsect(b, seg[b])
Positions ==
    /\ (Queued /\ conf.driver # "lab2") \/ \A b \in Bios : bio[b].dir # "other"
    /\ \A b \in Bios : st[b] \in {"new", "active"} => idx[b] < Segments(b)
    /\ Queued => \A b \in Bios : off[b] = 0
    /\ ~Queued => queue = {} /\ rq = << >>
    /\ \A b \in Bios : off[b] > 0 => HalfWay(b)

\* Each active bio of a queue is at one place of one request.
Lists == queue \cup {rq} \cup {<< >>}
Placed(L)   == \A q \in L : \A k \in DOMAIN q : st[q[k]] = "active"
Unique(L)   == \A q, r \in L : \A k \in DOMAIN q : \A n \in DOMAIN r :
                  q[k] = r[n] => q = r /\ k = n
Complete(L) == \A b \in Bios : st[b] = "active" =>
                  \E q \in L : \E k \in DOMAIN q : q[k] = b
Ledger(L) == Placed(L) /\ Unique(L) /\ (Queued => Complete(L))
Accounted ==
    /\ rq \notin queue /\ << >> \notin queue
    /\ Ledger(Lists)

RInv == TypeOK /\ Positions /\ Accounted

\* In a sound configuration, what lies before the segment that is copied next has
\* been copied, within the bio and within its memory; no error is reported; and
\* outside the simple functions nothing is accounted for before the bio ends.
Covered(b) ==
    /\ moved[b] \subseteq 0 .. Total(bio[b].shape) - 1
    /\ 0 .. (bio[b].shape[seg[b]] + off[b]) - 1 \subseteq moved[b]
    /\ ~failed[b]
    /\ conf.mode # "RM_SIMPLE" /\ st[b] \in {"new", "active"} => idx[b] = 0
SInv ==
    /\ \A b \in Bios : bio[b].dir # "other" => Covered(b)
    /\ SegmentsIndependent

-----------------------------------------------------------------------------
\* Bios and their segments.

\* The ends of the segments of a shape rise from 0 to its length.
LEMMA ShapeRises ==
    ASSUME NEW sh, IsShape(sh)
    PROVE  /\ Len(sh) \in Nat /\ Len(sh) > 1 /\ DOMAIN sh = 1 .. Len(sh)
           /\ \A i \in 1 .. Len(sh) : sh[i] \in Nat /\ sh[i] =< Total(sh)
           /\ \A i, j \in 1 .. Len(sh) : i < j => sh[i] < sh[j]
           /\ sh[1] = 0 /\ Total(sh) \in Nat \ {0}
<1>1. sh \in Seq(Nat) /\ Len(sh) \in Nat /\ Len(sh) > 1 /\ DOMAIN sh = 1 .. Len(sh)
  BY DEF IsShape
<1>2. \A i \in 1 .. Len(sh) : sh[i] \in Nat
  BY <1>1
<1>3. \A i, j \in 1 .. Len(sh) : i < j => sh[i] < sh[j]
  BY <1>1 DEF IsShape
<1>4. sh[1] = 0
  BY DEF IsShape
<1>5. \A i \in 1 .. Len(sh) : sh[i] =< sh[Len(sh)]
  BY <1>1, <1>2, <1>3
<1>6. 0 < sh[Len(sh)]
  BY <1>1, <1>3, <1>4
<1> QED
  BY <1>1, <1>2, <1>3, <1>4, <1>5, <1>6 DEF Total

\* Those of a bio, which fits the disk.
LEMMA Shapes ==
    ASSUME TypeOK, NEW b \in Bios
    PROVE  /\ bio[b].dir \in Dirs /\ bio[b].sector \in Nat
           /\ bio[b].shape \in conf.shapes
           /\ DOMAIN bio[b].shape = 1 .. Segments(b) + 1
           /\ Segments(b) \in Nat \ {0}
           /\ Len(bio[b].shape) = Segments(b) + 1
           /\ Total(bio[b].shape) = bio[b].shape[Segments(b) + 1]
           /\ Total(bio[b].shape) \in Nat \ {0}
           /\ bio[b].sector + Total(bio[b].shape) =< Size
           /\ bio[b].shape[1] = 0
           /\ \A i \in 1 .. Segments(b) + 1 : bio[b].shape[i] \in Nat
<1>1. bio[b] \in Descriptions
  BY DEF TypeOK
<1>2. /\ bio[b].dir \in Dirs /\ bio[b].sector \in Sectors
      /\ bio[b].shape \in conf.shapes
      /\ bio[b].sector + Total(bio[b].shape) =< Size
  BY <1>1 DEF Descriptions
<1>3. IsShape(bio[b].shape)
  BY <1>2, ConfigsAssumption DEF TypeOK
<1>4. bio[b].sector \in Nat
  BY <1>2, ConfigsAssumption DEF Sectors
<1> DEFINE sh == bio[b].shape
<1>5. /\ Len(sh) \in Nat /\ Len(sh) > 1 /\ DOMAIN sh = 1 .. Len(sh)
      /\ \A i \in 1 .. Len(sh) : sh[i] \in Nat /\ sh[i] =< Total(sh)
      /\ \A i, j \in 1 .. Len(sh) : i < j => sh[i] < sh[j]
      /\ sh[1] = 0 /\ Total(sh) \in Nat \ {0}
  BY <1>3, ShapeRises, Zenon
<1>6. Segments(b) = Len(sh) - 1 /\ Total(sh) = sh[Len(sh)]
  BY DEF Segments, Total
<1>7. Segments(b) + 1 = Len(sh) /\ Segments(b) \in Nat \ {0}
  <2> HIDE DEF sh
  <2> QED
    BY <1>5, <1>6
<1> QED
  BY <1>2, <1>4, <1>5, <1>6, <1>7, Zenon

\* Segments begin within the bio, each later than the one before.
LEMMA Rising ==
    ASSUME TypeOK, NEW b \in Bios,
           NEW i \in 1 .. Segments(b) + 1, NEW j \in 1 .. Segments(b) + 1
    PROVE  /\ bio[b].shape[i] \in 0 .. Total(bio[b].shape)
           /\ i < j => bio[b].shape[i] < bio[b].shape[j]
           /\ i =< j => bio[b].shape[i] =< bio[b].shape[j]
<1> DEFINE sh == bio[b].shape
<1>1. IsShape(sh)
  BY Shapes, ConfigsAssumption DEF TypeOK
<1>2. /\ \A k \in 1 .. Len(sh) : sh[k] \in Nat /\ sh[k] =< Total(sh)
      /\ \A k, l \in 1 .. Len(sh) : k < l => sh[k] < sh[l]
  BY <1>1, ShapeRises, Zenon
<1>3. Len(sh) = Segments(b) + 1 /\ Total(sh) \in Nat
  BY Shapes
<1> HIDE DEF sh
<1>4. sh[i] \in 0 .. Total(sh) /\ (i < j => sh[i] < sh[j]) /\ (i =< j => sh[i] =< sh[j])
  BY <1>2, <1>3
<1> QED
  BY <1>4 DEF sh

\* Where a segment ends the next one begins, within the bio.
LEMMA Lengths ==
    ASSUME TypeOK, NEW b \in Bios, NEW i \in 1 .. Segments(b)
    PROVE  /\ Length(b, i) \in Nat \ {0}
           /\ bio[b].shape[i] \in Nat
           /\ bio[b].shape[i + 1] = bio[b].shape[i] + Length(b, i)
           /\ bio[b].shape[i] + Length(b, i) =< Total(bio[b].shape)
<1>1. i \in 1 .. Segments(b) + 1 /\ i + 1 \in 1 .. Segments(b) + 1
  BY Shapes
<1>2. /\ bio[b].shape[i] \in 0 .. Total(bio[b].shape)
      /\ bio[b].shape[i + 1] \in 0 .. Total(bio[b].shape)
      /\ bio[b].shape[i] < bio[b].shape[i + 1]
  <2>1. i < i + 1
    BY <1>1, Shapes
  <2> QED
    BY <1>1, <2>1, Rising
<1>3. Length(b, i) = bio[b].shape[i + 1] - bio[b].shape[i]
  BY DEF Length
<1>4. Total(bio[b].shape) \in Nat
  BY Shapes
<1> QED
  BY <1>2, <1>3, <1>4, SMT

\* What the solver has to be told of multiplication.
LEMMA Products == \A x, y \in Nat : x * y \in Nat
  BY SMT

\* What is asked of transfer, whatever the mode.
LEMMA Asked ==
    ASSUME TypeOK, NEW b \in Bios, NEW i \in 1 .. Segments(b), idx[b] < i
    PROVE  Nsect(b, i) \in Nat \ {0} /\ Dest(b, i) \in Nat
<1>1. idx[b] \in Nat /\ idx[b] + 1 \in 1 .. Segments(b) /\ i \in Nat
  BY Shapes DEF TypeOK
<1>2. /\ Length(b, i) \in Nat \ {0} /\ Length(b, idx[b] + 1) \in Nat \ {0}
      /\ bio[b].shape[idx[b] + 1] \in Nat
      /\ bio[b].shape[idx[b] + 1] + Length(b, idx[b] + 1) =< Total(bio[b].shape)
  BY <1>1, Lengths
<1>3. Nsect(b, i) \in Nat \ {0}
  BY <1>2, Shapes DEF Nsect, XdNsect, SbullNsect
<1>4. (i - idx[b] - 1) * Nsect(b, i) \in Nat
  <2>1. i - idx[b] - 1 \in Nat /\ Nsect(b, i) \in Nat
    BY <1>1, <1>3
  <2> QED
    BY <2>1, Products
<1>5. bio[b].sector \in Nat
  BY Shapes
<1> DEFINE m == (i - idx[b] - 1) * Nsect(b, i)
<1>6. Dest(b, i) = bio[b].sector + bio[b].shape[idx[b] + 1] + m
  BY DEF Dest
<1>7. m \in Nat
  BY <1>4
<1> HIDE DEF m
<1> QED
  BY <1>2, <1>3, <1>5, <1>6, <1>7

\* In a sound configuration it is the segment's own sectors, which are on the disk.
LEMMA OwnSectors ==
    ASSUME AllSound, TypeOK, NEW b \in Bios, NEW i \in 1 .. Segments(b), idx[b] < i,
           IF conf.mode = "RM_SIMPLE" THEN i = idx[b] + 1 ELSE idx[b] = 0
    PROVE  /\ Nsect(b, i) = Length(b, i)
           /\ Dest(b, i) = bio[b].sector + bio[b].shape[i]
           /\ ~BeyondEnd(b, i)
<1>1. Sound(conf)
  BY DEF AllSound, TypeOK
<1>2. idx[b] \in Nat
  BY DEF TypeOK
<1> DEFINE at == bio[b].shape[i]
<1>3. /\ Length(b, i) \in Nat /\ at \in Nat /\ at + Length(b, i) =< Total(bio[b].shape)
      /\ Total(bio[b].shape) \in Nat
      /\ bio[b].sector \in Nat /\ bio[b].sector + Total(bio[b].shape) =< Size
  BY Lengths, Shapes
<1>4. ASSUME Nsect(b, i) = Length(b, i), Dest(b, i) = bio[b].sector + at
      PROVE  ~BeyondEnd(b, i)
  <2> HIDE DEF at
  <2> QED
    BY <1>3, <1>4, ConfigsAssumption DEF BeyondEnd
<1>5. CASE i = idx[b] + 1 /\ Nsect(b, i) = Length(b, i)
  <2>1. (i - idx[b] - 1) * Nsect(b, i) = 0
    <3>1. i - idx[b] - 1 = 0 /\ Nsect(b, i) \in Nat
      BY <1>2, <1>3, <1>5
    <3> QED
      BY <3>1
  <2>2. Dest(b, i) = bio[b].sector + at + 0
    BY <1>5, <2>1 DEF Dest
  <2>3. Dest(b, i) = bio[b].sector + at
    <3> HIDE DEF at
    <3> QED
      BY <1>3, <2>2
  <2> QED
    BY <1>4, <1>5, <2>3
<1>6. CASE conf.mode = "RM_SIMPLE"
  BY <1>5, <1>6 DEF Nsect
<1>7. CASE conf.mode # "RM_SIMPLE" /\ \A sh \in conf.shapes : Len(sh) = 2
  <2>1. Segments(b) = 1 /\ i = 1 /\ idx[b] = 0
    BY <1>7, Shapes DEF Segments
  <2>2. Nsect(b, i) = Length(b, i)
    BY <1>7, <2>1, Shapes DEF Nsect, XdNsect, SbullNsect, Length
  <2> QED
    BY <1>5, <2>1, <2>2
<1>8. CASE /\ conf.mode # "RM_SIMPLE" /\ conf.driver = "sbull"
           /\ \A sh \in conf.shapes : \A k \in DOMAIN sh : sh[k] = (k - 1) * sh[2]
  <2> DEFINE l == bio[b].shape[2]
  <2>1. \A k \in 1 .. Segments(b) + 1 : bio[b].shape[k] = (k - 1) * l
    BY <1>8, Shapes
  <2>2. l \in Nat /\ i \in Nat /\ i - 1 \in Nat
    <3>1. Segments(b) \in Nat \ {0} /\ 2 \in 1 .. Segments(b) + 1
      <4>1. Segments(b) \in Nat \ {0}
        BY Shapes, Zenon
      <4> QED
        BY <4>1
    <3>2. l \in Nat
      BY <3>1, Shapes, Zenon
    <3> HIDE DEF l
    <3> QED
      BY <3>1, <3>2
  <2>3. /\ i \in 1 .. Segments(b) + 1 /\ i + 1 \in 1 .. Segments(b) + 1
        /\ 2 \in 1 .. Segments(b) + 1 /\ (i + 1) - 1 = i
    BY Shapes
  <2>4. at = (i - 1) * l /\ bio[b].shape[i + 1] = i * l
    BY <2>1, <2>3
  <2>5. i * l = (i - 1) * l + l /\ (i - 1) * l \in Nat
    <3> HIDE DEF l
    <3> QED
      BY <2>2, Products, SMT
  <2>6. Length(b, i) = l
    <3>1. Length(b, i) = i * l - at
      BY <2>4 DEF Length
    <3> HIDE DEF l, at
    <3> QED
      BY <2>2, <2>4, <2>5, <3>1
  <2>7. Length(b, 1) = l
    <3>1. 1 + 1 = 2 /\ bio[b].shape[1] = 0
      BY Shapes
    <3>2. Length(b, 1) = l - 0
      BY <3>1 DEF Length
    <3> HIDE DEF l
    <3> QED
      BY <2>2, <3>2
  <2>8. Nsect(b, i) = l
    BY <1>8, <2>7 DEF Nsect, SbullNsect
  <2>9. Dest(b, i) = bio[b].sector + at
    <3>1. idx[b] + 1 = 1 /\ bio[b].shape[1] = 0 /\ i - idx[b] - 1 = i - 1
      BY <1>8, <2>2, Shapes
    <3>2. Dest(b, i) = bio[b].sector + bio[b].shape[1] + (i - 1) * l
      BY <2>8, <3>1 DEF Dest
    <3>3. Dest(b, i) = bio[b].sector + 0 + at
      BY <2>4, <3>1, <3>2
    <3> HIDE DEF at
    <3> QED
      BY <1>3, <3>3
  <2> QED
    BY <1>4, <2>6, <2>8, <2>9
<1> QED
  BY <1>1, <1>6, <1>7, <1>8 DEF Sound

\* What a copy takes from its segment is the bio's.
LEMMA OffsetInside ==
    ASSUME TypeOK, NEW b \in Bios, NEW i \in 1 .. Segments(b), NEW j \in Nat,
           InSegment(b, i, j)
    PROVE  /\ Offset(b, i, j) \in 0 .. Total(bio[b].shape) - 1
           /\ Offset(b, i, j) \in Sectors
           /\ Offset(b, i, j) = bio[b].shape[i] + j
<1> DEFINE at == bio[b].shape[i]
<1>1. /\ Length(b, i) \in Nat /\ at \in Nat /\ at + Length(b, i) =< Total(bio[b].shape)
      /\ Total(bio[b].shape) \in Nat
      /\ bio[b].sector \in Nat /\ bio[b].sector + Total(bio[b].shape) =< Size
  BY Lengths, Shapes
<1>2. Offset(b, i, j) = at + j /\ j < Length(b, i)
  BY DEF Offset, InSegment
<1> HIDE DEF at
<1>3. Offset(b, i, j) \in 0 .. Total(bio[b].shape) - 1 /\ Offset(b, i, j) \in 0 .. Size - 1
  BY <1>1, <1>2, ConfigsAssumption
<1> QED
  BY <1>2, <1>3 DEF Sectors, at

\* Whether a segment can be half way depends on the bio and its position only.
LEMMA HalfWayStays ==
    ASSUME UNCHANGED <<conf, bio, idx, seg, off>>, NEW b
    PROVE  HalfWay(b)' <=> HalfWay(b)
BY DEF HalfWay, Segments, Nsect, XdNsect, SbullNsect, Length, BeyondEnd, Dest

\* A copy that was checked keeps the types.
LEMMA CopyType ==
    ASSUME TypeOK, NEW b \in Bios, NEW i \in 1 .. Segments(b), idx[b] < i,
           ~BeyondEnd(b, i), NEW J \in SUBSET (0 .. Nsect(b, i) - 1), Copy(b, i, J)
    PROVE  /\ disk' \in [Sectors -> Contents]
           /\ buf' \in [Bios -> [Sectors -> Contents]]
           /\ strayed' \in BOOLEAN
           /\ moved' \in [Bios -> SUBSET Sectors]
<1> DEFINE own == {j \in J : InSegment(b, i, j)}
<1>1. Nsect(b, i) \in Nat \ {0} /\ Dest(b, i) \in Nat /\ Dest(b, i) + Nsect(b, i) =< Size
  BY Asked, ConfigsAssumption DEF BeyondEnd
<1>2. \A j \in J : j \in Nat /\ Dest(b, i) + j \in Sectors
  BY <1>1, ConfigsAssumption DEF Sectors
<1>3. \A j \in own : Offset(b, i, j) \in Sectors
  BY <1>2, OffsetInside
<1>4. \A j \in J : Payload(b, i, j) \in Contents
  BY <1>3, <1>2 DEF Payload, Contents
<1>5. moved' = [moved EXCEPT ![b] = @ \cup {Offset(b, i, j) : j \in own}]
  BY DEF Copy
<1>6. moved' \in [Bios -> SUBSET Sectors]
  <2>1. {Offset(b, i, j) : j \in own} \subseteq Sectors
    BY <1>3
  <2> HIDE DEF own
  <2> QED
    BY <1>5, <2>1 DEF TypeOK
<1>7. CASE /\ bio[b].dir = "write"
           /\ disk' = [s \in Sectors |-> IF s - Dest(b, i) \in J
                                         THEN Payload(b, i, s - Dest(b, i))
                                         ELSE disk[s]]
           /\ UNCHANGED <<buf, strayed>>
  <2>1. \A s \in Sectors : disk'[s] \in Contents
    BY <1>4, <1>7 DEF TypeOK
  <2>2. disk' \in [Sectors -> Contents]
    BY <1>7, <2>1
  <2> QED
    BY <1>6, <1>7, <2>2 DEF TypeOK
<1>8. CASE /\ bio[b].dir = "read"
           /\ buf' = [buf EXCEPT ![b] = [o \in Sectors |->
                         IF o - bio[b].shape[i] \in own
                         THEN disk[Dest(b, i) + o - bio[b].shape[i]]
                         ELSE buf[b][o]]]
           /\ strayed' = (strayed \/ own # J)
           /\ UNCHANGED disk
  <2> DEFINE at == bio[b].shape[i]
  <2> DEFINE new == [o \in Sectors |-> IF o - at \in own
                                       THEN disk[Dest(b, i) + o - at]
                                       ELSE buf[b][o]]
  <2>1. at \in Nat
    BY Lengths
  <2>2. \A o \in Sectors : o \in Nat
    BY ConfigsAssumption DEF Sectors
  <2>3. \A o \in Sectors : o - at \in own => Dest(b, i) + o - at \in Sectors
    <3> SUFFICES ASSUME NEW o \in Sectors, o - at \in own
                 PROVE  Dest(b, i) + o - at \in Sectors
      OBVIOUS
    <3>1. Dest(b, i) + (o - at) \in Sectors
      BY <1>2
    <3> HIDE DEF at
    <3>2. Dest(b, i) + (o - at) = Dest(b, i) + o - at
      BY <1>1, <2>1, <2>2
    <3> QED
      BY <3>1, <3>2
  <2>4. \A o \in Sectors : new[o] \in Contents
    BY <2>3 DEF TypeOK
  <2>5. new \in [Sectors -> Contents]
    BY <2>4
  <2>6. buf' = [buf EXCEPT ![b] = new]
    BY <1>8
  <2> HIDE DEF new
  <2>7. buf' \in [Bios -> [Sectors -> Contents]]
    BY <2>5, <2>6 DEF TypeOK
  <2> QED
    BY <1>6, <1>8, <2>7 DEF TypeOK
<1> QED
  BY <1>7, <1>8 DEF Copy

-----------------------------------------------------------------------------
\* The queue.

\* A bio ends, or the current segment has been accounted for: the function goes on
\* with the rest of its request, or with another.
LEMMA GoOnLists ==
    ASSUME NEW rest, GoOn(rest), rest \notin queue, << >> \notin queue
    PROVE  /\ Lists' = queue \cup {rest} \cup {<< >>}
           /\ rq' \notin queue' /\ << >> \notin queue'
<1>1. CASE rest # << >>
  BY <1>1 DEF GoOn, Lists
<1>2. CASE rest = << >> /\ queue = {}
  BY <1>2 DEF GoOn, Fetch, Lists
<1>3. CASE rest = << >> /\ queue # {}
  BY <1>3 DEF GoOn, Fetch, Lists
<1> QED
  BY <1>1, <1>2, <1>3

\* What is fetched is a request of the queue.
LEMMA GoOnType ==
    ASSUME NEW rest \in Seq(Bios), GoOn(rest), queue \subseteq Seq(Bios)
    PROVE  queue' \subseteq Seq(Bios) /\ rq' \in Seq(Bios)
<1>1. CASE rest # << >>
  BY <1>1 DEF GoOn
<1>2. CASE rest = << >> /\ queue = {}
  BY <1>2 DEF GoOn, Fetch
<1>3. CASE rest = << >> /\ queue # {}
  BY <1>3 DEF GoOn, Fetch
<1> QED
  BY <1>1, <1>2, <1>3

\* The request that is served has a first bio, which is active.
LEMMA Serves ==
    ASSUME RInv, rq # << >>
    PROVE  /\ 1 \in DOMAIN rq /\ rq[1] \in Bios /\ Queued
           /\ \A k \in DOMAIN rq : rq[k] \in Bios /\ st[rq[k]] = "active"
           /\ Tail(rq) \in Seq(Bios)
           /\ \A k \in DOMAIN Tail(rq) : k + 1 \in DOMAIN rq /\ Tail(rq)[k] = rq[k + 1]
           /\ \A k \in DOMAIN rq : k # 1 =>
                 k - 1 \in DOMAIN Tail(rq) /\ Tail(rq)[k - 1] = rq[k]
<1>1. rq \in Seq(Bios)
  BY DEF RInv, TypeOK
<1>2. \A k \in DOMAIN rq : st[rq[k]] = "active"
  BY DEF RInv, Accounted, Ledger, Placed, Lists
<1> QED
  BY <1>1, <1>2 DEF RInv, Positions

\* What is on a list is a bio.
LEMMA OnLists ==
    ASSUME TypeOK
    PROVE  \A q \in Lists : /\ q \in Seq(Bios)
                            /\ \A k \in DOMAIN q : q[k] \in Bios /\ k \in Nat
                            /\ q # << >> => 1 \in DOMAIN q
<1>1. \A q \in Lists : q \in Seq(Bios)
  <2>1. << >> \in Seq(Bios)
    OBVIOUS
  <2> QED
    BY <2>1, Zenon DEF TypeOK, Lists
<1> QED
  BY <1>1

\* A bio that ends leaves the current request, and no other list has it.
LEMMA DropHead ==
    ASSUME RInv, rq # << >>, conf' = conf, NEW e \in {"ok", "err"},
           st' = [st EXCEPT ![rq[1]] = e], GoOn(Tail(rq))
    PROVE  Accounted'
<1> DEFINE t == Tail(rq)
           b == rq[1]
<1>1. /\ 1 \in DOMAIN rq /\ b \in Bios
      /\ \A k \in DOMAIN t : k + 1 \in DOMAIN rq /\ t[k] = rq[k + 1]
      /\ \A k \in DOMAIN rq : k # 1 => k - 1 \in DOMAIN t /\ t[k - 1] = rq[k]
      /\ t \in Seq(Bios)
  BY Serves
<1>2. DOMAIN st = Bios /\ TypeOK
  BY DEF RInv, TypeOK
<1>3. \A k \in DOMAIN t : k \in Nat
  BY <1>1
<1>4. t = << >> \/ 1 \in DOMAIN t
  BY <1>1
<1> HIDE DEF t
<1>5. rq \notin queue /\ << >> \notin queue
  BY DEF RInv, Accounted
<1>6. Unique(Lists) /\ Placed(Lists) /\ (Queued => Complete(Lists))
  BY DEF RInv, Accounted, Ledger
<1>7. t \notin queue
  <2> SUFFICES ASSUME t \in queue PROVE FALSE
    OBVIOUS
  <2>1. 1 \in DOMAIN t /\ 1 + 1 \in DOMAIN rq /\ t[1] = rq[1 + 1]
    BY <1>1, <1>4, <1>5
  <2>2. t \in Lists /\ rq \in Lists
    BY DEF Lists
  <2>3. t = rq
    BY <2>1, <2>2, <1>6 DEF Unique
  <2> QED
    BY <2>3, <1>5
<1>8. Lists' = queue \cup {t} \cup {<< >>} /\ rq' \notin queue' /\ << >> \notin queue'
  BY <1>5, <1>7, GoOnLists DEF t
\* Each place of the new lists is a place of the old ones, and not the head's.
<1> DEFINE Old(q)    == IF q = t THEN rq ELSE q
           Pos(q, k) == IF q = t THEN k + 1 ELSE k
<1>9. \A q \in Lists' : \A k \in DOMAIN q :
         /\ Old(q) \in Lists /\ Pos(q, k) \in DOMAIN Old(q)
         /\ Old(q)[Pos(q, k)] = q[k] /\ k \in Nat /\ q[k] \in Bios
  BY <1>1, <1>2, <1>3, <1>8, OnLists DEF Lists
<1>10. \A q \in Lists' : \A k \in DOMAIN q : q[k] # b
  <2> SUFFICES ASSUME NEW q \in Lists', NEW k \in DOMAIN q, q[k] = b PROVE FALSE
    OBVIOUS
  <2>1. rq \in Lists /\ rq[1] = b
    BY DEF Lists
  <2>2. Old(q) = rq /\ Pos(q, k) = 1
    BY <1>1, <1>6, <1>9, <2>1 DEF Unique
  <2>3. q = t => k + 1 = 1 /\ k \in Nat
    BY <2>2, <1>9
  <2>4. q # t => q = rq
    BY <2>2
  <2>5. q = t => k \in DOMAIN t
    OBVIOUS
  <2>6. q = t => k # 0
    BY <2>5, <1>1
  <2> QED
    BY <2>3, <2>4, <2>6, <1>1, <1>5, <1>8
<1>11. Placed(Lists)'
  BY <1>2, <1>6, <1>9, <1>10 DEF Placed
<1>12. Unique(Lists)'
  <2> SUFFICES ASSUME NEW q \in Lists', NEW r \in Lists',
                      NEW k \in DOMAIN q, NEW n \in DOMAIN r, q[k] = r[n]
               PROVE  q = r /\ k = n
    BY DEF Unique
  <2>1. Old(q) = Old(r) /\ Pos(q, k) = Pos(r, n)
    BY <1>6, <1>9 DEF Unique
  <2>2. k \in Nat /\ n \in Nat
    BY <1>9
  <2>3. q = r
    BY <2>1, <1>5, <1>8, <1>1
  <2> QED
    BY <2>1, <2>2, <2>3
<1>13. (Queued => Complete(Lists))'
  <2> SUFFICES ASSUME Queued, NEW c \in Bios, st'[c] = "active"
               PROVE  \E q \in Lists' : \E k \in DOMAIN q : q[k] = c
    BY DEF Complete, Queued
  <2>1. c # b /\ st[c] = "active"
    BY <1>1, <1>2
  <2>2. PICK q \in Lists : \E k \in DOMAIN q : q[k] = c
    BY <1>6, <2>1 DEF Complete
  <2>3. PICK k \in DOMAIN q : q[k] = c
    BY <2>2
  <2>4. CASE q = rq
    BY <1>1, <1>8, <2>1, <2>3, <2>4
  <2>5. CASE q # rq
    BY <1>8, <2>2, <2>5 DEF Lists
  <2> QED
    BY <2>4, <2>5
<1> QED
  BY <1>8, <1>11, <1>12, <1>13 DEF Accounted, Ledger

\* A bio that is submitted becomes a request or the last bio of one.
LEMMA SubmitAccounted ==
    ASSUME RInv, NEW b \in Bios, Submit(b)
    PROVE  Accounted'
<1>1. /\ st[b] = "new" /\ rq = << >> /\ rq' = << >>
      /\ st' = [st EXCEPT ![b] = "active"] /\ conf' = conf
  BY DEF Submit
<1>2. DOMAIN st = Bios /\ TypeOK
  BY DEF RInv, TypeOK
<1>3. << >> \notin queue
  BY DEF RInv, Accounted
<1>4. Unique(Lists) /\ Placed(Lists) /\ (Queued => Complete(Lists))
  BY DEF RInv, Accounted, Ledger
<1>5. \A q \in Lists : \A k \in DOMAIN q :
         q[k] \in Bios /\ k \in Nat /\ q[k] # b /\ st'[q[k]] = "active"
  BY <1>1, <1>2, <1>4, OnLists DEF Placed
<1>6. CASE ~Queued /\ UNCHANGED queue
  <2>1. Lists' = Lists
    BY <1>1, <1>6 DEF Lists
  <2> QED
    BY <1>1, <1>3, <1>4, <1>5, <1>6, <2>1 DEF Accounted, Ledger, Placed, Unique, Queued
\* In both cases some list l, which may be empty, gets b as its last element.
<1>7. ASSUME NEW l \in Lists, NEW m, DOMAIN m = 1 .. Len(l) + 1, DOMAIN l = 1 .. Len(l),
             Len(l) \in Nat, \A k \in DOMAIN l : m[k] = l[k], m[Len(l) + 1] = b,
             queue' = (queue \ {l}) \cup {m}
      PROVE  Accounted'
  <2>1. Lists' = (queue \ {l}) \cup {m} \cup {<< >>}
    BY <1>1, <1>7 DEF Lists
  <2>2. Len(l) + 1 \in DOMAIN m /\ m # << >>
    BY <1>7
  <2> DEFINE Old(q) == IF q = m THEN l ELSE q
  <2>3. m \notin Lists
    BY <1>5, <1>7, <2>2
  <2>4. \A q \in Lists' : \A k \in DOMAIN q :
           \/ q = m /\ k = Len(l) + 1 /\ q[k] = b
           \/ Old(q) \in Lists /\ k \in DOMAIN Old(q) /\ Old(q)[k] = q[k]
    BY <1>7, <2>1 DEF Lists
  <2>5. Placed(Lists)'
    <3> SUFFICES ASSUME NEW q \in Lists', NEW k \in DOMAIN q PROVE st'[q[k]] = "active"
      BY DEF Placed
    <3>1. st'[b] = "active"
      BY <1>1, <1>2
    <3> QED
      BY <1>5, <2>4, <3>1
  <2>6. Unique(Lists)'
    <3> SUFFICES ASSUME NEW q \in Lists', NEW r \in Lists',
                        NEW k \in DOMAIN q, NEW n \in DOMAIN r, q[k] = r[n]
                 PROVE  q = r /\ k = n
      BY DEF Unique
    <3>1. CASE q[k] = b
      <4>1. q = m /\ k = Len(l) + 1
        BY <1>5, <2>4, <3>1
      <4>2. r[n] = b
        BY <3>1
      <4>3. r = m /\ n = Len(l) + 1
        BY <1>5, <2>4, <4>2
      <4> QED
        BY <4>1, <4>3
    <3>2. CASE q[k] # b
      <4>1. Old(q) = Old(r) /\ k = n /\ Old(q)[k] = q[k] /\ k \in DOMAIN Old(q)
        BY <1>4, <2>4, <3>2 DEF Unique
      <4>2. l = << >> \/ l \notin Lists'
        BY <1>7, <2>1, <2>3
      <4>3. Old(q) # << >>
        BY <4>1
      <4> QED
        BY <4>1, <4>2, <4>3
    <3> QED
      BY <3>1, <3>2
  <2>7. (Queued => Complete(Lists))'
    <3> SUFFICES ASSUME Queued, NEW c \in Bios, st'[c] = "active"
                 PROVE  \E q \in Lists' : \E k \in DOMAIN q : q[k] = c
      BY <1>1 DEF Complete, Queued
    <3>1. CASE c = b
      BY <1>7, <2>1, <2>2, <3>1
    <3>2. CASE c # b
      <4>1. st[c] = "active"
        BY <1>1, <1>2, <3>2
      <4>2. PICK q \in Lists : \E k \in DOMAIN q : q[k] = c
        BY <1>4, <4>1 DEF Complete
      <4>3. PICK k \in DOMAIN q : q[k] = c
        BY <4>2
      <4>4. CASE q = l
        <5>1. k \in DOMAIN m /\ m[k] = c
          BY <1>7, <4>3, <4>4
        <5> QED
          BY <2>1, <5>1
      <4>5. CASE q # l
        BY <1>1, <2>1, <4>2, <4>5 DEF Lists
      <4> QED
        BY <4>4, <4>5
    <3> QED
      BY <3>1, <3>2
  <2>8. rq' \notin queue' /\ << >> \notin queue'
    BY <1>1, <1>3, <1>7, <2>2
  <2> QED
    BY <2>5, <2>6, <2>7, <2>8 DEF Accounted, Ledger
<1>8. CASE Queued /\ queue' = queue \cup {<<b>>}
  <2> DEFINE l == << >>
  <2>1. l \in Lists /\ queue' = (queue \ {l}) \cup {<<b>>}
    BY <1>3, <1>8 DEF Lists
  <2>2. DOMAIN <<b>> = 1 .. Len(l) + 1 /\ DOMAIN l = 1 .. Len(l) /\ Len(l) \in Nat
    OBVIOUS
  <2>3. (\A k \in DOMAIN l : <<b>>[k] = l[k]) /\ <<b>>[Len(l) + 1] = b
    OBVIOUS
  <2> HIDE DEF l
  <2> QED
    BY <1>7, <2>1, <2>2, <2>3
<1>9. ASSUME NEW l \in queue, queue' = (queue \ {l}) \cup {Append(l, b)}
      PROVE  Accounted'
  <2>1. l \in Lists /\ l \in Seq(Bios)
    BY <1>2, OnLists DEF Lists
  <2> DEFINE m == Append(l, b)
  <2>2. /\ DOMAIN m = 1 .. Len(l) + 1 /\ DOMAIN l = 1 .. Len(l) /\ Len(l) \in Nat
        /\ \A k \in DOMAIN l : m[k] = l[k] /\ m[Len(l) + 1] = b
        /\ m[Len(l) + 1] = b
    BY <2>1
  <2>3. queue' = (queue \ {l}) \cup {m}
    BY <1>9
  <2> HIDE DEF m
  <2> QED
    BY <1>7, <2>1, <2>2, <2>3
<1> QED
  BY <1>6, <1>8, <1>9 DEF Submit

\* The request function is called when there is something in the queue.
LEMMA CallAccounted == ASSUME RInv, CallRequestFn PROVE Accounted'
<1>1. /\ rq = << >> /\ st' = st /\ conf' = conf
  BY DEF CallRequestFn
<1>2. PICK q \in queue : rq' = q /\ queue' = queue \ {q}
  BY DEF CallRequestFn, Fetch
<1>3. Lists' = Lists /\ rq' \notin queue' /\ << >> \notin queue'
  BY <1>1, <1>2 DEF Lists, RInv, Accounted
<1> QED
  BY <1>1, <1>3 DEF RInv, Accounted, Ledger, Placed, Unique, Complete, Queued

\* The lists stay, while bios are copied.
LEMMA StillAccounted ==
    ASSUME RInv, UNCHANGED <<conf, st, queue, rq>> PROVE Accounted'
<1>1. Lists' = Lists
  BY DEF Lists
<1> QED
  BY <1>1 DEF RInv, Accounted, Ledger, Placed, Unique, Complete, Queued

-----------------------------------------------------------------------------
\* Types and positions.

\* The types of what a bio's handling changes, apart from its copies.
Handled ==
    /\ st \in [Bios -> {"new", "active", "ok", "err"}]
    /\ idx \in [Bios -> Nat] /\ seg \in [Bios -> Nat \ {0}] /\ off \in [Bios -> Nat]
    /\ \A b \in Bios : /\ idx[b] =< Segments(b) /\ idx[b] < seg[b]
                       /\ seg[b] =< Segments(b) + 1
    /\ failed \in [Bios -> BOOLEAN]
    /\ queue \subseteq Seq(Bios) /\ rq \in Seq(Bios)
    /\ before \in [Bios -> SUBSET Bios]

\* What no step changes: the bios, and the driver with its mode.
LEMMA Fixed == [Next]_vars => UNCHANGED <<conf, bio>>
BY DEF Next, vars, layerVars, RequestFn, MakeRequest, Submit, CallRequestFn, Refuse,
       SimpleTransfer, FullTransfer, EndCurrent, EndAll, MakeTransfer, MakeEnd,
       EndSegment, EndBio

\* Copies and a bio's positions are all that the handling of a segment changes.
LEMMA HandledIsType ==
    ASSUME TypeOK, UNCHANGED <<conf, bio>>, Handled',
           /\ disk' \in [Sectors -> Contents]
           /\ buf' \in [Bios -> [Sectors -> Contents]]
           /\ strayed' \in BOOLEAN
           /\ moved' \in [Bios -> SUBSET Sectors]
    PROVE  TypeOK'
BY DEF TypeOK, Handled, Descriptions, Contents

\* Steps that leave the disk and the memory of bios alone.
LEMMA NoCopyType ==
    ASSUME TypeOK, UNCHANGED <<conf, bio>>, UNCHANGED copyVars, Handled'
    PROVE  TypeOK'
BY HandledIsType DEF TypeOK, copyVars

\* A new bio joins one list, or none in the modes without a queue.
LEMMA SubmitInv == ASSUME RInv, NEW b \in Bios, Submit(b) PROVE RInv'
<1>1. /\ UNCHANGED <<conf, bio, idx, seg, off, failed, rq>> /\ UNCHANGED copyVars
      /\ st[b] = "new" /\ st' = [st EXCEPT ![b] = "active"]
      /\ before' = [before EXCEPT ![b] = Ended]
  BY DEF Submit
<1>2. TypeOK /\ Positions
  BY DEF RInv
<1>3. queue' \subseteq Seq(Bios)
  <2>1. queue \subseteq Seq(Bios)
    BY <1>2 DEF TypeOK
  <2>2. <<b>> \in Seq(Bios) /\ \A q \in queue : Append(q, b) \in Seq(Bios)
    BY <2>1
  <2>3. \/ queue' = queue \/ queue' = queue \cup {<<b>>}
        \/ \E q \in queue : queue' = (queue \ {q}) \cup {Append(q, b)}
    BY DEF Submit
  <2> QED
    BY <2>1, <2>2, <2>3, Zenon
<1>4. Ended \subseteq Bios
  BY DEF Ended
<1>5. Handled'
  BY <1>1, <1>2, <1>3, <1>4 DEF TypeOK, Handled, Segments
<1>6. Positions'
  <2>1. ~Queued => queue' = {}
    BY <1>2 DEF Submit, Positions
  <2> QED
    BY <1>1, <1>2, <2>1, HalfWayStays DEF TypeOK, Positions, Queued, Segments
<1> QED
  BY <1>1, <1>2, <1>5, <1>6, NoCopyType, SubmitAccounted DEF RInv

\* The request function fetches a request.
LEMMA CallInv == ASSUME RInv, CallRequestFn PROVE RInv'
<1>1. /\ UNCHANGED <<conf, bio, st, idx, seg, off, failed, before>>
      /\ UNCHANGED copyVars
  BY DEF CallRequestFn
<1>2. TypeOK /\ Positions
  BY DEF RInv
<1>3. queue' \subseteq Seq(Bios) /\ rq' \in Seq(Bios) /\ Queued
  BY <1>2 DEF CallRequestFn, Fetch, TypeOK, Positions
<1>4. Handled'
  BY <1>1, <1>2, <1>3 DEF TypeOK, Handled, Segments
<1>5. Positions'
  BY <1>1, <1>2, <1>3 DEF Positions, Queued, Segments
<1> QED
  BY <1>1, <1>2, <1>4, <1>5, NoCopyType, CallAccounted DEF RInv

\* A segment of the request has been accounted for.
LEMMA EndSegmentInv ==
    ASSUME RInv, rq # << >>, NEW bad \in BOOLEAN, EndSegment(bad) PROVE RInv'
<1> DEFINE b == rq[1]
           done == LastSegment(b)
<1>1. /\ idx' = [idx EXCEPT ![b] = @ + 1]
      /\ failed' = [failed EXCEPT ![b] = @ \/ bad]
      /\ st' = [st EXCEPT ![b] = IF done THEN EndStatus(failed'[b]) ELSE @]
      /\ seg' = [c \in Bios |-> IF InRequest(c) THEN idx'[c] + 1 ELSE seg[c]]
      /\ GoOn(IF done THEN Tail(rq) ELSE rq)
      /\ UNCHANGED <<conf, bio, off, before>> /\ UNCHANGED copyVars
  BY DEF EndSegment
<1>2. TypeOK /\ Positions
  BY DEF RInv
<1>3. /\ b \in Bios /\ st[b] = "active" /\ Queued /\ InRequest(b)
      /\ Tail(rq) \in Seq(Bios)
  BY Serves DEF InRequest
<1>4. idx[b] < Segments(b) /\ Segments(b) \in Nat /\ idx[b] \in Nat
  BY <1>2, <1>3, Shapes DEF Positions, TypeOK
<1>5. queue' \subseteq Seq(Bios) /\ rq' \in Seq(Bios)
  BY <1>1, <1>2, <1>3, GoOnType DEF TypeOK
<1>6. \A c \in Bios : /\ idx'[c] \in Nat /\ idx'[c] =< Segments(c)
                      /\ c # b => idx'[c] = idx[c]
                      /\ c = b => idx'[c] = idx[b] + 1
                      /\ seg'[c] \in Nat \ {0} /\ idx'[c] < seg'[c]
                      /\ seg'[c] =< Segments(c) + 1
  <2> SUFFICES ASSUME NEW c \in Bios
               PROVE  /\ idx'[c] \in Nat /\ idx'[c] =< Segments(c)
                      /\ c # b => idx'[c] = idx[c]
                      /\ c = b => idx'[c] = idx[b] + 1
                      /\ seg'[c] \in Nat \ {0} /\ idx'[c] < seg'[c]
                      /\ seg'[c] =< Segments(c) + 1
    OBVIOUS
  <2>1. /\ idx[c] \in Nat /\ seg[c] \in Nat \ {0} /\ Segments(c) \in Nat
        /\ idx[c] =< Segments(c) /\ idx[c] < seg[c] /\ seg[c] =< Segments(c) + 1
    BY <1>2, Shapes DEF TypeOK
  <2>2. idx'[c] = IF c = b THEN idx[b] + 1 ELSE idx[c]
    BY <1>1, <1>2 DEF TypeOK
  <2>3. seg'[c] = IF InRequest(c) THEN idx'[c] + 1 ELSE seg[c]
    BY <1>1
  <2> HIDE DEF b
  <2> QED
    BY <1>3, <1>4, <2>1, <2>2, <2>3, SMTT(30)
<1>7. st' \in [Bios -> {"new", "active", "ok", "err"}] /\ failed' \in [Bios -> BOOLEAN]
  BY <1>1, <1>2 DEF TypeOK, EndStatus
<1>8. idx' \in [Bios -> Nat] /\ seg' \in [Bios -> Nat \ {0}]
  BY <1>1, <1>2, <1>6 DEF TypeOK
<1>9. Handled'
  BY <1>1, <1>2, <1>5, <1>6, <1>7, <1>8 DEF TypeOK, Handled, Segments
<1>10. Positions'
  <2>1. ASSUME NEW c \in Bios, st'[c] \in {"new", "active"}
        PROVE  idx'[c] < Segments(c)
    <3>1. CASE c = b
      <4>1. ~done
        BY <1>1, <1>2, <1>3, <2>1, <3>1 DEF TypeOK, EndStatus
      <4>2. idx[b] + 1 # Segments(b)
        BY <4>1 DEF LastSegment
      <4> QED
        BY <1>4, <1>6, <3>1, <4>2
    <3>2. CASE c # b
      <4>1. st[c] \in {"new", "active"}
        BY <1>1, <1>2, <2>1, <3>2 DEF TypeOK
      <4> QED
        BY <1>2, <1>6, <3>2, <4>1 DEF Positions
    <3> QED
      BY <3>1, <3>2
  <2>2. Queued' /\ \A c \in Bios : off'[c] = 0
    BY <1>1, <1>2, <1>3 DEF Positions, Queued
  <2> QED
    BY <1>1, <1>2, <2>1, <2>2 DEF Positions, Queued, Segments
<1>11. Accounted'
  <2>1. CASE done
    <3>1. failed'[b] \in BOOLEAN /\ st' = [st EXCEPT ![b] = EndStatus(failed'[b])]
      BY <1>1, <1>3, <1>7, <2>1
    <3>2. EndStatus(failed'[b]) \in {"ok", "err"}
      BY DEF EndStatus
    <3> QED
      BY <1>1, <2>1, <3>1, <3>2, DropHead
  <2>2. CASE ~done
    <3>1. st' = st
      BY <1>1, <1>2, <2>2 DEF TypeOK
    <3>2. rq' = rq /\ queue' = queue
      BY <1>1, <2>2 DEF GoOn
    <3> QED
      BY <1>1, <3>1, <3>2, StillAccounted
  <2> QED
    BY <2>1, <2>2
<1> QED
  BY <1>1, <1>2, <1>9, <1>10, <1>11, NoCopyType DEF RInv

\* The current bio ends.
LEMMA EndBioInv ==
    ASSUME RInv, rq # << >>, NEW e \in {"ok", "err"}, EndBio(e) PROVE RInv'
<1>1. /\ st' = [st EXCEPT ![rq[1]] = e] /\ GoOn(Tail(rq))
      /\ UNCHANGED <<conf, bio, idx, seg, off, failed, before>>
      /\ UNCHANGED copyVars
  BY DEF EndBio
<1>2. TypeOK /\ Positions
  BY DEF RInv
<1>3. Tail(rq) \in Seq(Bios) /\ Queued
  BY Serves
<1>4. queue' \subseteq Seq(Bios) /\ rq' \in Seq(Bios)
  BY <1>1, <1>2, <1>3, GoOnType DEF TypeOK
<1>5. st' \in [Bios -> {"new", "active", "ok", "err"}]
  BY <1>1, <1>2 DEF TypeOK
<1>6. Handled'
  BY <1>1, <1>2, <1>4, <1>5 DEF TypeOK, Handled, Segments
<1>7. Positions'
  <2>1. \A c \in Bios : st'[c] \in {"new", "active"} => st[c] \in {"new", "active"}
    BY <1>1, <1>2 DEF TypeOK
  <2> QED
    BY <1>1, <1>2, <1>3, <2>1 DEF Positions, Queued, Segments
<1> QED
  BY <1>1, <1>2, <1>6, <1>7, NoCopyType, DropHead DEF RInv

\* The next segment is v.
LEMMA SegMoves ==
    ASSUME TypeOK, NEW b \in Bios, NEW v \in Nat, idx[b] < v, v =< Segments(b) + 1,
           seg' = [seg EXCEPT ![b] = v],
           off' \in [Bios -> Nat], failed' \in [Bios -> BOOLEAN],
           UNCHANGED <<conf, bio, st, idx, queue, rq, before>>
    PROVE  Handled'
<1>1. \A c \in Bios : Segments(c)' = Segments(c) /\ seg'[c] = IF c = b THEN v ELSE seg[c]
  BY DEF TypeOK, Segments
<1>2. idx[b] \in Nat /\ v \in Nat \ {0}
  BY DEF TypeOK
<1>3. seg' \in [Bios -> Nat \ {0}]
  BY <1>2 DEF TypeOK
<1>4. \A c \in Bios : idx[c] =< Segments(c) /\ idx[c] < seg'[c] /\ seg'[c] =< Segments(c) + 1
  BY <1>1 DEF TypeOK
<1> QED
  BY <1>1, <1>3, <1>4 DEF TypeOK, Handled

\* With a queue, a sector is never left half way.
LEMMA QueuedPositions ==
    ASSUME TypeOK, Positions, Queued, UNCHANGED <<conf, bio, st, idx, off>>
    PROVE  Positions'
BY DEF Positions, Queued, Segments

\* A segment of a request is copied or found to be beyond the end.
LEMMA SimpleInv == ASSUME RInv, SimpleTransfer PROVE RInv'
<1> DEFINE b == rq[1]
<1>1. /\ UNCHANGED <<conf, bio, st, idx, off, queue, rq, before>>
      /\ seg[b] = idx[b] + 1 /\ seg' = [seg EXCEPT ![b] = @ + 1] /\ rq # << >>
  BY DEF SimpleTransfer, Serving
<1>2. TypeOK /\ Positions
  BY DEF RInv
<1>3. b \in Bios /\ st[b] = "active" /\ Queued
  BY <1>1, Serves
<1>4. /\ idx[b] < Segments(b) /\ Segments(b) \in Nat /\ idx[b] \in Nat
      /\ seg \in [Bios -> Nat \ {0}]
  BY <1>2, <1>3, Shapes DEF Positions, TypeOK
<1> HIDE DEF b
<1>5. seg[b] \in 1 .. Segments(b) /\ idx[b] < seg[b]
  BY <1>1, <1>4
<1>6. seg' = [seg EXCEPT ![b] = seg[b] + 1]
  BY <1>1, <1>3, <1>4
<1>7. seg[b] + 1 \in Nat /\ idx[b] < seg[b] + 1 /\ seg[b] + 1 =< Segments(b) + 1
  BY <1>4, <1>5
<1>8. off' \in [Bios -> Nat] /\ failed \in [Bios -> BOOLEAN]
  BY <1>1, <1>2 DEF TypeOK
<1>9. Positions' /\ Accounted'
  BY <1>1, <1>2, <1>3, QueuedPositions, StillAccounted
<1>10. CASE UNCHANGED copyVars /\ failed' = [failed EXCEPT ![b] = @ \/ Reported]
  <2>1. failed' \in [Bios -> BOOLEAN]
    BY <1>8, <1>10 DEF Reported
  <2>2. Handled'
    BY <1>1, <1>2, <1>3, <1>6, <1>7, <1>8, <2>1, SegMoves
  <2> QED
    BY <1>1, <1>2, <1>9, <1>10, <2>2, NoCopyType DEF RInv
<1>11. CASE /\ ~BeyondEnd(b, seg[b]) /\ failed' = failed
            /\ Copy(b, seg[b], 0 .. Nsect(b, seg[b]) - 1)
  <2>1. Handled'
    BY <1>1, <1>2, <1>3, <1>6, <1>7, <1>8, <1>11, SegMoves
  <2> QED
    BY <1>1, <1>2, <1>3, <1>5, <1>9, <1>11, <2>1, CopyType, HandledIsType DEF RInv
<1> QED
  BY <1>10, <1>11 DEF SimpleTransfer, b

\* A segment of a bio of the current request, in the full modes.
LEMMA FullInv == ASSUME RInv, FullTransfer PROVE RInv'
<1>1. /\ UNCHANGED <<conf, bio, st, idx, off, queue, rq, before, failed>> /\ rq # << >>
  BY DEF FullTransfer, Serving, layerVars
<1>2. TypeOK /\ Positions
  BY DEF RInv
<1>3. PICK b \in Bios :
         /\ st[b] = "active" /\ seg[b] =< Segments(b)
         /\ \/ seg' = [seg EXCEPT ![b] = NextSegment(b)] /\ UNCHANGED copyVars
            \/ /\ ~BeyondEnd(b, seg[b])
               /\ seg' = [seg EXCEPT ![b] = @ + 1]
               /\ Copy(b, seg[b], 0 .. Nsect(b, seg[b]) - 1)
  BY <1>1, Serves DEF FullTransfer
<1>4. /\ Segments(b) \in Nat /\ idx[b] \in Nat /\ seg \in [Bios -> Nat \ {0}]
      /\ idx[b] < seg[b]
  BY <1>2, <1>3, Shapes DEF TypeOK
<1>5. seg[b] \in 1 .. Segments(b)
  BY <1>3, <1>4
<1>6. \A v \in {seg[b] + 1, NextSegment(b)} :
         v \in Nat /\ idx[b] < v /\ v =< Segments(b) + 1
  BY <1>4, <1>5 DEF NextSegment
<1>7. off' \in [Bios -> Nat] /\ failed' \in [Bios -> BOOLEAN]
  BY <1>1, <1>2 DEF TypeOK
<1>8. Positions' /\ Accounted'
  BY <1>1, <1>2, Serves, QueuedPositions, StillAccounted
<1>9. CASE seg' = [seg EXCEPT ![b] = NextSegment(b)] /\ UNCHANGED copyVars
  <2>1. Handled'
    BY <1>1, <1>2, <1>6, <1>7, <1>9, SegMoves
  <2> QED
    BY <1>1, <1>2, <1>8, <1>9, <2>1, NoCopyType DEF RInv
<1>10. CASE /\ ~BeyondEnd(b, seg[b]) /\ seg' = [seg EXCEPT ![b] = @ + 1]
            /\ Copy(b, seg[b], 0 .. Nsect(b, seg[b]) - 1)
  <2>1. seg' = [seg EXCEPT ![b] = seg[b] + 1]
    BY <1>4, <1>10
  <2>2. Handled'
    BY <1>1, <1>2, <1>6, <1>7, <2>1, SegMoves
  <2> QED
    BY <1>1, <1>2, <1>4, <1>5, <1>8, <1>10, <2>2, CopyType, HandledIsType DEF RInv
<1> QED
  BY <1>3, <1>9, <1>10

\* A segment of a bio in make_request.
LEMMA MakeTransferInv == ASSUME RInv, NEW b \in Bios, MakeTransfer(b) PROVE RInv'
<1>1. /\ UNCHANGED <<conf, bio, st, idx, queue, rq, before>> /\ ~Queued
      /\ st[b] = "active" /\ seg[b] =< Segments(b)
  BY DEF MakeTransfer, Making
<1>2. TypeOK /\ Positions
  BY DEF RInv
<1>3. /\ Segments(b) \in Nat /\ idx[b] \in Nat /\ seg \in [Bios -> Nat \ {0}]
      /\ idx[b] < seg[b] /\ off \in [Bios -> Nat] /\ failed \in [Bios -> BOOLEAN]
  BY <1>2, Shapes DEF TypeOK
<1>4. seg[b] \in 1 .. Segments(b)
  BY <1>1, <1>3
<1>5. \A v \in {seg[b], seg[b] + 1, NextSegment(b)} :
         v \in Nat /\ idx[b] < v /\ v =< Segments(b) + 1
  BY <1>3, <1>4 DEF NextSegment
<1>6. Accounted'
  BY <1>1, StillAccounted
<1>7. \A c \in Bios : Segments(c)' = Segments(c)
  BY <1>1 DEF Segments
<1>8. ASSUME NEW v \in {seg[b], seg[b] + 1, NextSegment(b)}, NEW o \in Nat,
             seg' = [seg EXCEPT ![b] = v], off' = [off EXCEPT ![b] = o],
             o > 0 => /\ v = seg[b] /\ ~BeyondEnd(b, v) /\ o < Nsect(b, v)
      PROVE  Positions'
  <2>1. ASSUME NEW c \in Bios, off'[c] > 0
        PROVE  seg'[c] =< Segments(c) /\ ~BeyondEnd(c, seg'[c]) /\ off'[c] < Nsect(c, seg'[c])
    <3>1. CASE c = b
      BY <1>1, <1>3, <1>8, <2>1, <3>1
    <3>2. CASE c # b
      <4>1. off'[c] = off[c] /\ seg'[c] = seg[c]
        BY <1>3, <1>8, <3>2
      <4> QED
        BY <1>2, <2>1, <4>1 DEF Positions, HalfWay
    <3> QED
      BY <3>1, <3>2
  <2>2. ASSUME NEW c \in Bios, off'[c] > 0
        PROVE  HalfWay(c)'
    <3>1. Nsect(c, seg[c])' = Nsect(c, seg'[c]) /\ (BeyondEnd(c, seg[c])' <=> BeyondEnd(c, seg'[c]))
      BY <1>1 DEF Nsect, XdNsect, SbullNsect, Length, BeyondEnd, Dest
    <3> QED
      BY <1>7, <2>1, <2>2, <3>1 DEF HalfWay
  <2> QED
    BY <1>1, <1>2, <1>7, <2>2 DEF Positions, Queued
<1>9. CASE /\ off[b] = 0 /\ BeyondEnd(b, seg[b])
           /\ seg' = [seg EXCEPT ![b] = NextSegment(b)]
           /\ failed' = [failed EXCEPT ![b] = @ \/ Reported]
           /\ UNCHANGED off /\ UNCHANGED copyVars
  <2>1. failed' \in [Bios -> BOOLEAN] /\ off' = [off EXCEPT ![b] = 0]
    BY <1>3, <1>9 DEF Reported
  <2>2. Positions'
    <3>1. 0 \in Nat /\ ~(0 > 0) /\ NextSegment(b) \in {seg[b], seg[b] + 1, NextSegment(b)}
      OBVIOUS
    <3> QED
      BY <1>8, <1>9, <2>1, <3>1, Zenon
  <2>3. Handled'
    BY <1>1, <1>2, <1>3, <1>5, <1>9, <2>1, SegMoves
  <2> QED
    BY <1>1, <1>2, <1>6, <1>9, <2>2, <2>3, NoCopyType DEF RInv
<1>10. CASE /\ off[b] > 0 \/ ~BeyondEnd(b, seg[b])
            /\ Copy(b, seg[b], {off[b]})
            /\ IF off[b] + 1 < Nsect(b, seg[b])
               THEN off' = [off EXCEPT ![b] = @ + 1] /\ UNCHANGED seg
               ELSE off' = [off EXCEPT ![b] = 0] /\ seg' = [seg EXCEPT ![b] = @ + 1]
            /\ UNCHANGED failed
  <2>1. ~BeyondEnd(b, seg[b])
    BY <1>2, <1>3, <1>10 DEF Positions, HalfWay
  <2>2. Nsect(b, seg[b]) \in Nat \ {0} /\ off[b] < Nsect(b, seg[b])
    BY <1>2, <1>3, <1>4, Asked DEF Positions, HalfWay
  <2>3. {off[b]} \in SUBSET (0 .. Nsect(b, seg[b]) - 1)
    BY <1>3, <2>2
  <2>4. CASE off[b] + 1 < Nsect(b, seg[b])
    <3>1. /\ off' = [off EXCEPT ![b] = off[b] + 1] /\ seg' = [seg EXCEPT ![b] = seg[b]]
          /\ off[b] + 1 \in Nat
      BY <1>3, <1>10, <2>4
    <3>2. Positions'
      BY <1>8, <2>1, <2>4, <3>1
    <3>3. Handled'
      BY <1>1, <1>2, <1>3, <1>5, <1>10, <3>1, SegMoves
    <3> QED
      BY <1>1, <1>2, <1>3, <1>4, <1>6, <1>10, <2>1, <2>3, <3>2, <3>3, CopyType,
         HandledIsType DEF RInv
  <2>5. CASE ~(off[b] + 1 < Nsect(b, seg[b]))
    <3>1. off' = [off EXCEPT ![b] = 0] /\ seg' = [seg EXCEPT ![b] = seg[b] + 1]
      BY <1>3, <1>10, <2>5
    <3>2. Positions'
      <4>1. 0 \in Nat /\ ~(0 > 0) /\ seg[b] + 1 \in {seg[b], seg[b] + 1, NextSegment(b)}
        OBVIOUS
      <4> QED
        BY <1>8, <3>1, <4>1, Zenon
    <3>3. Handled'
      BY <1>1, <1>2, <1>3, <1>5, <1>10, <3>1, SegMoves
    <3> QED
      BY <1>1, <1>2, <1>3, <1>4, <1>6, <1>10, <2>1, <2>3, <3>2, <3>3, CopyType,
         HandledIsType DEF RInv
  <2> QED
    BY <2>4, <2>5
<1> QED
  BY <1>9, <1>10 DEF MakeTransfer

\* The end of a bio in make_request.
LEMMA MakeEndInv == ASSUME RInv, NEW b \in Bios, MakeEnd(b) PROVE RInv'
<1>1. /\ st' = [st EXCEPT ![b] = EndStatus(failed[b])] /\ ~Queued
      /\ UNCHANGED <<conf, bio, idx, seg, off, failed, queue, rq, before>>
      /\ UNCHANGED copyVars
  BY DEF MakeEnd, Making
<1>2. TypeOK /\ Positions /\ queue = {} /\ rq = << >>
  BY <1>1 DEF RInv, Positions
<1>3. st' \in [Bios -> {"new", "active", "ok", "err"}]
  BY <1>1, <1>2 DEF TypeOK, EndStatus
<1>4. Handled'
  BY <1>1, <1>2, <1>3 DEF TypeOK, Handled, Segments
<1>5. Positions'
  <2>1. \A c \in Bios : st'[c] \in {"new", "active"} => st[c] \in {"new", "active"}
    BY <1>1, <1>2 DEF TypeOK, EndStatus
  <2> QED
    BY <1>1, <1>2, <2>1, HalfWayStays DEF Positions, Queued, Segments
<1>6. Accounted'
  <2>1. Lists' = {<< >>} /\ ~Queued'
    BY <1>1, <1>2 DEF Lists, Queued
  <2>2. DOMAIN << >> = {}
    OBVIOUS
  <2> QED
    BY <1>1, <1>2, <2>1, <2>2 DEF Accounted, Ledger, Placed, Unique
<1> QED
  BY <1>1, <1>2, <1>4, <1>5, <1>6, NoCopyType DEF RInv

-----------------------------------------------------------------------------
\* Every configuration.

\* Nothing has been submitted yet.
LEMMA InitRInv == Init => RInv
<1> SUFFICES ASSUME Init PROVE RInv
  OBVIOUS
<1>1. /\ conf \in Configs /\ bio \in [Bios -> Descriptions]
      /\ st  = [b \in Bios |-> "new"] /\ idx = [b \in Bios |-> 0]
      /\ seg = [b \in Bios |-> 1] /\ off = [b \in Bios |-> 0]
      /\ queue = {} /\ rq = << >>
  BY DEF Init
<1>2. \A b \in Bios : Segments(b) \in Nat \ {0}
  <2> SUFFICES ASSUME NEW b \in Bios PROVE Segments(b) \in Nat \ {0}
    OBVIOUS
  <2>1. IsShape(bio[b].shape)
    BY <1>1, ConfigsAssumption DEF Descriptions
  <2> DEFINE sh == bio[b].shape
  <2>2. Len(sh) \in Nat /\ Len(sh) > 1
    BY <2>1, ShapeRises, Zenon
  <2>3. Segments(b) = Len(sh) - 1
    BY DEF Segments
  <2> HIDE DEF sh
  <2> QED
    BY <2>2, <2>3
<1>3. TypeOK
  <2>1. \A b \in Bios : /\ idx[b] = 0 /\ seg[b] = 1 /\ idx[b] =< Segments(b)
                        /\ idx[b] < seg[b] /\ seg[b] =< Segments(b) + 1
    <3>1. \A b \in Bios : idx[b] = 0 /\ seg[b] = 1
      BY <1>1
    <3>2. \A n \in Nat \ {0} : 0 =< n /\ 0 < 1 /\ 1 =< n + 1
      OBVIOUS
    <3> QED
      BY <1>2, <3>1, <3>2
  <2>2. /\ idx \in [Bios -> Nat] /\ seg \in [Bios -> Nat \ {0}] /\ off \in [Bios -> Nat]
        /\ rq \in Seq(Bios)
    BY <1>1
  <2> QED
    BY <1>1, <2>1, <2>2 DEF Init, TypeOK, Contents
<1>4. Positions
  <2>1. \A b \in Bios : idx[b] < Segments(b) /\ off[b] = 0 /\ ~(off[b] > 0)
    <3>1. \A b \in Bios : idx[b] = 0 /\ off[b] = 0
      BY <1>1
    <3>2. \A n \in Nat \ {0} : 0 < n /\ ~(0 > 0)
      OBVIOUS
    <3> QED
      BY <1>2, <3>1, <3>2
  <2> QED
    BY <1>1, <2>1 DEF Init, Positions
<1>5. Accounted
  <2>1. Lists = {<< >>} /\ DOMAIN << >> = {}
    BY <1>1 DEF Lists
  <2> QED
    BY <1>1, <2>1 DEF Accounted, Ledger, Placed, Unique, Complete
<1> QED
  BY <1>3, <1>4, <1>5 DEF RInv

\* An action of the request function is one of these.
LEMMA RequestFnInv == ASSUME RInv, RequestFn PROVE RInv'
<1>1. CASE CallRequestFn
  BY <1>1, CallInv
<1>2. CASE Refuse
  <2>1. rq # << >>
    BY <1>2 DEF Refuse, Refused
  <2>2. (conf.driver # "lab2") \in BOOLEAN
    OBVIOUS
  <2> QED
    BY <1>2, <2>1, <2>2, EndBioInv, EndSegmentInv DEF Refuse
<1>3. CASE SimpleTransfer
  BY <1>3, SimpleInv
<1>4. CASE FullTransfer
  BY <1>4, FullInv
<1>5. CASE EndCurrent
  BY <1>5, EndSegmentInv DEF EndCurrent, Serving
<1>6. CASE EndAll
  BY <1>6, EndBioInv DEF EndAll, Serving
<1> QED
  BY <1>1, <1>2, <1>3, <1>4, <1>5, <1>6 DEF RequestFn

\* The invariant, step by step.
LEMMA NextRInv == RInv /\ [Next]_vars => RInv'
<1> SUFFICES ASSUME RInv, [Next]_vars PROVE RInv'
  OBVIOUS
<1>1. CASE RequestFn
  BY <1>1, RequestFnInv
<1>2. ASSUME NEW b \in Bios, Submit(b) PROVE RInv'
  BY <1>2, SubmitInv
<1>3. ASSUME NEW b \in Bios, MakeRequest(b) PROVE RInv'
  BY <1>3, MakeTransferInv, MakeEndInv DEF MakeRequest
<1>4. CASE UNCHANGED vars
  <2>1. /\ UNCHANGED <<conf, bio, st, idx, failed, queue, rq, before, seg, off>>
        /\ UNCHANGED copyVars
    BY <1>4 DEF vars, layerVars
  <2>2. TypeOK /\ Positions
    BY DEF RInv
  <2>3. Handled'
    BY <2>1, <2>2 DEF Handled, TypeOK, Segments
  <2>4. Positions'
    BY <2>1, <2>2, HalfWayStays DEF Positions, Queued, Segments
  <2> QED
    BY <2>1, <2>2, <2>3, <2>4, StillAccounted, NoCopyType DEF RInv
<1> QED
  BY <1>1, <1>2, <1>3, <1>4 DEF Next

\* In every configuration, sound or not: the counters of a bio agree with each other,
\* and the queue, the current request and the active bios account for each other.
THEOREM Invariance == Spec => []RInv
<1> QED
  BY InitRInv, NextRInv, PTL DEF Spec

\* In all of the drivers and modes, a copy writes to sectors of the disk only, what a
\* bio reads is copied from there (the check of transfer, block_mod_s.c), and what is
\* accounted for never goes past the bio's last segment.
THEOREM TypeCorrect == Spec => []TypeOK
<1>1. RInv => TypeOK
  BY DEF RInv
<1> QED
  BY <1>1, Invariance, PTL

\* In all of the drivers and modes with a queue, an active bio is at one place of one
\* request, however bios join requests, requests are fetched, and bios end one by one.
THEOREM OneRequestEachHolds == Spec => []OneRequestEach
<1>1. RInv => OneRequestEach
  <2> SUFFICES ASSUME RInv, Queued, NEW b \in Bios
               PROVE  st[b] = "active" <=>
                        \E q \in Requests : \E k \in DOMAIN q :
                            /\ q[k] = b
                            /\ \A r \in Requests : \A n \in DOMAIN r :
                                  r[n] = b => r = q /\ n = k
    BY DEF OneRequestEach
  <2>1. Requests \subseteq Lists /\ Lists \subseteq Requests \cup {<< >>}
    BY DEF Requests, Lists
  <2>2. Placed(Lists) /\ Unique(Lists) /\ Complete(Lists)
    BY DEF RInv, Accounted, Ledger
  <2>3. ASSUME st[b] = "active"
        PROVE  \E q \in Requests : \E k \in DOMAIN q :
                  /\ q[k] = b
                  /\ \A r \in Requests : \A n \in DOMAIN r : r[n] = b => r = q /\ n = k
    <3>1. PICK q \in Lists : \E k \in DOMAIN q : q[k] = b
      BY <2>2, <2>3 DEF Complete
    <3>2. PICK k \in DOMAIN q : q[k] = b
      BY <3>1
    <3>3. q \in Requests
      BY <2>1, <3>2
    <3>4. \A r \in Requests : \A n \in DOMAIN r : r[n] = b => r = q /\ n = k
      BY <2>1, <2>2, <3>2 DEF Unique
    <3> QED
      BY <3>2, <3>3, <3>4
  <2>4. ASSUME NEW q \in Requests, NEW k \in DOMAIN q, q[k] = b
        PROVE  st[b] = "active"
    BY <2>1, <2>2, <2>4 DEF Placed
  <2> QED
    BY <2>3, <2>4
<1> QED
  BY <1>1, Invariance, PTL

-----------------------------------------------------------------------------
\* Sound configurations.

\* The offsets of the bio that the sectors J of a copy with the segment at x are.
Shift(x, J) == {x + j : j \in J}

\* A shifted interval, member by member.
LEMMA Shifted ==
    ASSUME NEW x \in Nat, NEW n \in Nat, NEW J \in SUBSET (0 .. n - 1)
    PROVE  /\ \A o \in Int : o \in Shift(x, J) <=> o - x \in J
           /\ Shift(x, J) \subseteq x .. x + n - 1
<1>1. \A j \in J : j \in Int /\ 0 =< j /\ j =< n - 1 /\ (x + j) - x = j
  OBVIOUS
<1>2. ASSUME NEW o \in Int PROVE o \in Shift(x, J) <=> o - x \in J
  <2>1. o - x \in J => o = x + (o - x)
    OBVIOUS
  <2> QED
    BY <1>1, <2>1 DEF Shift
<1> QED
  BY <1>1, <1>2 DEF Shift

\* A copy made for a segment is one that BlockDevice allows.
LEMMA SoundCopy ==
    ASSUME AllSound, TypeOK, SegmentsIndependent, NEW b \in Bios,
           NEW i \in 1 .. Segments(b), idx[b] < i,
           IF conf.mode = "RM_SIMPLE" THEN i = idx[b] + 1 ELSE idx[b] = 0,
           NEW J \in SUBSET (0 .. Nsect(b, i) - 1), Copy(b, i, J)
    PROVE  LET O == Shift(bio[b].shape[i], J) IN
           /\ O \subseteq 0 .. Total(bio[b].shape) - 1
           /\ moved' = [moved EXCEPT ![b] = @ \cup O]
           /\ SegmentsIndependent'
           /\ Device!Write(b, O) \/ Device!Read(b, O)
<1> DEFINE at == bio[b].shape[i]
           O  == Shift(at, J)
           S  == bio[b].sector
<1>1. /\ Nsect(b, i) = Length(b, i) /\ Dest(b, i) = S + at
      /\ Length(b, i) \in Nat /\ at \in Nat /\ at + Length(b, i) =< Total(bio[b].shape)
      /\ Total(bio[b].shape) \in Nat /\ S \in Nat /\ S + Total(bio[b].shape) =< Size
  BY OwnSectors, Lengths, Shapes
<1>2. J \in SUBSET (0 .. Length(b, i) - 1)
  BY <1>1
<1>3. \A j \in J : j \in Nat /\ InSegment(b, i, j)
  BY <1>1, <1>2 DEF InSegment
<1>4. /\ \A o \in Int : o \in O <=> o - at \in J
      /\ O \subseteq at .. at + Length(b, i) - 1
  BY <1>1, <1>2, Shifted
<1>5. O \subseteq 0 .. Total(bio[b].shape) - 1
  <2> HIDE DEF at, O
  <2> QED
    BY <1>1, <1>4
<1>6. {j \in J : InSegment(b, i, j)} = J
  BY <1>3
<1>7. {Offset(b, i, j) : j \in {k \in J : InSegment(b, i, k)}} = O
  BY <1>6 DEF Offset, Shift
<1>8. moved' = [moved EXCEPT ![b] = @ \cup O]
  BY <1>7 DEF Copy
<1>9. \A s \in Sectors : /\ s \in Int /\ s - Dest(b, i) = (s - S) - at
                         /\ s - S \in Int
  <2> HIDE DEF at, S
  <2> QED
    BY <1>1, ConfigsAssumption DEF Sectors
<1>10. \A s \in Sectors : s - Dest(b, i) \in J <=> s - S \in O
  <2> HIDE DEF at, O, S
  <2> QED
    BY <1>4, <1>9
<1>11. \A s \in Sectors : s - S \in O =>
          Payload(b, i, s - Dest(b, i)) = <<b, s - S>>
  <2> SUFFICES ASSUME NEW s \in Sectors, s - S \in O
               PROVE  Payload(b, i, s - Dest(b, i)) = <<b, s - S>>
    OBVIOUS
  <2>1. Payload(b, i, s - Dest(b, i)) = <<b, at + (s - Dest(b, i))>>
    BY <1>3, <1>10 DEF Payload, Offset
  <2>2. at + (s - Dest(b, i)) = s - S
    <3> HIDE DEF at, S, O
    <3> QED
      BY <1>1, <1>9
  <2> QED
    BY <2>1, <2>2
<1>12. \A o \in Sectors : /\ o - at \in J <=> o \in O
                          /\ o \in O => Dest(b, i) + o - at = S + o
  <2>1. \A o \in Sectors : o \in Int
    BY ConfigsAssumption DEF Sectors
  <2> HIDE DEF at, O, S
  <2> QED
    BY <1>1, <1>4, <2>1
<1>13. CASE /\ bio[b].dir = "write"
            /\ disk' = [s \in Sectors |-> IF s - Dest(b, i) \in J
                                          THEN Payload(b, i, s - Dest(b, i))
                                          ELSE disk[s]]
            /\ UNCHANGED <<buf, strayed>>
  <2>1. disk' = [s \in Sectors |-> IF s - S \in O THEN <<b, s - S>> ELSE disk[s]]
    BY <1>10, <1>11, <1>13
  <2>2. \A s \in Sectors : s - S \in O => <<b, s - S>> # Stray
    <3>1. \A s \in Sectors : s - S \in O => s - S \in 0 .. Size - 1
      <4>1. \A o \in 0 .. Total(bio[b].shape) - 1 : o \in 0 .. Size - 1
        <5> HIDE DEF S
        <5> QED
          BY <1>1, ConfigsAssumption
      <4> QED
        BY <1>5, <4>1
    <3> QED
      BY <3>1, ConfigsAssumption
  <2>3. SegmentsIndependent'
    BY <1>13, <2>1, <2>2 DEF SegmentsIndependent
  <2>4. Device!Write(b, O)
    BY <1>13, <2>1 DEF Device!Write, Device!Payload, Device!Sectors, Sectors
  <2> QED
    BY <1>5, <1>8, <2>3, <2>4
<1>14. CASE /\ bio[b].dir = "read"
            /\ buf' = [buf EXCEPT ![b] = [o \in Sectors |->
                          IF o - at \in {j \in J : InSegment(b, i, j)}
                          THEN disk[Dest(b, i) + o - at]
                          ELSE buf[b][o]]]
            /\ strayed' = (strayed \/ {j \in J : InSegment(b, i, j)} # J)
            /\ UNCHANGED disk
  <2>1. [o \in Sectors |-> IF o - at \in J THEN disk[Dest(b, i) + o - at] ELSE buf[b][o]]
          = [o \in Sectors |-> IF o \in O THEN disk[S + o] ELSE buf[b][o]]
    BY <1>12
  <2>2. buf' = [buf EXCEPT ![b] = [o \in Sectors |->
                   IF o \in O THEN disk[S + o] ELSE buf[b][o]]]
    BY <1>6, <1>14, <2>1
  <2>3. SegmentsIndependent'
    BY <1>6, <1>14 DEF SegmentsIndependent
  <2>4. Device!Read(b, O)
    BY <1>14, <2>2 DEF Device!Read, Device!Sectors, Sectors
  <2> QED
    BY <1>5, <1>8, <2>3, <2>4
<1> QED
  BY <1>13, <1>14 DEF Copy

\* What a step of a request function may be for BlockDevice.
Promised == Device!Next \/ UNCHANGED Device!vars

\* Nothing is copied, and no bio begins or ends.
LEMMA Idle ==
    ASSUME UNCHANGED <<bio, st, disk, buf, moved, before>> PROVE Promised
BY DEF Promised, Device!vars

\* The lengths of bios, as BlockDevice sees them.
LEMMA Mapped ==
    ASSUME NEW b \in Bios
    PROVE  Device!Offsets(b) = 0 .. Total(bio[b].shape) - 1
BY DEF Device!Offsets

\* Where nothing changes, what was covered stays so.
LEMMA CoveredStays ==
    ASSUME NEW c \in Bios, Covered(c), UNCHANGED <<conf, bio>>,
           UNCHANGED <<moved[c], seg[c], off[c], failed[c], idx[c]>>,
           st'[c] \in {"new", "active"} => st[c] \in {"new", "active"}
    PROVE  Covered(c)'
BY DEF Covered

\* The sectors off[b] to n of the segment are copied next.
LEMMA CopyCovers ==
    ASSUME AllSound, TypeOK, SInv, NEW b \in Bios, st[b] = "active",
           seg[b] =< Segments(b), conf.mode = "RM_SIMPLE" => seg[b] = idx[b] + 1,
           NEW n \in Nat, n < Nsect(b, seg[b]), off[b] =< n,
           Copy(b, seg[b], off[b] .. n),
           UNCHANGED <<conf, bio, st, idx, failed, before>>,
           \A c \in Bios : c # b => seg'[c] = seg[c] /\ off'[c] = off[c],
           bio[b].shape[seg'[b]] + off'[b] = bio[b].shape[seg[b]] + n + 1
    PROVE  SInv' /\ Promised
<1> DEFINE at == bio[b].shape[seg[b]]
           J  == off[b] .. n
           O  == Shift(at, J)
<1>1. /\ seg[b] \in 1 .. Segments(b) /\ idx[b] < seg[b] /\ off[b] \in Nat
      /\ moved \in [Bios -> SUBSET Sectors]
  BY Shapes, SMTT(30) DEF TypeOK
<1>2. bio[b].dir # "other" /\ Covered(b)
  BY DEF Copy, SInv
<1>3. IF conf.mode = "RM_SIMPLE" THEN seg[b] = idx[b] + 1 ELSE idx[b] = 0
  BY <1>2 DEF Covered
<1>4. Nsect(b, seg[b]) \in Nat /\ at \in Nat
  BY <1>1, Asked, Lengths
<1>5. J \in SUBSET (0 .. Nsect(b, seg[b]) - 1)
  BY <1>1, <1>4
<1>6. /\ O \subseteq 0 .. Total(bio[b].shape) - 1
      /\ moved' = [moved EXCEPT ![b] = @ \cup O]
      /\ SegmentsIndependent'
      /\ Device!Write(b, O) \/ Device!Read(b, O)
  BY <1>1, <1>3, <1>5, SoundCopy DEF SInv
<1>7. Promised
  <2>1. Device!Move(b)
    BY <1>6, Mapped DEF Device!Move
  <2> QED
    BY <2>1 DEF Promised, Device!Next
<1>8. moved'[b] = moved[b] \cup O /\ \A c \in Bios : c # b => moved'[c] = moved[c]
  BY <1>1, <1>6
<1>9. 0 .. (bio[b].shape[seg'[b]] + off'[b]) - 1 \subseteq moved'[b]
  <2>1. 0 .. (at + off[b]) - 1 \subseteq moved[b]
    BY <1>2 DEF Covered
  <2>2. \A o \in Int : o \in O <=> o - at \in J
    BY <1>4, <1>5, Shifted
  <2>3. \A o \in 0 .. at + n : o \in 0 .. (at + off[b]) - 1 \/ o \in O
    <3> HIDE DEF at, O
    <3> QED
      BY <1>1, <1>4, <2>2
  <2> DEFINE next == bio[b].shape[seg'[b]] + off'[b]
  <2>4. next = at + n + 1
    OBVIOUS
  <2> HIDE DEF next
  <2>5. next - 1 = at + n
    <3> HIDE DEF at
    <3> QED
      BY <1>4, <2>4
  <2>6. 0 .. next - 1 \subseteq moved'[b]
    BY <1>8, <2>1, <2>3, <2>5
  <2> QED
    BY <2>6, Zenon DEF next
<1>10. Covered(b)'
  BY <1>2, <1>6, <1>8, <1>9 DEF Covered
<1>11. \A c \in Bios : c # b /\ bio[c].dir # "other" => Covered(c)'
  BY <1>8, CoveredStays DEF SInv
<1> QED
  BY <1>6, <1>7, <1>10, <1>11 DEF SInv

\* A bio is submitted, or the request function called: nothing is copied.
LEMMA SoundSubmit == ASSUME RInv, SInv, NEW b \in Bios, Submit(b) PROVE SInv' /\ Promised
<1>1. /\ UNCHANGED <<conf, bio, idx, seg, off, failed>> /\ UNCHANGED copyVars
      /\ st[b] = "new" /\ st' = [st EXCEPT ![b] = "active"]
      /\ before' = [before EXCEPT ![b] = Ended]
  BY DEF Submit
<1>2. \A c \in Bios : bio[c].dir # "other" => Covered(c)'
  BY <1>1, CoveredStays DEF SInv, copyVars, RInv, TypeOK
<1>3. SegmentsIndependent'
  BY <1>1 DEF SInv, SegmentsIndependent, copyVars
<1>4. Device!Submit(b)
  BY <1>1 DEF Device!Submit, Device!Ended, Ended, copyVars
<1> QED
  BY <1>1, <1>2, <1>3, <1>4 DEF SInv, Promised, Device!Next

\* Steps of which neither a bio nor what it holds is part.
LEMMA SoundIdle ==
    ASSUME SInv, UNCHANGED <<conf, bio, st, idx, seg, off, failed, before>>,
           UNCHANGED copyVars
    PROVE  SInv' /\ Promised
<1>1. \A c \in Bios : bio[c].dir # "other" => Covered(c)'
  BY CoveredStays DEF SInv, copyVars
<1>2. SegmentsIndependent'
  BY DEF SInv, SegmentsIndependent, copyVars
<1> QED
  BY <1>1, <1>2, Idle DEF SInv, copyVars

\* A bio ends with the status that it should have.
LEMMA EndIsPromised ==
    ASSUME RInv, SInv, NEW b \in Bios, st[b] = "active",
           \/ st' = [st EXCEPT ![b] = "err"] /\ bio[b].dir = "other"
           \/ /\ st' = [st EXCEPT ![b] = "ok"] /\ bio[b].dir # "other"
              /\ seg[b] = Segments(b) + 1 /\ off[b] = 0,
           UNCHANGED <<bio, before>>, UNCHANGED copyVars
    PROVE  Promised
<1>1. CASE st' = [st EXCEPT ![b] = "err"] /\ bio[b].dir = "other"
  <2>1. Device!Fail(b)
    BY <1>1 DEF Device!Fail, copyVars
  <2> QED
    BY <2>1 DEF Promised, Device!Next
<1>2. CASE /\ st' = [st EXCEPT ![b] = "ok"] /\ bio[b].dir # "other"
           /\ seg[b] = Segments(b) + 1 /\ off[b] = 0
  <2>1. bio[b].shape[seg[b]] = Total(bio[b].shape) /\ Total(bio[b].shape) \in Nat
    BY <1>2, Shapes DEF RInv
  <2>2. (Total(bio[b].shape) + 0) - 1 = Total(bio[b].shape) - 1
    BY <2>1
  <2>3. moved[b] = 0 .. Total(bio[b].shape) - 1
    BY <1>2, <2>1, <2>2 DEF SInv, Covered
  <2>4. Device!Succeed(b)
    BY <1>2, <2>3, Mapped DEF Device!Succeed, Device!AllCopied, copyVars
  <2> QED
    BY <2>4 DEF Promised, Device!Next
<1> QED
  BY <1>1, <1>2

\* Only that a bio ended has changed.
LEMMA SoundEnd ==
    ASSUME RInv, SInv, NEW b \in Bios, st[b] = "active", NEW e \in {"ok", "err"},
           st' = [st EXCEPT ![b] = e],
           IF e = "err" THEN bio[b].dir = "other"
           ELSE bio[b].dir # "other" /\ seg[b] = Segments(b) + 1 /\ off[b] = 0,
           UNCHANGED <<conf, bio, idx, seg, off, failed, before>>, UNCHANGED copyVars
    PROVE  SInv' /\ Promised
<1>1. \A c \in Bios : st'[c] \in {"new", "active"} => st[c] \in {"new", "active"}
  BY DEF RInv, TypeOK
<1>2. \A c \in Bios : bio[c].dir # "other" => Covered(c)'
  BY <1>1, CoveredStays DEF SInv, copyVars
<1>3. SegmentsIndependent'
  BY DEF SInv, SegmentsIndependent, copyVars
<1> QED
  BY <1>2, <1>3, EndIsPromised DEF SInv

\* The current segment of what is being served has been accounted for: it had been
\* copied, or it is one of a bio that is refused segment by segment.
LEMMA SoundEndSegment ==
    ASSUME RInv, SInv, rq # << >>, NEW bad \in BOOLEAN, EndSegment(bad),
           IF bio[rq[1]].dir = "other" THEN bad
           ELSE /\ ~bad /\ seg[rq[1]] > idx[rq[1]] + 1
                /\ conf.mode = "RM_SIMPLE" \/ Segments(rq[1]) = 1
    PROVE  SInv' /\ Promised
<1> DEFINE b == rq[1]
           done == LastSegment(b)
<1>1. /\ idx' = [idx EXCEPT ![b] = @ + 1]
      /\ failed' = [failed EXCEPT ![b] = @ \/ bad]
      /\ st' = [st EXCEPT ![b] = IF done THEN EndStatus(failed'[b]) ELSE @]
      /\ seg' = [c \in Bios |-> IF InRequest(c) THEN idx'[c] + 1 ELSE seg[c]]
      /\ UNCHANGED <<conf, bio, off, before>> /\ UNCHANGED copyVars
  BY DEF EndSegment
<1>2. TypeOK /\ Positions
  BY DEF RInv
<1>3. b \in Bios /\ st[b] = "active" /\ Queued /\ \A c \in Bios : off[c] = 0
  BY <1>2, Serves DEF Positions
<1>4. /\ idx \in [Bios -> Nat] /\ seg \in [Bios -> Nat \ {0}]
      /\ failed \in [Bios -> BOOLEAN] /\ moved \in [Bios -> SUBSET Sectors]
      /\ st \in [Bios -> {"new", "active", "ok", "err"}]
  BY <1>2 DEF TypeOK
<1> HIDE DEF b
<1>5. ASSUME NEW c \in Bios, bio[c].dir # "other"
      PROVE  Covered(c)'
  <2>1. Covered(c)
    BY <1>5 DEF SInv
  <2>2. /\ seg'[c] \in 1 .. Segments(c) + 1 /\ seg'[c] =< seg[c]
        /\ seg[c] \in 1 .. Segments(c) + 1
    <3>1. /\ seg[c] \in Nat \ {0} /\ idx[c] \in Nat /\ idx[c] < seg[c]
          /\ seg[c] =< Segments(c) + 1 /\ Segments(c) \in Nat
      BY <1>2, Shapes DEF TypeOK
    <3>2. idx'[c] = IF c = b THEN idx[c] + 1 ELSE idx[c]
      BY <1>1, <1>4
    <3>3. seg'[c] = IF InRequest(c) THEN idx'[c] + 1 ELSE seg[c]
      BY <1>1
    <3>4. c = b => seg[c] > idx[c] + 1
      BY <1>5 DEF b
    <3> QED
      BY <3>1, <3>2, <3>3, <3>4
  <2>3. moved'[c] = moved[c] /\ Total(bio[c].shape)' = Total(bio[c].shape)
    BY <1>1 DEF copyVars
  <2>4. 0 .. (bio[c].shape[seg'[c]] + off'[c]) - 1 \subseteq moved'[c]
    <3> DEFINE old == bio[c].shape[seg[c]]
               new == bio[c].shape[seg'[c]]
    <3>1. new =< old /\ new \in Nat /\ old \in Nat
      BY <1>2, <2>2, Rising, Shapes
    <3>2. off[c] = 0 /\ off'[c] = 0
      BY <1>1, <1>3
    <3>3. 0 .. (old + 0) - 1 \subseteq moved[c]
      BY <2>1, <3>2 DEF Covered
    <3> HIDE DEF old, new
    <3>4. 0 .. (new + 0) - 1 \subseteq 0 .. (old + 0) - 1
      BY <3>1
    <3> QED
      BY <2>3, <3>2, <3>3, <3>4 DEF new
  <2>5. ~failed'[c]
    BY <1>1, <1>4, <1>5, <2>1 DEF Covered, b
  <2>6. conf.mode # "RM_SIMPLE" /\ st'[c] \in {"new", "active"} => idx'[c] = 0
    <3>1. CASE c = b
      <4>1. conf.mode # "RM_SIMPLE" => Segments(b) = 1
        BY <1>5, <3>1 DEF b
      <4>2. conf.mode # "RM_SIMPLE" => idx[b] = 0
        BY <1>3, <2>1, <3>1 DEF Covered
      <4>3. conf.mode # "RM_SIMPLE" => done
        BY <4>1, <4>2 DEF LastSegment
      <4>4. EndStatus(failed'[b]) \in {"ok", "err"}
        BY DEF EndStatus
      <4> QED
        BY <1>1, <1>3, <1>4, <3>1, <4>3, <4>4
    <3>2. CASE c # b
      BY <1>1, <1>4, <2>1, <3>2 DEF Covered
    <3> QED
      BY <3>1, <3>2
  <2> QED
    BY <1>1, <2>1, <2>3, <2>4, <2>5, <2>6 DEF Covered
<1>6. SegmentsIndependent'
  BY <1>1 DEF SInv, SegmentsIndependent, copyVars
<1>7. CASE ~done
  <2>1. st' = st
    BY <1>1, <1>4, <1>7
  <2> QED
    BY <1>1, <1>5, <1>6, <2>1, Idle DEF SInv, copyVars
<1>8. CASE done
  <2>1. st' = [st EXCEPT ![b] = EndStatus(failed'[b])]
    BY <1>1, <1>8
  <2>2. CASE bio[b].dir = "other"
    <3>1. failed'[b] = TRUE
      BY <1>1, <1>3, <1>4, <2>2 DEF b
    <3>2. st' = [st EXCEPT ![b] = "err"]
      BY <2>1, <3>1 DEF EndStatus
    <3>3. Promised
      BY <1>1, <1>3, <2>2, <3>2, EndIsPromised
    <3> QED
      BY <1>1, <1>5, <1>6, <3>3 DEF SInv
  <2>3. CASE bio[b].dir # "other"
    <3>1. failed'[b] = FALSE
      BY <1>1, <1>3, <1>4, <2>3 DEF SInv, Covered, b
    <3>2. st' = [st EXCEPT ![b] = "ok"]
      BY <2>1, <3>1 DEF EndStatus
    <3>3. seg[b] = Segments(b) + 1 /\ off[b] = 0
      <4>1. seg[b] > idx[b] + 1 /\ idx[b] + 1 = Segments(b)
        BY <1>8, <2>3 DEF LastSegment, b
      <4>2. seg[b] \in Nat /\ seg[b] =< Segments(b) + 1 /\ Segments(b) \in Nat
        BY <1>2, <1>3, Shapes DEF TypeOK
      <4> QED
        BY <1>3, <4>1, <4>2
    <3>4. Promised
      BY <1>1, <1>3, <2>3, <3>2, <3>3, EndIsPromised
    <3> QED
      BY <1>1, <1>5, <1>6, <3>4 DEF SInv
  <2> QED
    BY <2>2, <2>3
<1> QED
  BY <1>7, <1>8

\* A segment is copied whole, by a request function.
LEMMA SoundWhole ==
    ASSUME AllSound, RInv, SInv, NEW b \in Bios, st[b] = "active", Queued,
           seg[b] =< Segments(b), conf.mode = "RM_SIMPLE" => seg[b] = idx[b] + 1,
           Copy(b, seg[b], 0 .. Nsect(b, seg[b]) - 1),
           seg' = [seg EXCEPT ![b] = @ + 1],
           UNCHANGED <<conf, bio, st, idx, off, failed, before>>
    PROVE  SInv' /\ Promised
<1>1. TypeOK /\ Positions
  BY DEF RInv
<1>2. /\ seg[b] \in 1 .. Segments(b) /\ idx[b] < seg[b] /\ seg \in [Bios -> Nat \ {0}]
      /\ off[b] = 0 /\ off' = off
  BY <1>1, Shapes DEF TypeOK, Positions
<1>3. bio[b].dir # "other"
  BY DEF Copy
<1>4. IF conf.mode = "RM_SIMPLE" THEN seg[b] = idx[b] + 1 ELSE idx[b] = 0
  BY <1>3 DEF SInv, Covered
<1>5. /\ Nsect(b, seg[b]) = Length(b, seg[b]) /\ Length(b, seg[b]) \in Nat \ {0}
      /\ bio[b].shape[seg[b]] \in Nat
      /\ bio[b].shape[seg[b] + 1] = bio[b].shape[seg[b]] + Length(b, seg[b])
  BY <1>1, <1>2, <1>4, OwnSectors, Lengths
<1> DEFINE n == Nsect(b, seg[b]) - 1
<1>6. n \in Nat /\ n < Nsect(b, seg[b]) /\ off[b] =< n /\ Copy(b, seg[b], off[b] .. n)
  BY <1>2, <1>5
<1>7. bio[b].shape[seg'[b]] + off'[b] = bio[b].shape[seg[b]] + n + 1
  <2> DEFINE at   == bio[b].shape[seg[b]]
             next == bio[b].shape[seg[b] + 1]
  <2>1. seg'[b] = seg[b] + 1 /\ off'[b] = 0
    BY <1>2
  <2>2. next + 0 = at + n + 1
    <3> HIDE DEF at, next
    <3>1. next = at + Length(b, seg[b]) /\ at \in Nat
      BY <1>5 DEF at, next
    <3> QED
      BY <1>5, <3>1
  <2> QED
    BY <2>1, <2>2
<1>8. \A c \in Bios : c # b => seg'[c] = seg[c] /\ off'[c] = off[c]
  BY <1>2
<1> HIDE DEF n
<1> QED
  BY <1>1, <1>6, <1>7, <1>8, CopyCovers

\* Now each action for a sound configuration: what SInv says stays so, and the step is
\* one that BlockDevice allows.  A bio that is refused ends with an error.
LEMMA SoundRefuse == ASSUME AllSound, RInv, SInv, Refuse PROVE SInv' /\ Promised
<1> DEFINE b == rq[1]
<1>1. rq # << >> /\ TypeOK /\ Positions
  BY DEF Refuse, Refused, RInv
<1>2. b \in Bios /\ st[b] = "active" /\ Queued
  BY <1>1, Serves
<1>3. idx[b] \in Nat /\ idx[b] + 1 \in 1 .. Segments(b) /\ idx[b] < idx[b] + 1
  <2>1. idx[b] \in Nat /\ Segments(b) \in Nat /\ idx[b] < Segments(b)
    BY <1>1, <1>2, Shapes DEF Positions, TypeOK
  <2> HIDE DEF b
  <2> QED
    BY <2>1
<1>4. bio[b].dir = "other"
  <2> SUFFICES ASSUME conf.driver = "dubfl", BeyondEnd(b, idx[b] + 1) PROVE FALSE
    BY DEF Refuse, Refused
  <2>1. conf.mode = "RM_SIMPLE"
    BY <1>1, ConfigsAssumption DEF TypeOK, HasMode
  <2> QED
    BY <1>1, <1>2, <1>3, <2>1, OwnSectors
<1>5. conf.driver # "lab2"
  BY <1>1, <1>2, <1>4 DEF Positions
<1>6. CASE EndBio("err")
  BY <1>2, <1>4, <1>6, SoundEnd DEF EndBio
<1>7. CASE EndSegment(TRUE)
  BY <1>1, <1>4, <1>7, SoundEndSegment
<1> QED
  BY <1>5, <1>6, <1>7 DEF Refuse

\* A copy of the full modes.
LEMMA SoundFull == ASSUME AllSound, RInv, SInv, FullTransfer PROVE SInv' /\ Promised
<1>1. /\ UNCHANGED <<conf, bio, st, idx, off, queue, rq, before, failed>> /\ rq # << >>
      /\ conf.mode = "RM_FULL"
  BY DEF FullTransfer, Serving, layerVars
<1>2. TypeOK /\ Positions /\ Queued
  BY <1>1, Serves DEF RInv
<1>3. PICK b \in Bios :
         /\ st[b] = "active" /\ seg[b] =< Segments(b)
         /\ \/ /\ BeyondEnd(b, seg[b])
               /\ seg' = [seg EXCEPT ![b] = NextSegment(b)] /\ UNCHANGED copyVars
            \/ /\ seg' = [seg EXCEPT ![b] = @ + 1]
               /\ Copy(b, seg[b], 0 .. Nsect(b, seg[b]) - 1)
  BY <1>1, Serves DEF FullTransfer
<1>4. CASE /\ seg' = [seg EXCEPT ![b] = @ + 1]
           /\ Copy(b, seg[b], 0 .. Nsect(b, seg[b]) - 1)
  BY <1>1, <1>2, <1>3, <1>4, SoundWhole
<1>5. CASE /\ BeyondEnd(b, seg[b])
           /\ seg' = [seg EXCEPT ![b] = NextSegment(b)] /\ UNCHANGED copyVars
  <2>1. bio[b].dir = "other"
    <3> SUFFICES ASSUME bio[b].dir # "other" PROVE FALSE
      OBVIOUS
    <3>1. idx[b] = 0
      BY <1>1, <1>3 DEF SInv, Covered
    <3>2. seg[b] \in 1 .. Segments(b) /\ idx[b] < seg[b]
      BY <1>2, <1>3, Shapes DEF TypeOK
    <3> QED
      BY <1>1, <1>2, <1>5, <3>1, <3>2, OwnSectors
  <2>2. \A c \in Bios : c # b => seg'[c] = seg[c]
    BY <1>2, <1>5 DEF TypeOK
  <2>3. \A c \in Bios : bio[c].dir # "other" => Covered(c)'
    BY <1>1, <1>5, <2>1, <2>2, CoveredStays DEF SInv, copyVars
  <2>4. SegmentsIndependent'
    BY <1>5 DEF SInv, SegmentsIndependent, copyVars
  <2> QED
    BY <1>1, <1>5, <2>3, <2>4, Idle DEF SInv, copyVars
<1> QED
  BY <1>3, <1>4, <1>5

\* A copy of the simple mode.
LEMMA SoundSimple == ASSUME AllSound, RInv, SInv, SimpleTransfer PROVE SInv' /\ Promised
<1> DEFINE b == rq[1]
<1>1. /\ UNCHANGED <<conf, bio, st, idx, off, before>> /\ rq # << >>
      /\ conf.mode = "RM_SIMPLE" /\ seg[b] = idx[b] + 1
      /\ seg' = [seg EXCEPT ![b] = @ + 1]
  BY DEF SimpleTransfer, Serving
<1>2. TypeOK /\ Positions /\ b \in Bios /\ st[b] = "active" /\ Queued
  BY <1>1, Serves DEF RInv
<1>3. seg[b] \in 1 .. Segments(b) /\ idx[b] < seg[b]
  <2>1. idx[b] \in Nat /\ Segments(b) \in Nat /\ idx[b] < Segments(b)
    BY <1>2, Shapes DEF Positions, TypeOK
  <2> HIDE DEF b
  <2> QED
    BY <1>1, <2>1
<1>4. ~BeyondEnd(b, seg[b]) /\ seg[b] =< Segments(b)
  BY <1>1, <1>2, <1>3, OwnSectors
<1>5. Copy(b, seg[b], 0 .. Nsect(b, seg[b]) - 1) /\ UNCHANGED failed
  BY <1>4 DEF SimpleTransfer
<1> QED
  BY <1>1, <1>2, <1>4, <1>5, SoundWhole

\* The end of the current segment.
LEMMA SoundEndCurrent == ASSUME AllSound, RInv, SInv, EndCurrent PROVE SInv' /\ Promised
<1> DEFINE b == rq[1]
<1>1. rq # << >> /\ bio[b].dir # "other" /\ TypeOK /\ Positions /\ EndSegment(FALSE)
  BY DEF EndCurrent, Serving, Refused, RInv
<1>2. b \in Bios /\ st[b] = "active" /\ 1 \in DOMAIN rq
  BY <1>1, Serves
<1>3. /\ idx[b] < Segments(b) /\ Segments(b) \in Nat /\ idx[b] \in Nat /\ seg[b] \in Nat
  BY <1>1, <1>2, Shapes DEF Positions, TypeOK
<1>4. seg[b] > idx[b] + 1
  BY <1>2, <1>3 DEF EndCurrent, Transferred
<1>5. conf.mode = "RM_SIMPLE" \/ Segments(b) = 1
  <2> SUFFICES ASSUME conf.mode # "RM_SIMPLE" PROVE Segments(b) = 1
    OBVIOUS
  <2>1. conf.driver = "xd" /\ Sound(conf)
    BY <1>1 DEF EndCurrent, AllSound, TypeOK
  <2>2. Len(bio[b].shape) = 2
    BY <1>1, <1>2, <2>1, Shapes DEF Sound
  <2> QED
    BY <2>2 DEF Segments
<1> QED
  BY <1>1, <1>4, <1>5, SoundEndSegment

\* The end of a bio of which everything has been copied, in the full mode of sbull.
LEMMA SoundEndAll == ASSUME AllSound, RInv, SInv, EndAll PROVE SInv' /\ Promised
<1> DEFINE b == rq[1]
<1>1. /\ rq # << >> /\ bio[b].dir # "other" /\ TypeOK /\ Positions /\ EndBio("ok")
      /\ conf.mode = "RM_FULL"
  BY DEF EndAll, Serving, Refused, RInv
<1>2. b \in Bios /\ st[b] = "active" /\ 1 \in DOMAIN rq /\ Queued
  BY <1>1, Serves
<1>3. seg[b] = Segments(b) + 1 /\ off[b] = 0
  <2>1. seg[b] > Segments(b)
    BY <1>1, <1>2 DEF EndAll, Transferred
  <2>2. seg[b] =< Segments(b) + 1 /\ seg[b] \in Nat /\ Segments(b) \in Nat /\ off[b] = 0
    BY <1>1, <1>2, Shapes DEF TypeOK, Positions
  <2> QED
    BY <2>1, <2>2
<1> QED
  BY <1>1, <1>2, <1>3, SoundEnd DEF EndBio

\* A copy in make_request.
LEMMA SoundMakeTransfer ==
    ASSUME AllSound, RInv, SInv, NEW b \in Bios, MakeTransfer(b)
    PROVE  SInv' /\ Promised
<1>1. /\ UNCHANGED <<conf, bio, st, idx, before>> /\ ~Queued
      /\ st[b] = "active" /\ seg[b] =< Segments(b) /\ conf.mode # "RM_SIMPLE"
  BY DEF MakeTransfer, Making, Queued
<1>2. TypeOK /\ Positions
  BY DEF RInv
<1>3. idx[b] = 0
  BY <1>1, <1>2 DEF Positions, SInv, Covered
<1>4. /\ seg[b] \in 1 .. Segments(b) /\ idx[b] < seg[b] /\ seg \in [Bios -> Nat \ {0}]
      /\ off \in [Bios -> Nat]
  BY <1>1, <1>2, Shapes DEF TypeOK
<1>5. ~BeyondEnd(b, seg[b]) /\ Nsect(b, seg[b]) = Length(b, seg[b])
  BY <1>1, <1>2, <1>3, <1>4, OwnSectors
<1>6. /\ Copy(b, seg[b], {off[b]}) /\ UNCHANGED failed
      /\ IF off[b] + 1 < Nsect(b, seg[b])
         THEN off' = [off EXCEPT ![b] = @ + 1] /\ UNCHANGED seg
         ELSE off' = [off EXCEPT ![b] = 0] /\ seg' = [seg EXCEPT ![b] = @ + 1]
  BY <1>5 DEF MakeTransfer
<1> DEFINE at == bio[b].shape[seg[b]]
<1>7. /\ Length(b, seg[b]) \in Nat \ {0} /\ at \in Nat
      /\ bio[b].shape[seg[b] + 1] = at + Length(b, seg[b])
  BY <1>2, <1>4, Lengths
<1>8. off[b] < Nsect(b, seg[b]) /\ off[b] \in Nat /\ off[b] =< off[b]
  BY <1>2, <1>4, <1>5, <1>7 DEF Positions, HalfWay
<1>9. Copy(b, seg[b], off[b] .. off[b])
  <2>1. off[b] .. off[b] = {off[b]}
    BY <1>8
  <2> QED
    BY <1>6, <2>1
<1>10. bio[b].shape[seg'[b]] + off'[b] = at + off[b] + 1
  <2>1. CASE off[b] + 1 < Nsect(b, seg[b])
    <3>1. seg'[b] = seg[b] /\ off'[b] = off[b] + 1
      BY <1>4, <1>6, <2>1
    <3>2. at + (off[b] + 1) = at + off[b] + 1
      <4> HIDE DEF at
      <4> QED
        BY <1>7, <1>8
    <3> QED
      BY <3>1, <3>2
  <2>2. CASE ~(off[b] + 1 < Nsect(b, seg[b]))
    <3>1. seg'[b] = seg[b] + 1 /\ off'[b] = 0
      BY <1>4, <1>6, <2>2
    <3> DEFINE next == bio[b].shape[seg[b] + 1]
    <3>2. next = at + Length(b, seg[b])
      BY <1>7
    <3>3. next + 0 = at + off[b] + 1
      <4> HIDE DEF at, next
      <4> QED
        BY <1>5, <1>7, <1>8, <2>2, <3>2
    <3> QED
      BY <3>1, <3>3
  <2> QED
    BY <2>1, <2>2
<1>11. \A c \in Bios : c # b => seg'[c] = seg[c] /\ off'[c] = off[c]
  BY <1>4, <1>6
<1> QED
  BY <1>1, <1>2, <1>6, <1>8, <1>9, <1>10, <1>11, CopyCovers

\* The end of a bio in make_request.
LEMMA SoundMakeEnd ==
    ASSUME AllSound, RInv, SInv, NEW b \in Bios, MakeEnd(b)
    PROVE  SInv' /\ Promised
<1>1. /\ st' = [st EXCEPT ![b] = EndStatus(failed[b])] /\ ~Queued
      /\ UNCHANGED <<conf, bio, idx, seg, off, failed, before>> /\ UNCHANGED copyVars
      /\ st[b] = "active" /\ seg[b] > Segments(b)
  BY DEF MakeEnd, Making
<1>2. TypeOK /\ Positions
  BY DEF RInv
<1>3. bio[b].dir # "other" /\ failed[b] = FALSE
  BY <1>1, <1>2 DEF Positions, SInv, Covered, TypeOK
<1>4. st' = [st EXCEPT ![b] = "ok"]
  BY <1>1, <1>3 DEF EndStatus
<1>5. /\ seg[b] =< Segments(b) + 1 /\ seg[b] \in Nat /\ Segments(b) \in Nat
      /\ off[b] \in Nat
  BY <1>2, Shapes DEF TypeOK
<1>6. seg[b] = Segments(b) + 1 /\ off[b] = 0
  BY <1>1, <1>2, <1>5 DEF Positions, HalfWay
<1> QED
  BY <1>1, <1>3, <1>4, <1>6, SoundEnd

\* The stronger invariant, step by step.
LEMMA SoundNext == AllSound /\ RInv /\ SInv /\ [Next]_vars => SInv' /\ Promised
<1> SUFFICES ASSUME AllSound, RInv, SInv, [Next]_vars PROVE SInv' /\ Promised
  OBVIOUS
<1>1. CASE CallRequestFn
  BY <1>1, SoundIdle DEF CallRequestFn
<1>2. CASE UNCHANGED vars
  BY <1>2, SoundIdle DEF vars, layerVars
<1>3. CASE RequestFn
  BY <1>1, <1>3, SoundRefuse, SoundSimple, SoundFull, SoundEndCurrent, SoundEndAll
     DEF RequestFn
<1>4. ASSUME NEW b \in Bios, Submit(b) \/ MakeRequest(b) PROVE SInv' /\ Promised
  BY <1>4, SoundSubmit, SoundMakeTransfer, SoundMakeEnd DEF MakeRequest
<1> QED
  BY <1>2, <1>3, <1>4 DEF Next

\* At first nothing has been copied, and nothing is asked beyond the end.
LEMMA SoundInit == Init => SInv /\ Device!Init
<1> SUFFICES ASSUME Init PROVE SInv /\ Device!Init
  OBVIOUS
<1>1. TypeOK
  BY InitRInv DEF RInv
<1>2. SInv
  <2>1. ASSUME NEW b \in Bios PROVE Covered(b)
    <3>1. /\ seg[b] = 1 /\ off[b] = 0 /\ idx[b] = 0 /\ failed[b] = FALSE
          /\ moved[b] = {} /\ bio[b].shape[1] = 0
      BY <1>1, Shapes DEF Init
    <3>2. 0 .. (0 + 0) - 1 = {}
      OBVIOUS
    <3> QED
      BY <3>1, <3>2 DEF Covered
  <2>2. SegmentsIndependent
    BY ConfigsAssumption DEF Init, SegmentsIndependent
  <2> QED
    BY <2>1, <2>2 DEF SInv
<1>3. ASSUME NEW b \in Bios
      PROVE  [dir |-> bio[b].dir, sector |-> bio[b].sector, len |-> Total(bio[b].shape)]
                \in Device!Requests
  <2>1. /\ bio[b].dir \in Dirs /\ bio[b].sector \in Nat
        /\ Total(bio[b].shape) \in Nat \ {0}
        /\ bio[b].sector + Total(bio[b].shape) =< Size
    BY <1>1, Shapes
  <2>2. bio[b].sector \in 0 .. Size - 1 /\ Total(bio[b].shape) \in 1 .. Size
    BY <2>1, ConfigsAssumption
  <2> QED
    BY <2>1, <2>2 DEF Device!Requests, Device!Fits, Device!Dirs, Device!Sectors, Dirs
<1>4. Device!Init
  BY <1>3 DEF Init, Device!Init, Device!Sectors, Sectors
<1> QED
  BY <1>2, <1>4

\* When the segments are of the lengths that the request function takes them for, what
\* lies before the next segment has been copied, in the bio and in its memory.
THEOREM SoundInvariance == ASSUME AllSound PROVE Spec => []SInv
<1>1. Init => RInv /\ SInv
  BY InitRInv, SoundInit
<1>2. (RInv /\ SInv) /\ [Next]_vars => (RInv /\ SInv)'
  BY NextRInv, SoundNext
<1> QED
  BY <1>1, <1>2, PTL DEF Spec

\* "Each segment is handled independently" (block_mod_s.c): in a sound configuration,
\* no copy made for a segment goes on to the memory behind it.
THEOREM SegmentsIndependentHolds == ASSUME AllSound PROVE Spec => []SegmentsIndependent
<1>1. SInv => SegmentsIndependent
  BY DEF SInv
<1> QED
  BY <1>1, SoundInvariance, PTL

\* The request functions of a sound configuration keep the promise of a block device.
THEOREM Implements == ASSUME AllSound PROVE Spec => ImplementsBlockDevice
<1>1. Init => RInv /\ SInv /\ Device!Init
  BY InitRInv, SoundInit
<1>2. RInv /\ SInv /\ [Next]_vars => RInv' /\ SInv' /\ [Device!Next]_Device!vars
  BY NextRInv, SoundNext DEF Promised
<1> QED
  BY <1>1, <1>2, PTL DEF Spec, ImplementsBlockDevice, Device!Spec

-----------------------------------------------------------------------------
\* What those who submit bios may rely on, by the theorems about BlockDevice.
Users == INSTANCE BlockDevice_proofs WITH
    bio <- [b \in Bios |-> [dir    |-> bio[b].dir,
                            sector |-> bio[b].sector,
                            len    |-> Total(bio[b].shape)]]

\* The size that BlockDevice assumes is that of this disk.
LEMMA SizeOfDevice == Users!SizeAssumption
BY ConfigsAssumption DEF Users!SizeAssumption

\* Users is Device, with its theorems.
LEMMA KeepsPromise == ASSUME AllSound PROVE Spec => Users!Spec
<1>1. Init => RInv /\ SInv /\ Users!Init
  BY InitRInv, SoundInit DEF Device!Init, Users!Init, Device!Requests, Users!Requests,
     Device!Sectors, Users!Sectors, Device!Dirs, Users!Dirs, Device!Fits, Users!Fits
<1>2. Device!Next => Users!Next
  BY DEF Device!Next, Device!Submit, Device!Move, Device!Succeed, Device!Fail, Device!Ended,
         Device!Write, Device!Read, Device!Payload, Device!Sectors, Device!Offsets,
         Device!AllCopied,
         Users!Next, Users!Submit, Users!Move, Users!Succeed, Users!Fail, Users!Ended,
         Users!Write, Users!Read, Users!Payload, Users!Sectors, Users!Offsets,
         Users!AllCopied
<1>3. UNCHANGED Device!vars => UNCHANGED Users!vars
  BY DEF Device!vars, Users!vars
<1>4. RInv /\ SInv /\ [Next]_vars => RInv' /\ SInv' /\ [Users!Next]_Users!vars
  BY <1>2, <1>3, NextRInv, SoundNext DEF Promised
<1> QED
  BY <1>1, <1>4, PTL DEF Spec, Users!Spec

\* A read that a request function of a sound configuration ended well saw every write
\* that had ended before it was submitted.
THEOREM ReadsFreshHere == ASSUME AllSound PROVE Spec => []Device!ReadsFresh
<1>1. Users!Spec => []Users!ReadsFresh
  BY Users!ReadsFreshHolds, SizeOfDevice, PTL
<1>2. Users!ReadsFresh => Device!ReadsFresh
  BY DEF Users!ReadsFresh, Device!ReadsFresh, Users!MaySee, Device!MaySee, Users!Offsets,
         Device!Offsets, Users!Wrote, Device!Wrote, Users!WriteBefore, Device!WriteBefore,
         Users!Payload, Device!Payload
<1> QED
  BY <1>1, <1>2, KeepsPromise, PTL

\* What a write that it ended has written stays, unless a write that was not over when
\* it was submitted replaced it.
THEOREM WritesKeptHere == ASSUME AllSound PROVE Spec => []Device!WritesKept
<1>1. Users!Spec => []Users!WritesKept
  BY Users!WritesKeptHolds, SizeOfDevice, PTL
<1>2. Users!WritesKept => Device!WritesKept
  BY DEF Users!WritesKept, Device!WritesKept, Users!Offsets, Device!Offsets, Users!Wrote,
         Device!Wrote, Users!WriteBefore, Device!WriteBefore, Users!Payload, Device!Payload
<1> QED
  BY <1>1, <1>2, KeepsPromise, PTL
=============================================================================
