--------------------------- MODULE TextNode_proofs ---------------------------
(* What TextNode guarantees for any number of programs and any BUFFER_SIZE,   *)
(* whichever calls overlap.                                                   *)
EXTENDS TextNode, TLAPS, WellFoundedInduction

\* A count that a write has made room for leaves the byte behind the array's
\* capacity alone, wherever the write was interrupted.
Bounded ==
    /\ pc \in [Procs -> {"idle", "open", "show", "clamp", "copy", "advance",
                         "fill", "seal"}]
    /\ DOMAIN n = Procs
    /\ \A p \in Procs : pc[p] \in {"fill", "seal"} => n[p] \in 0 .. Capacity
    /\ DOMAIN buffer = 1 .. Capacity + (IF Own THEN 1 ELSE 0)

\* The room is never more than the capacity, and never more than was asked for.
LEMMA RoomFits == \A count \in Nat : Room(count) \in 0 .. Capacity /\ Room(count) =< count
  BY TextAssumption DEF Room, Least

\* What copy_from_user and strncpy put in the array.
LEMMA FillStep ==
    ASSUME Bounded, Terminated, NEW p \in Procs, WriteCopy(p)
    PROVE  (Bounded /\ Terminated)'
<1> USE TextAssumption
<1>1. PICK k \in Copied(n[p]) :
         /\ n' = [n EXCEPT ![p] = k]
         /\ buffer' = [i \in DOMAIN buffer |->
                          IF i =< k THEN <<p, i>>
                          ELSE IF i =< n[p] THEN NUL ELSE buffer[i]]
  BY DEF WriteCopy
<1>2. n[p] \in 0 .. Capacity /\ k \in 0 .. n[p]
  BY DEF WriteCopy, Bounded, Copied
<1>3. UNCHANGED conf /\ Goto(p, "seal")
  BY DEF WriteCopy
<1>4. Own' = Own
  BY <1>3 DEF Own, Node, Class
<1>5. Bounded'
  BY <1>1, <1>2, <1>3, <1>4 DEF Bounded, Goto
<1>6. Terminated'
  <2> SUFFICES ASSUME Own PROVE buffer'[Capacity + 1] = NUL
    BY <1>4 DEF Terminated
  <2>1. Capacity + 1 \in DOMAIN buffer /\ ~(Capacity + 1 =< k) /\ ~(Capacity + 1 =< n[p])
    BY <1>2 DEF Bounded
  <2> QED
    BY <1>1, <2>1 DEF Terminated
<1> QED
  BY <1>5, <1>6

\* The terminator that ends a write.
LEMMA SealStep ==
    ASSUME Bounded, Terminated, NEW p \in Procs, WriteSeal(p)
    PROVE  (Bounded /\ Terminated)'
<1> USE TextAssumption
<1>1. /\ UNCHANGED conf /\ Goto(p, "idle") /\ n' = [n EXCEPT ![p] = 0]
      /\ \/ buffer' = buffer
         \/ buffer' = [i \in DOMAIN buffer |-> IF i = n[p] + 1 THEN NUL ELSE buffer[i]]
  BY Zenon DEF WriteSeal
<1>2. Own' = Own
  BY <1>1 DEF Own, Node, Class
<1>3. DOMAIN buffer' = DOMAIN buffer
  BY <1>1
<1>4. Bounded'
  BY <1>1, <1>2, <1>3 DEF Bounded, Goto
<1>5. Terminated'
  BY <1>1, <1>2 DEF Terminated, Bounded
<1> QED
  BY <1>4, <1>5

\* The other calls do not touch the array, nor the counts of writes under way.
LEMMA OtherStep ==
    ASSUME Bounded, Terminated, NEW p \in Procs,
           Open(p) \/ ReadBegin(p) \/ WriteBegin(p) \/ ShowCopy(p) \/ ReadClamp(p)
              \/ ReadCopy(p) \/ ReadAdvance(p)
    PROVE  (Bounded /\ Terminated)'
<1> USE TextAssumption
<1>1. UNCHANGED <<conf, buffer>>
  BY Zenon DEF Open, ReadBegin, WriteBegin, ShowCopy, ReadClamp, ReadCopy, ReadAdvance
<1>2. Own' = Own /\ Terminated'
  BY <1>1 DEF Own, Node, Class, Terminated
<1>3. pc' \in [Procs -> {"idle", "open", "show", "clamp", "copy", "advance", "fill", "seal"}]
  BY DEF Open, ReadBegin, WriteBegin, ShowCopy, ReadClamp, ReadCopy, ReadAdvance,
         AfterRead, AfterShow, Goto, Bounded
<1>4. \A q \in Procs \ {p} : pc'[q] = pc[q] /\ n'[q] = n[q]
  BY DEF Open, ReadBegin, WriteBegin, ShowCopy, ReadClamp, ReadCopy, ReadAdvance,
         AfterRead, AfterShow, Goto, Bounded
<1>5. /\ DOMAIN n' = Procs
      /\ pc'[p] \in {"fill", "seal"} => n'[p] \in 0 .. Capacity
  <2>1. CASE Open(p)
    BY <2>1 DEF Open, Goto, Bounded
  <2>2. CASE ReadBegin(p)
    BY <2>2 DEF ReadBegin, AfterRead, Goto, Bounded
  <2>3. CASE WriteBegin(p)
    BY <2>3, RoomFits DEF WriteBegin, Counts, Goto, Bounded
  <2>4. CASE ShowCopy(p)
    BY <2>4 DEF ShowCopy, AfterShow, Goto, Bounded
  <2>5. CASE ReadClamp(p)
    BY <2>5 DEF ReadClamp, Clamp, Goto, Bounded
  <2>6. CASE ReadCopy(p)
    BY <2>6 DEF ReadCopy, Copied, Goto, Bounded
  <2>7. CASE ReadAdvance(p)
    BY <2>7 DEF ReadAdvance, AfterRead, Goto, Bounded
  <2> QED
    BY <2>1, <2>2, <2>3, <2>4, <2>5, <2>6, <2>7
<1>6. Bounded'
  BY <1>1, <1>2, <1>3, <1>4, <1>5 DEF Bounded
<1> QED
  BY <1>2, <1>6

\* Terminated (fops_rw.c:28, xxx.c:33): whatever writes overlap, and wherever they
\* are interrupted, strlen and strcpy find an end inside the array.
THEOREM AlwaysTerminated == Spec => []Terminated
<1>1. Init => Bounded /\ Terminated
  BY TextAssumption DEF Init, Bounded, Terminated, Own, Node, Class
<1>2. Bounded /\ Terminated /\ [Next]_vars => (Bounded /\ Terminated)'
  <2> SUFFICES ASSUME Bounded, Terminated, [Next]_vars PROVE (Bounded /\ Terminated)'
    OBVIOUS
  <2>1. CASE Next
    BY <2>1, FillStep, SealStep, OtherStep DEF Next, InCall
  <2>2. CASE UNCHANGED vars
    BY <2>2 DEF vars, Bounded, Terminated, Own, Node, Class
  <2> QED
    BY <2>1, <2>2
<1> QED
  BY <1>1, <1>2, PTL DEF Spec

-----------------------------------------------------------------------------
\* The message, and what is read of it.

Calls == {"show", "clamp", "copy", "advance", "fill", "seal"}
Keys  == Procs \cup {Module}
Cells == Characters \cup {NUL}

\* Types, with those of the array and the pages.
Typed ==
    /\ TypeOK /\ Bounded /\ Terminated
    /\ buffer \in [1 .. Capacity + (IF Own THEN 1 ELSE 0) -> Cells]
    /\ page \in [Procs -> Seq(Cells)]

\* The calls of "buffer" are made in turns, a write of "node" is made alone.
Exclusive ==
    /\ ~Own => \A p, q \in Procs : pc[p] \in Calls /\ pc[q] \in Calls => p = q
    /\ ~Class => \A p, q \in Procs :
                    pc[p] \in {"fill", "seal"} /\ pc[q] \in Calls => p = q

\* f starts with the characters 1 to m of messages.
Numbered(f, m) == \A i \in 1 .. m : f[i][2] = i

\* A position is behind what was read, and a read that is under way ends inside
\* the message.
Positions ==
    /\ \A k \in Keys : Len(got[k]) =< Capacity /\ Numbered(got[k], Len(got[k]))
    /\ \A k \in Keys : (\A p \in Procs : Key(p) = k => pc[p] # "advance")
                          => Len(got[k]) = pos[k]
    /\ \A p \in Procs :
          /\ pc[p] = "advance" => Len(got[Key(p)]) = pos[Key(p)] + n[p]
          /\ pc[p] = "clamp"   => pos[Key(p)] =< Length(p)
          /\ pc[p] = "copy"    => pos[Key(p)] + n[p] =< Length(p)

\* f starts with g.
StartsWith(f, g) == Len(g) =< Len(f) /\ \A i \in 1 .. Len(g) : g[i] = f[i]

\* What can be read is numbered, and what was read is of one page or message.
Sources ==
    /\ \A i \in DOMAIN buffer : buffer[i] # NUL => buffer[i][2] = i
    /\ Class => \A p \in Procs : /\ Numbered(page[p], Len(page[p]))
                                 /\ StartsWith(page[p], got[p])
                                 /\ pc[p] = "show" => got[p] = << >>
    /\ ~Own => /\ Len(got[Module]) =< length
               /\ (\A p \in Procs : pc[p] # "seal") =>
                     Numbered(buffer, length) /\ StartsWith(buffer, got[Module])
               /\ \A p \in Procs : pc[p] = "seal" => Numbered(buffer, n[p])

Orderly == Undisturbed => Exclusive /\ Positions /\ Sources /\ ~strayed
IInv == Typed /\ Orderly

-----------------------------------------------------------------------------
\* A set of naturals has a least element.
LEMMA LeastOf ==
    ASSUME NEW T, T \subseteq Nat, T # {}
    PROVE  \E x \in T : \A y \in T : x =< y
<1>1. IsWellFoundedOn(OpToRel(<, Nat), Nat)
  BY NatLessThanWellFounded
<1>2. PICK x \in T : \A y \in T : ~(<<y, x>> \in OpToRel(<, Nat))
  BY <1>1, WFMin, Zenon
<1>3. \A y \in T : ~(y < x)
  BY <1>2 DEF OpToRel
<1>4. \A y \in T : y \in Nat
  OBVIOUS
<1>5. \A y \in T : x =< y
  BY <1>3, <1>4
<1> QED
  BY <1>5
\* strlen finds the first NUL, or stops where the array does.
LEMMA StrlenIs ==
    ASSUME NEW N \in Nat, DOMAIN buffer = 1 .. N, Len(buffer) = N
    PROVE  /\ Strlen \in 0 .. N
           /\ \A i \in 1 .. Strlen : buffer[i] # NUL
           /\ Strlen < N => buffer[Strlen + 1] = NUL
<1> DEFINE T == {k \in 0 .. N : k < N => buffer[k + 1] = NUL}
<1>1. T \subseteq Nat /\ N \in T
  OBVIOUS
<1>2. PICK m \in T : \A y \in T : m =< y
  <2> HIDE DEF T
  <2> QED
    BY <1>1, LeastOf
<1>3. \A i \in 1 .. m : buffer[i] # NUL
  <2> SUFFICES ASSUME NEW i \in 1 .. m, buffer[i] = NUL PROVE FALSE
    OBVIOUS
  <2>1. i - 1 \in 0 .. N /\ (i - 1) + 1 = i /\ ~(m =< i - 1)
    BY <1>2
  <2>2. i - 1 \in T
    BY <2>1
  <2> QED
    BY <1>2, <2>1, <2>2
<1>4. \E k \in 0 .. Len(buffer) : /\ \A i \in 1 .. k : buffer[i] # NUL
                                  /\ k < Len(buffer) => buffer[k + 1] = NUL
  BY <1>2, <1>3
<1> QED
  BY <1>4 DEF Strlen

\* The message ends inside the array, and so does what is read of it.
LEMMA ArrayIs ==
    ASSUME Typed
    PROVE  /\ Len(buffer) \in {Capacity, Capacity + 1} /\ buffer \in Seq(Cells)
           /\ DOMAIN buffer = 1 .. Len(buffer)
           /\ Own => Len(buffer) = Capacity + 1
           /\ Strlen \in 0 .. Capacity
           /\ \A i \in 1 .. Strlen : i \in DOMAIN buffer /\ buffer[i] # NUL
<1> DEFINE N == Capacity + (IF Own THEN 1 ELSE 0)
<1>1. N \in {Capacity, Capacity + 1} /\ (Own => N = Capacity + 1) /\ N \in Nat
  BY TextAssumption
<1>2. buffer \in [1 .. N -> Cells]
  BY DEF Typed
<1>3. buffer \in Seq(Cells) /\ Len(buffer) = N /\ DOMAIN buffer = 1 .. N
  <2> HIDE DEF N
  <2> QED
    BY <1>1, <1>2
<1>4. /\ Strlen \in 0 .. N /\ \A i \in 1 .. Strlen : buffer[i] # NUL
  BY <1>1, <1>3, StrlenIs
<1>5. Own => buffer[Capacity + 1] = NUL
  BY DEF Typed, Terminated
<1>6. Strlen \in 0 .. Capacity
  <2>1. Own => ~(Capacity + 1 \in 1 .. Strlen)
    BY <1>4, <1>5
  <2>2. ~Own => N = Capacity
    BY TextAssumption
  <2> HIDE DEF N
  <2> QED
    BY <1>1, <1>4, <2>1, <2>2, TextAssumption
<1>7. \A i \in 1 .. Strlen : i \in DOMAIN buffer
  <2> HIDE DEF N
  <2> QED
    BY <1>1, <1>3, <1>4
<1> HIDE DEF N
<1> QED
  BY <1>1, <1>3, <1>4, <1>6, <1>7

\* A text is within its page.
LEMMA LengthIs ==
    ASSUME Typed, NEW p \in Procs
    PROVE  Length(p) \in 0 .. Capacity /\ \A i \in Int : Cell(p, i) \in Cells
<1>1. page[p] \in Seq(Cells) /\ Len(page[p]) =< Capacity /\ length \in 0 .. Capacity
  BY DEF Typed, TypeOK
<1>2. Length(p) \in 0 .. Capacity
  <2>1. Len(page[p]) \in 0 .. Capacity
    BY <1>1, TextAssumption
  <2>2. Strlen \in 0 .. Capacity
    BY ArrayIs
  <2> QED
    BY <1>1, <2>1, <2>2, Zenon DEF Length
<1>3. \A i \in DOMAIN buffer : buffer[i] \in Cells
  BY DEF Typed
<1>4. \A i \in DOMAIN page[p] : page[p][i] \in Cells
  BY <1>1
<1>5. NUL \in Cells
  BY DEF Cells
<1> QED
  BY <1>2, <1>3, <1>4, <1>5 DEF Cell, Source

\* A position has room for what is left of the message.
LEMMA ClampIs ==
    ASSUME Typed, NEW p \in Procs
    PROVE  /\ Clamp(p, n[p]) \in 0 .. Capacity + 1
           /\ pos[Key(p)] =< Length(p) => pos[Key(p)] + Clamp(p, n[p]) =< Length(p)
<1>1. Length(p) \in Nat /\ n[p] \in 0 .. Capacity + 1 /\ Capacity \in Nat
  BY LengthIs, TextAssumption DEF Typed, TypeOK
<1>2. pos[Key(p)] \in Nat
  BY DEF Typed, TypeOK, Key
<1> DEFINE m == n[p]  l == Length(p)  q == pos[Key(p)]
<1>3. Clamp(p, m) = IF q > l THEN m ELSE IF m < l - q THEN m ELSE l - q
  BY DEF Clamp, Least
<1>4. l \in Nat /\ m \in 0 .. Capacity + 1 /\ q \in Nat
  BY <1>1, <1>2
<1> HIDE DEF m, l, q
<1>5. Clamp(p, m) \in 0 .. Capacity + 1 /\ (q =< l => q + Clamp(p, m) =< l)
  BY <1>1, <1>3, <1>4
<1> QED
  BY <1>5 DEF m, l, q

\* The calls change types only as these say.
LEMMA TypedFrom ==
    ASSUME Typed, conf' = conf, (Bounded /\ Terminated)',
           buffer' \in [1 .. Capacity + (IF Own THEN 1 ELSE 0) -> Cells],
           length' \in 0 .. Capacity,
           page' \in [Procs -> Seq(Cells)], \A p \in Procs : Len(page'[p]) =< Capacity,
           pos' \in [Keys -> Nat], n' \in [Procs -> 0 .. Capacity + 1],
           got' \in [Keys -> Seq(Cells)], strayed' \in BOOLEAN
    PROVE  Typed'
<1>1. Own' = Own /\ Cells' = Cells /\ Characters' = Characters
  BY DEF Own, Node, Class, Cells, Characters
<1>2. pc' \in [Procs -> {"idle", "open", "show", "clamp", "copy", "advance", "fill", "seal"}]
  BY DEF Bounded
<1>3. \A i \in DOMAIN buffer' : buffer'[i] \in Characters \cup {NUL}
  BY DEF Cells
<1>4. conf' \in Configs
  BY DEF Typed, TypeOK
<1>5. TypeOK'
  BY <1>1, <1>2, <1>3, <1>4 DEF TypeOK, Keys, Cells
<1> QED
  BY <1>1, <1>5 DEF Typed

\* Going back to the start of the message.
LEMMA ResetIs ==
    ASSUME Typed, NEW k \in Keys
    PROVE  /\ [pos EXCEPT ![k] = 0] \in [Keys -> Nat]
           /\ [got EXCEPT ![k] = << >>] \in [Keys -> Seq(Cells)]
<1>1. pos \in [Keys -> Nat] /\ got \in [Keys -> Seq(Cells)]
  BY DEF Typed, TypeOK, Keys, Cells
<1> DEFINE None == << >>
<1>2. None \in Seq(Cells)
  OBVIOUS
<1> HIDE DEF None
<1>3. [pos EXCEPT ![k] = 0] \in [Keys -> Nat] /\ [got EXCEPT ![k] = None] \in [Keys -> Seq(Cells)]
  BY <1>1, <1>2
<1> QED
  BY <1>3 DEF None

\* No step of a call writes behind a buffer or leaves a text without its end.
LEMMA BoundedStep ==
    ASSUME Typed, NEW p \in Procs,
           Open(p) \/ ReadBegin(p) \/ WriteBegin(p) \/ InCall(p)
    PROVE  (Bounded /\ Terminated)' /\ conf' = conf
<1>1. (Bounded /\ Terminated)'
  BY FillStep, SealStep, OtherStep DEF Typed, InCall
<1>2. conf' = conf
  BY Zenon DEF Open, ReadBegin, WriteBegin, InCall, ShowCopy, ReadClamp, ReadCopy, ReadAdvance,
         WriteCopy, WriteSeal
<1> QED
  BY <1>1, <1>2

\* What a program has read is a sequence of cells, and its position a number.
LEMMA TypedStep ==
    ASSUME Typed, NEW p \in Procs,
           Open(p) \/ ReadBegin(p) \/ WriteBegin(p) \/ InCall(p)
    PROVE  Typed'
<1>1. /\ buffer \in [1 .. Capacity + (IF Own THEN 1 ELSE 0) -> Cells]
      /\ length \in 0 .. Capacity
      /\ page \in [Procs -> Seq(Cells)] /\ \A q \in Procs : Len(page[q]) =< Capacity
      /\ pos \in [Keys -> Nat] /\ n \in [Procs -> 0 .. Capacity + 1]
      /\ got \in [Keys -> Seq(Cells)] /\ strayed \in BOOLEAN
  BY DEF Typed, TypeOK, Keys, Cells
<1>2. (Bounded /\ Terminated)' /\ conf' = conf
  BY BoundedStep
<1>3. p \in Keys /\ Module \in Keys /\ Key(p) \in Keys /\ << >> \in Seq(Cells)
  BY DEF Keys, Key
<1>4. Capacity \in Nat /\ 0 \in 0 .. Capacity /\ 0 \in 0 .. Capacity + 1
  BY TextAssumption
<1>5. CASE Open(p)
  <2>1. pos' \in [Keys -> Nat] /\ got' \in [Keys -> Seq(Cells)]
    BY <1>1, <1>3, <1>5, ResetIs, Zenon DEF Open
  <2>2. UNCHANGED <<buffer, length, page, n, strayed>>
    BY <1>5 DEF Open
  <2> QED
    BY <1>1, <1>2, <2>1, <2>2, TypedFrom
<1>6. CASE ReadBegin(p)
  <2>1. pos' \in [Keys -> Nat] /\ got' \in [Keys -> Seq(Cells)]
    BY <1>1, <1>3, <1>6, ResetIs, Zenon DEF ReadBegin
  <2>2. n' \in [Procs -> 0 .. Capacity + 1]
    <3>1. \A count \in 1 .. Capacity + 1 : count \in 0 .. Capacity + 1
      BY <1>4
    <3> QED
      BY <1>1, <1>6, <3>1 DEF ReadBegin
  <2>3. UNCHANGED <<buffer, length, page, strayed>>
    BY <1>6 DEF ReadBegin
  <2> QED
    BY <1>1, <1>2, <2>1, <2>2, <2>3, TypedFrom
<1>7. CASE WriteBegin(p)
  <2>1. n' \in [Procs -> 0 .. Capacity + 1]
    <3>1. \A count \in Counts : Room(count) \in 0 .. Capacity + 1
      BY <1>4, RoomFits DEF Counts
    <3> QED
      BY <1>1, <1>7, <3>1 DEF WriteBegin
  <2>2. UNCHANGED <<buffer, length, page, pos, got, strayed>>
    BY <1>7 DEF WriteBegin
  <2> QED
    BY <1>1, <1>2, <2>1, <2>2, TypedFrom
<1>8. CASE ShowCopy(p)
  <2> DEFINE s == SubSeq(buffer, 1, Strlen)
  <2>1. s \in Seq(Cells) /\ Len(s) = Strlen /\ Strlen =< Capacity
    <3>1. buffer \in Seq(Cells) /\ Strlen \in Nat /\ Strlen =< Len(buffer) /\ Strlen =< Capacity
      <4>1. buffer \in Seq(Cells) /\ Strlen \in 0 .. Capacity
        BY ArrayIs, Zenon
      <4>2. Len(buffer) \in {Capacity, Capacity + 1}
        BY ArrayIs, Zenon
      <4> QED
        BY <1>4, <4>1, <4>2
    <3> DEFINE m == Strlen
    <3> HIDE DEF m
    <3>2. ASSUME m \in Nat, m =< Len(buffer), buffer \in Seq(Cells)
          PROVE  SubSeq(buffer, 1, m) \in Seq(Cells) /\ Len(SubSeq(buffer, 1, m)) = m
      BY <3>2
    <3> QED
      BY <3>1, <3>2 DEF m
  <2>2. page' = [page EXCEPT ![p] = s]
    BY <1>8 DEF ShowCopy
  <2> HIDE DEF s
  <2>3. page' \in [Procs -> Seq(Cells)] /\ \A q \in Procs : Len(page'[q]) =< Capacity
    BY <1>1, <2>1, <2>2
  <2>4. UNCHANGED <<buffer, length, pos, n, got, strayed>>
    BY <1>8 DEF ShowCopy
  <2> QED
    BY <1>1, <1>2, <2>3, <2>4, TypedFrom
<1>9. CASE ReadClamp(p)
  <2>1. n' = [n EXCEPT ![p] = Clamp(p, n[p])]
    BY <1>1, <1>9 DEF ReadClamp
  <2>2. n' \in [Procs -> 0 .. Capacity + 1]
    BY <1>1, <2>1, ClampIs
  <2>3. UNCHANGED <<buffer, length, page, pos, got, strayed>>
    BY <1>9 DEF ReadClamp
  <2> QED
    BY <1>1, <1>2, <2>2, <2>3, TypedFrom
<1>10. CASE ReadCopy(p)
  <2>1. PICK k \in Copied(n[p]) :
           /\ n' = [n EXCEPT ![p] = k]
           /\ got' = [got EXCEPT ![Key(p)] =
                         @ \o [i \in 1 .. k |-> Cell(p, pos[Key(p)] + i)]]
           /\ strayed' = (strayed \/ (k > 0 /\ pos[Key(p)] + k > Length(p)))
    BY <1>10 DEF ReadCopy
  <2>2. k \in Nat /\ k \in 0 .. Capacity + 1
    BY <1>1, <1>4 DEF Copied
  <2> DEFINE c == [i \in 1 .. k |-> Cell(p, pos[Key(p)] + i)]
  <2>3. c \in Seq(Cells)
    <3>1. \A i \in 1 .. k : Cell(p, pos[Key(p)] + i) \in Cells
      BY <1>1, <1>3, <2>2, LengthIs
    <3> QED
      BY <2>2, <3>1
  <2>4. got[Key(p)] \o c \in Seq(Cells)
    <3> HIDE DEF c
    <3> QED
      BY <1>1, <1>3, <2>3
  <2>5. got' = [got EXCEPT ![Key(p)] = got[Key(p)] \o c]
    BY <1>1, <1>3, <2>1
  <2> HIDE DEF c
  <2>6. got' \in [Keys -> Seq(Cells)] /\ n' \in [Procs -> 0 .. Capacity + 1]
    BY <1>1, <2>1, <2>2, <2>4, <2>5
  <2>7. strayed' \in BOOLEAN
    BY <1>1, <2>1
  <2>8. UNCHANGED <<buffer, length, page, pos>>
    BY <1>10 DEF ReadCopy
  <2> QED
    BY <1>1, <1>2, <2>6, <2>7, <2>8, TypedFrom
<1>11. CASE ReadAdvance(p)
  <2>1. pos' \in [Keys -> Nat] /\ n' \in [Procs -> 0 .. Capacity + 1]
    <3>1. pos[Key(p)] + n[p] \in Nat
      BY <1>1, <1>3, <1>4
    <3> QED
      BY <1>1, <1>3, <1>4, <1>11, <3>1 DEF ReadAdvance
  <2>2. UNCHANGED <<buffer, length, page, got, strayed>>
    BY <1>11 DEF ReadAdvance
  <2> QED
    BY <1>1, <1>2, <2>1, <2>2, TypedFrom
<1>12. CASE WriteCopy(p)
  <2>1. PICK k \in Copied(n[p]) :
           /\ n' = [n EXCEPT ![p] = k]
           /\ buffer' = [i \in DOMAIN buffer |->
                            IF i =< k THEN <<p, i>>
                            ELSE IF i =< n[p] THEN NUL ELSE buffer[i]]
    BY <1>12 DEF WriteCopy
  <2>2. k \in 0 .. n[p] /\ n[p] \in 0 .. Capacity /\ k \in 0 .. Capacity + 1
    BY <1>4, <1>12 DEF WriteCopy, Copied, Typed, Bounded
  <2>3. \A i \in DOMAIN buffer : (i =< k => <<p, i>> \in Cells) /\ buffer[i] \in Cells
    BY <1>1, <1>4, <2>2 DEF Cells, Characters
  <2>4. NUL \in Cells
    BY DEF Cells
  <2>5. buffer' \in [1 .. Capacity + (IF Own THEN 1 ELSE 0) -> Cells]
    BY <1>1, <2>1, <2>3, <2>4
  <2>6. n' \in [Procs -> 0 .. Capacity + 1]
    BY <1>1, <2>1, <2>2
  <2>7. UNCHANGED <<length, page, pos, got, strayed>>
    BY <1>12 DEF WriteCopy
  <2> QED
    BY <1>1, <1>2, <2>5, <2>6, <2>7, TypedFrom
<1>13. CASE WriteSeal(p)
  <2>1. n[p] \in 0 .. Capacity
    BY <1>13 DEF WriteSeal, Typed, Bounded
  <2>2. NUL \in Cells
    BY DEF Cells
  <2>3. buffer' \in [1 .. Capacity + (IF Own THEN 1 ELSE 0) -> Cells]
    BY <1>1, <1>13, <2>2 DEF WriteSeal
  <2>4. length' \in 0 .. Capacity /\ pos' \in [Keys -> Nat] /\ got' \in [Keys -> Seq(Cells)]
    BY <1>1, <1>3, <1>13, <2>1, ResetIs, Zenon DEF WriteSeal, NewMessage
  <2>5. n' \in [Procs -> 0 .. Capacity + 1]
    BY <1>1, <1>4, <1>13 DEF WriteSeal
  <2>6. UNCHANGED <<page, strayed>>
    BY <1>13 DEF WriteSeal
  <2> QED
    BY <1>1, <1>2, <2>3, <2>4, <2>5, <2>6, TypedFrom
<1> QED
  BY <1>5, <1>6, <1>7, <1>8, <1>9, <1>10, <1>11, <1>12, <1>13 DEF InCall

-----------------------------------------------------------------------------
\* Who reads and who writes.

\* Whose buffer a call writes to.
LEMMA KeyIs ==
    ASSUME NEW p \in Procs
    PROVE  /\ Key(p) \in Keys /\ (Own => Key(p) = p) /\ (~Own => Key(p) = Module)
           /\ p # Module /\ (Class => Own) /\ (Node => Own)
BY TextAssumption DEF Key, Keys, Own

\* What a call has begun with holds until it ends.
LEMMA ExclusiveStep ==
    ASSUME Typed, SharedInTurns, Undisturbed, Exclusive, NEW p \in Procs,
           Open(p) \/ ReadBegin(p) \/ WriteBegin(p) \/ InCall(p)
    PROVE  Exclusive'
<1>1. conf' = conf /\ pc \in [Procs -> {"idle", "open", "show", "clamp", "copy",
                                        "advance", "fill", "seal"}]
  BY BoundedStep DEF Typed, Bounded
<1>2. (Own' <=> Own) /\ (Class' <=> Class) /\ Calls' = Calls
  BY <1>1 DEF Own, Node, Class, Calls
<1>3. PICK l : pc' = [pc EXCEPT ![p] = l]
  BY Zenon DEF Open, ReadBegin, WriteBegin, InCall, ShowCopy, ReadClamp, ReadCopy,
     ReadAdvance, WriteCopy, WriteSeal, Goto
<1>4. CASE Class
  BY <1>2, <1>4 DEF Exclusive, Own
<1>5. CASE ~Class
  <2>1. conf.calls # "any"
    BY <1>5 DEF Undisturbed
  <2>2. ~Own => conf.calls = "turns"
    BY <2>1, TextAssumption DEF Own, Node, Class, SharedInTurns, Typed, TypeOK
\* Calls that were made are alone, and a call that is made is.
  <2>3. \/ l \notin Calls
        \/ pc[p] \in Calls /\ (l \in {"fill", "seal"} => pc[p] \in {"fill", "seal"})
        \/ l = "clamp" /\ MayRead
        \/ l = "fill" /\ MayWrite
    <3>1. pc'[p] = l
      BY <1>1, <1>3
    <3>2. CASE Open(p)
      BY <1>1, <1>5, <3>1, <3>2 DEF Open, Goto, Calls
    <3>3. CASE ReadBegin(p)
      BY <1>1, <3>1, <3>3 DEF ReadBegin, AfterRead, Goto, Calls
    <3>4. CASE WriteBegin(p)
      BY <1>1, <3>1, <3>4 DEF WriteBegin, Goto
    <3>5. CASE InCall(p)
      BY <1>1, <3>1, <3>5 DEF InCall, ShowCopy, ReadClamp, ReadCopy, ReadAdvance, WriteCopy,
         WriteSeal, AfterRead, AfterShow, Goto, Calls
    <3> QED
      BY <3>2, <3>3, <3>4, <3>5
  <2>4. \A q \in Procs : pc[q] \in Calls <=> q \in Writing \cup Reading
    BY <1>1 DEF Calls, Writing, Reading
  <2>5. \A q \in Procs : q \in Writing <=> pc[q] \in {"fill", "seal"}
    BY DEF Writing
  <2>6. l = "clamp" /\ MayRead =>
           /\ \A q \in Procs : pc[q] \notin {"fill", "seal"}
           /\ ~Own => \A q \in Procs : pc[q] \notin Calls
    BY <2>1, <2>2, <2>4, <2>5 DEF MayRead
  <2>7. l = "fill" /\ MayWrite => \A q \in Procs : pc[q] \notin Calls
    BY <2>1, <2>4 DEF MayWrite
  <2>8. \A q \in Procs : pc'[q] = IF q = p THEN l ELSE pc[q]
    BY <1>1, <1>3
  <2>9. {"fill", "seal"} \subseteq Calls
    BY DEF Calls
  <2> QED
    BY <1>2, <1>5, <2>3, <2>6, <2>7, <2>8, <2>9 DEF Exclusive
<1> QED
  BY <1>4, <1>5

\* The message is the same where the array, the length and the pages are.
LEMMA LengthStays ==
    ASSUME conf' = conf, buffer' = buffer, length' = length, NEW p, page'[p] = page[p]
    PROVE  Length(p)' = Length(p)
<1>1. Strlen' = Strlen
  BY DEF Strlen
<1> QED
  BY <1>1 DEF Length, Class, Node

\* A step of one program that leaves the other positions alone.
LEMMA PositionsFrom ==
    ASSUME Typed, Positions, conf' = conf, NEW p \in Procs, NEW l,
           pc' = [pc EXCEPT ![p] = l],
           \A q \in Procs \ {p} : n'[q] = n[q],
           \A k \in Keys \ {Key(p)} : pos'[k] = pos[k] /\ got'[k] = got[k],
           \/ pos' = pos /\ got' = got
           \/ \A q \in Procs \ {p} : Key(q) = Key(p) => pc[q] \notin {"clamp", "copy", "advance"},
           \A q \in Procs \ {p} : pc[q] \in {"clamp", "copy"} => Length(q)' = Length(q),
           Len(got'[Key(p)]) =< Capacity,
           Numbered(got'[Key(p)], Len(got'[Key(p)])),
           l = "advance" => Len(got'[Key(p)]) = pos'[Key(p)] + n'[p],
           l = "clamp"   => pos'[Key(p)] =< Length(p)',
           l = "copy"    => pos'[Key(p)] + n'[p] =< Length(p)',
           l # "advance" /\ (\A q \in Procs \ {p} : Key(q) = Key(p) => pc[q] # "advance")
              => Len(got'[Key(p)]) = pos'[Key(p)]
    PROVE  Positions'
<1>1. \A q \in Procs : Key(q)' = Key(q) /\ Key(q) \in Keys
  BY KeyIs DEF Key, Own, Node, Class
<1>2. \A q \in Procs : pc'[q] = IF q = p THEN l ELSE pc[q]
  BY DEF Typed, TypeOK
<1>3. ASSUME NEW k \in Keys
      PROVE  Len(got'[k]) =< Capacity /\ Numbered(got'[k], Len(got'[k]))
  BY DEF Positions
<1>4. ASSUME NEW k \in Keys, \A q \in Procs : Key(q) = k => pc'[q] # "advance"
      PROVE  Len(got'[k]) = pos'[k]
  <2>1. CASE k = Key(p)
    BY <1>2, <1>4, <2>1
  <2>2. CASE k # Key(p)
    <3>1. \A q \in Procs : Key(q) = k => pc[q] # "advance"
      BY <1>2, <1>4, <2>2
    <3> QED
      BY <2>2, <3>1 DEF Positions
  <2> QED
    BY <2>1, <2>2
<1>5. ASSUME NEW q \in Procs
      PROVE  /\ pc'[q] = "advance" => Len(got'[Key(q)]) = pos'[Key(q)] + n'[q]
             /\ pc'[q] = "clamp"   => pos'[Key(q)] =< Length(q)'
             /\ pc'[q] = "copy"    => pos'[Key(q)] + n'[q] =< Length(q)'
  <2>1. CASE q = p
    BY <1>2, <2>1
  <2>2. CASE q # p
    <3>1. pc'[q] = pc[q] /\ n'[q] = n[q]
      BY <1>2, <2>2
    <3>2. CASE pc[q] \notin {"clamp", "copy", "advance"}
      BY <3>1, <3>2
    <3>3. CASE pc[q] \in {"clamp", "copy", "advance"}
      <4>1. pos'[Key(q)] = pos[Key(q)] /\ got'[Key(q)] = got[Key(q)]
        BY <1>1, <2>2, <3>3
      <4> QED
        BY <2>2, <3>1, <3>3, <4>1 DEF Positions
    <3> QED
      BY <3>2, <3>3
  <2> QED
    BY <2>1, <2>2
<1>6. Keys' = Keys
  BY DEF Keys
<1> QED
  BY <1>1, <1>3, <1>4, <1>5, <1>6 DEF Positions, Numbered

\* A step that changes neither the array nor a page, nor adds to what was read.
LEMMA SourcesFrom ==
    ASSUME Sources, conf' = conf, UNCHANGED <<buffer, length, page>>,
           \A k \in Keys : got'[k] = got[k] \/ got'[k] = << >>,
           \A q \in Procs : /\ pc'[q] = "seal" <=> pc[q] = "seal"
                            /\ pc[q] = "seal" => n'[q] = n[q]
                            /\ pc'[q] = "show" => pc[q] = "show" \/ got'[q] = << >>,
           Typed
    PROVE  Sources'
<1>1. (Class' <=> Class) /\ (Own' <=> Own)
  BY DEF Class, Own, Node
<1>2. \A f, g, k : k = << >> => Len(k) = 0 /\ \A i \in 1 .. Len(k) : FALSE
  OBVIOUS
<1>3. \A f : f \in Seq(Cells) => StartsWith(f, << >>)
  BY DEF StartsWith
<1>4. buffer \in Seq(Cells) /\ page \in [Procs -> Seq(Cells)] /\ length \in Nat
  BY ArrayIs, TextAssumption DEF Typed, TypeOK
<1>5. \A q \in Procs : q \in Keys /\ Module \in Keys
  BY DEF Keys
<1>6. ASSUME Class, NEW q \in Procs
      PROVE  StartsWith(page[q], got'[q]) /\ (pc'[q] = "show" => got'[q] = << >>)
  BY <1>3, <1>4, <1>5, <1>6 DEF Sources
<1>7. ASSUME ~Own
      PROVE  /\ Len(got'[Module]) =< length
             /\ (\A q \in Procs : pc'[q] # "seal") =>
                    Numbered(buffer, length) /\ StartsWith(buffer, got'[Module])
  <2>1. Module \in Keys
    BY DEF Keys
  <2> QED
    BY <1>2, <1>3, <1>4, <1>7, <2>1 DEF Sources
<1> QED
  BY <1>1, <1>6, <1>7 DEF Sources, Numbered, StartsWith

\* The types that the steps below need.
LEMMA Shapes ==
    ASSUME Typed
    PROVE  /\ pc \in [Procs -> {"idle", "open", "show", "clamp", "copy", "advance",
                                "fill", "seal"}]
           /\ pos \in [Keys -> Nat] /\ got \in [Keys -> Seq(Cells)]
           /\ n \in [Procs -> 0 .. Capacity + 1] /\ Capacity \in Nat /\ 0 =< Capacity
           /\ page \in [Procs -> Seq(Cells)] /\ length \in 0 .. Capacity
           /\ Module \in Keys /\ \A q \in Procs : q \in Keys
BY TextAssumption DEF Typed, TypeOK, Bounded, Keys, Cells

\* While a program is in a call, no other one is that reads at the same position.
LEMMA Alone ==
    ASSUME Exclusive, NEW p \in Procs, pc[p] \in Calls
    PROVE  /\ \A q \in Procs \ {p} : Key(q) = Key(p) => pc[q] \notin Calls
           /\ ~Class /\ pc[p] \in {"fill", "seal"} =>
                 \A q \in Procs \ {p} : pc[q] \notin Calls
BY KeyIs DEF Exclusive, Calls

\* Nothing was read at a position that was reset.
LEMMA Nothing ==
    \A f : f = << >> => Len(f) = 0 /\ Numbered(f, Len(f))
BY DEF Numbered

\* What is so while no write disturbs a read.
Still == Typed /\ Undisturbed /\ Exclusive /\ Positions /\ Sources /\ ~strayed

\* A program that opens the file starts at 0, or where the last one stopped.
LEMMA OpenOrderly ==
    ASSUME Still, NEW p \in Procs, Open(p)
    PROVE  (Positions /\ Sources /\ ~strayed)'
<1> USE DEF Still
<1>1. /\ pc[p] = "idle" /\ pc' = [pc EXCEPT ![p] = IF Class THEN "show" ELSE "open"]
      /\ UNCHANGED <<conf, buffer, length, page, n, strayed>>
  BY DEF Open, Goto
<1>2. Capacity \in Nat /\ 0 =< Capacity /\ pos \in [Keys -> Nat] /\ got \in [Keys -> Seq(Cells)]
  BY Shapes
<1>3. Key(p) \in Keys /\ (Own => Key(p) = p) /\ (Class => Own) /\ p \in Keys
  BY KeyIs, Shapes
<1>4. \A q \in Procs \ {p} : Own => Key(q) # Key(p)
  BY KeyIs
<1>5. IF Own THEN /\ pos' = [pos EXCEPT ![p] = 0]
                  /\ got' = [got EXCEPT ![p] = << >>]
             ELSE UNCHANGED <<pos, got>>
  BY DEF Open
<1>6. \A k \in Keys \ {Key(p)} : pos'[k] = pos[k] /\ got'[k] = got[k]
  BY <1>2, <1>3, <1>5
<1>7. Own => pos'[p] = 0 /\ got'[p] = << >>
  BY <1>2, <1>3, <1>5
<1>8. /\ Len(got'[Key(p)]) =< Capacity
      /\ Numbered(got'[Key(p)], Len(got'[Key(p)]))
      /\ (\A q \in Procs \ {p} : Key(q) = Key(p) => pc[q] # "advance")
              => Len(got'[Key(p)]) = pos'[Key(p)]
  <2>1. CASE Own
    BY <1>2, <1>3, <1>7, <2>1, Nothing
  <2>2. CASE ~Own
    BY <1>1, <1>3, <1>5, <2>2 DEF Positions
  <2> QED
    BY <2>1, <2>2
<1>9. \A q \in Procs \ {p} : n'[q] = n[q] /\ Length(q)' = Length(q)
  BY <1>1, LengthStays
<1>10. Positions'
  <2> DEFINE l == IF Class THEN "show" ELSE "open"
  <2>1. l \notin {"advance", "clamp", "copy"} /\ pc' = [pc EXCEPT ![p] = l]
    BY <1>1
  <2> HIDE DEF l
  <2>2. \/ pos' = pos /\ got' = got
        \/ \A q \in Procs \ {p} : Key(q) = Key(p) => pc[q] \notin {"clamp", "copy", "advance"}
    BY <1>4, <1>5
  <2> QED
    BY <1>1, <1>6, <1>8, <1>9, <2>1, <2>2, PositionsFrom, ZenonT(60)
<1>11. Sources'
  <2>1. \A k \in Keys : got'[k] = got[k] \/ got'[k] = << >>
    BY <1>2, <1>3, <1>5, <1>6, <1>7
  <2>2. \A q \in Procs : pc'[q] = IF q = p THEN (IF Class THEN "show" ELSE "open") ELSE pc[q]
    BY <1>1, Shapes
  <2>3. \A q \in Procs : /\ pc'[q] = "seal" <=> pc[q] = "seal"
                         /\ pc[q] = "seal" => n'[q] = n[q]
                         /\ pc'[q] = "show" => pc[q] = "show" \/ got'[q] = << >>
    BY <1>1, <1>3, <1>7, <2>2
  <2> QED
    BY <1>1, <2>1, <2>3, SourcesFrom
<1> QED
  BY <1>1, <1>10, <1>11

\* A count is clamped to what is left.
LEMMA ClampOrderly ==
    ASSUME Still, NEW p \in Procs, ReadClamp(p)
    PROVE  (Positions /\ Sources /\ ~strayed)'
<1> USE DEF Still
<1>1. /\ pc[p] = "clamp" /\ pc' = [pc EXCEPT ![p] = "copy"]
      /\ n' = [n EXCEPT ![p] = Clamp(p, n[p])]
      /\ UNCHANGED <<conf, buffer, length, page, pos, got, strayed>>
  BY Shapes DEF ReadClamp, Goto
<1>2. /\ pc \in [Procs -> {"idle", "open", "show", "clamp", "copy", "advance", "fill", "seal"}]
      /\ n'[p] = Clamp(p, n[p]) /\ \A q \in Procs \ {p} : n'[q] = n[q]
  BY <1>1, Shapes
<1>3. Key(p) \in Keys
  BY KeyIs
<1>4. \A q \in Procs : Length(q)' = Length(q)
  BY <1>1, LengthStays
<1>5. pos'[Key(p)] + n'[p] =< Length(p)'
  <2>1. pos[Key(p)] =< Length(p)
    BY <1>1 DEF Positions
  <2> QED
    BY <1>1, <1>2, <1>4, <2>1, ClampIs
<1>6. /\ Len(got'[Key(p)]) =< Capacity
      /\ Numbered(got'[Key(p)], Len(got'[Key(p)]))
      /\ (\A q \in Procs \ {p} : Key(q) = Key(p) => pc[q] # "advance")
              => Len(got'[Key(p)]) = pos'[Key(p)]
  BY <1>1, <1>3 DEF Positions
<1>7. Positions'
  BY <1>1, <1>2, <1>4, <1>5, <1>6, PositionsFrom
<1>8. Sources'
  BY <1>1, <1>2, SourcesFrom
<1> QED
  BY <1>1, <1>7, <1>8

\* A read begins inside the message, or goes back to its start.
LEMMA BeginOrderly ==
    ASSUME Still, SharedInTurns, NEW p \in Procs, ReadBegin(p)
    PROVE  (Positions /\ Sources /\ ~strayed)'
<1> USE DEF Still
<1>1. pc[p] = "open" /\ MayRead /\ UNCHANGED <<conf, buffer, length, page, strayed>>
  BY DEF ReadBegin
<1>2. /\ pc \in [Procs -> {"idle", "open", "show", "clamp", "copy", "advance", "fill", "seal"}]
      /\ pos \in [Keys -> Nat] /\ got \in [Keys -> Seq(Cells)]
      /\ n \in [Procs -> 0 .. Capacity + 1] /\ Capacity \in Nat /\ 0 =< Capacity
  BY Shapes
<1>3. Key(p) \in Keys /\ (Own => Key(p) = p) /\ (~Own => Key(p) = Module)
      /\ (Class => Own) /\ p \in Keys
  BY KeyIs, Shapes
<1>4. \A q \in Procs \ {p} : Own => Key(q) # Key(p)
  BY KeyIs
<1>5. \A q \in Procs : Length(q)' = Length(q)
  BY <1>1, LengthStays
<1>6. CASE Node /\ pos[p] >= Length(p)
  <2>1. /\ pos' = [pos EXCEPT ![p] = 0] /\ got' = [got EXCEPT ![p] = << >>]
        /\ pc' = [pc EXCEPT ![p] = "idle"] /\ n' = n
    BY <1>6 DEF ReadBegin, AfterRead, Goto
  <2>2. Own
    BY <1>6, KeyIs
  <2>3. /\ pos'[p] = 0 /\ got'[p] = << >>
        /\ \A k \in Keys \ {p} : pos'[k] = pos[k] /\ got'[k] = got[k]
    BY <1>2, <1>3, <2>1
  <2>4. Positions'
    <3>1. /\ Len(got'[p]) = pos'[p] /\ Len(got'[p]) =< Capacity
          /\ Numbered(got'[p], Len(got'[p]))
      BY <1>2, <2>3, Nothing
    <3> QED
      BY <1>1, <1>3, <1>4, <1>5, <2>1, <2>2, <2>3, <3>1, PositionsFrom
  <2>5. Sources'
    <3>1. \A q \in Procs : pc'[q] = IF q = p THEN "idle" ELSE pc[q]
      BY <1>2, <2>1
    <3>2. \A k \in Keys : got'[k] = got[k] \/ got'[k] = << >>
      BY <2>3
    <3>3. \A q \in Procs : /\ pc'[q] = "seal" <=> pc[q] = "seal"
                           /\ pc[q] = "seal" => n'[q] = n[q]
                           /\ pc'[q] = "show" => pc[q] = "show" \/ got'[q] = << >>
      BY <1>1, <2>1, <3>1
    <3> QED
      BY <1>1, <3>2, <3>3, SourcesFrom
  <2> QED
    BY <1>1, <2>4, <2>5
<1>7. CASE ~(Node /\ pos[p] >= Length(p))
  <2>1. PICK count \in 1 .. Capacity + 1 : n' = [n EXCEPT ![p] = count]
    BY <1>7 DEF ReadBegin
  <2>2. pc' = [pc EXCEPT ![p] = "clamp"] /\ UNCHANGED <<pos, got>>
    BY <1>7 DEF ReadBegin, Goto
  <2>3. \A q \in Procs \ {p} : n'[q] = n[q]
    BY <1>2, <2>1
  <2>4. \A q \in Procs : pc'[q] = IF q = p THEN "clamp" ELSE pc[q]
    BY <1>2, <2>2
  <2>5. pos[Key(p)] =< Length(p)
    <3>1. CASE Node
      BY <1>2, <1>3, <1>7, <3>1, LengthIs DEF Own
    <3>2. CASE Class
      <4>1. Len(got[p]) = pos[p]
        BY <1>1, <1>3, <1>4, <3>2 DEF Positions
      <4>2. Len(got[p]) =< Len(page[p])
        BY <3>2 DEF Sources, StartsWith
      <4> QED
        BY <1>3, <3>2, <4>1, <4>2 DEF Length
    <3>3. CASE ~Own
      <4>1. conf.calls = "turns"
        BY <3>3, TextAssumption DEF Own, Node, Class, SharedInTurns, Typed, TypeOK, Undisturbed
      <4>2. \A q \in Procs : pc[q] # "advance"
        BY <1>1, <4>1 DEF MayRead, Writing, Reading
      <4>3. Len(got[Module]) = pos[Module]
        BY <1>2, <4>2, Shapes DEF Positions
      <4>4. Len(got[Module]) =< length
        BY <3>3 DEF Sources
      <4> QED
        BY <1>3, <3>3, <4>3, <4>4 DEF Length, Own
    <3> QED
      BY <3>1, <3>2, <3>3 DEF Own
  <2>6. /\ Len(got'[Key(p)]) =< Capacity
        /\ Numbered(got'[Key(p)], Len(got'[Key(p)]))
        /\ (\A q \in Procs \ {p} : Key(q) = Key(p) => pc[q] # "advance")
                => Len(got'[Key(p)]) = pos'[Key(p)]
    BY <1>1, <1>3, <2>2 DEF Positions
  <2>7. Positions'
    BY <1>1, <1>5, <2>2, <2>3, <2>5, <2>6, PositionsFrom
  <2>8. Sources'
    BY <1>1, <2>2, <2>3, <2>4, SourcesFrom
  <2> QED
    BY <1>1, <2>7, <2>8
<1> QED
  BY <1>6, <1>7

\* The position follows what was read.
LEMMA AdvanceOrderly ==
    ASSUME Still, NEW p \in Procs, ReadAdvance(p)
    PROVE  (Positions /\ Sources /\ ~strayed)'
<1> USE DEF Still
<1> DEFINE l == AfterRead(n[p])
<1>1. /\ pc[p] = "advance" /\ pc' = [pc EXCEPT ![p] = l]
      /\ pos' = [pos EXCEPT ![Key(p)] = pos[Key(p)] + n[p]]
      /\ n' = [n EXCEPT ![p] = 0]
      /\ UNCHANGED <<conf, buffer, length, page, got, strayed>>
  BY Shapes, KeyIs DEF ReadAdvance, Goto
<1>2. /\ pc \in [Procs -> {"idle", "open", "show", "clamp", "copy", "advance", "fill", "seal"}]
      /\ pos \in [Keys -> Nat] /\ n \in [Procs -> 0 .. Capacity + 1]
  BY Shapes
<1>3. Key(p) \in Keys /\ l \in {"open", "idle"}
  BY KeyIs DEF AfterRead
<1> HIDE DEF l
<1>4. /\ pos'[Key(p)] = pos[Key(p)] + n[p]
      /\ \A k \in Keys \ {Key(p)} : pos'[k] = pos[k] /\ got'[k] = got[k]
      /\ \A q \in Procs \ {p} : n'[q] = n[q]
      /\ \A q \in Procs : pc'[q] = IF q = p THEN l ELSE pc[q]
  BY <1>1, <1>2, <1>3
<1>5. \A q \in Procs : Length(q)' = Length(q)
  BY <1>1, LengthStays
<1>6. \A q \in Procs \ {p} : Key(q) = Key(p) => pc[q] \notin {"clamp", "copy", "advance"}
  BY <1>1, Alone DEF Calls
<1>7. /\ Len(got'[Key(p)]) = pos'[Key(p)]
      /\ Len(got'[Key(p)]) =< Capacity
      /\ Numbered(got'[Key(p)], Len(got'[Key(p)]))
  BY <1>1, <1>3, <1>4 DEF Positions
<1>8. Positions'
  BY <1>1, <1>3, <1>4, <1>5, <1>6, <1>7, PositionsFrom
<1>9. Sources'
  <2>1. \A q \in Procs : /\ pc'[q] = "seal" <=> pc[q] = "seal"
                         /\ pc[q] = "seal" => n'[q] = n[q]
                         /\ pc'[q] = "show" => pc[q] = "show" \/ got'[q] = << >>
    BY <1>1, <1>3, <1>4
  <2> QED
    BY <1>1, <2>1, SourcesFrom
<1> QED
  BY <1>1, <1>8, <1>9

\* A write begins without touching the message.
LEMMA WriteBeginOrderly ==
    ASSUME Still, NEW p \in Procs, WriteBegin(p)
    PROVE  (Positions /\ Sources /\ ~strayed)'
<1> USE DEF Still
<1>1. /\ pc[p] = "idle" /\ pc' = [pc EXCEPT ![p] = "fill"]
      /\ UNCHANGED <<conf, buffer, length, page, pos, got, strayed>>
  BY DEF WriteBegin, Goto
<1>2. PICK count \in Counts : n' = [n EXCEPT ![p] = Room(count)]
  BY DEF WriteBegin
<1>3. \A q \in Procs \ {p} : n'[q] = n[q]
  BY <1>2, Shapes
<1>4. \A q \in Procs : pc'[q] = IF q = p THEN "fill" ELSE pc[q]
  BY <1>1, Shapes
<1>5. \A q \in Procs : Length(q)' = Length(q)
  BY <1>1, LengthStays
<1>6. /\ Len(got'[Key(p)]) =< Capacity
      /\ Numbered(got'[Key(p)], Len(got'[Key(p)]))
      /\ (\A q \in Procs \ {p} : Key(q) = Key(p) => pc[q] # "advance")
              => Len(got'[Key(p)]) = pos'[Key(p)]
  BY <1>1, KeyIs DEF Positions
<1>7. Positions'
  BY <1>1, <1>3, <1>5, <1>6, PositionsFrom
<1>8. Sources'
  BY <1>1, <1>3, <1>4, SourcesFrom
<1> QED
  BY <1>1, <1>7, <1>8

\* A show replaces the page before anything of it is read.
LEMMA ShowOrderly ==
    ASSUME Still, NEW p \in Procs, ShowCopy(p)
    PROVE  (Positions /\ Sources /\ ~strayed)'
<1> USE DEF Still
<1> DEFINE s == SubSeq(buffer, 1, Strlen)
<1>1. /\ pc[p] = "show" /\ pc' = [pc EXCEPT ![p] = AfterShow]
      /\ page' = [page EXCEPT ![p] = s]
      /\ UNCHANGED <<conf, buffer, length, pos, n, got, strayed>>
  BY DEF ShowCopy, Goto
<1>2. /\ pc \in [Procs -> {"idle", "open", "show", "clamp", "copy", "advance", "fill", "seal"}]
      /\ page \in [Procs -> Seq(Cells)] /\ AfterShow \in {"idle", "open"}
  BY Shapes DEF AfterShow
<1>3. Numbered(s, Len(s))
  <2>1. /\ Strlen \in Nat /\ buffer \in Seq(Cells) /\ Strlen =< Len(buffer)
        /\ \A i \in 1 .. Strlen : buffer[i][2] = i
    <3>1. /\ Len(buffer) \in {Capacity, Capacity + 1} /\ buffer \in Seq(Cells)
          /\ Strlen \in 0 .. Capacity
          /\ \A i \in 1 .. Strlen : i \in DOMAIN buffer /\ buffer[i] # NUL
      BY ArrayIs, Zenon
    <3>2. \A i \in 1 .. Strlen : buffer[i][2] = i
      BY <3>1 DEF Sources
    <3> QED
      BY <3>1, <3>2, TextAssumption
  <2>2. ASSUME NEW m \in Nat, m =< Len(buffer), \A i \in 1 .. m : buffer[i][2] = i
        PROVE  Numbered(SubSeq(buffer, 1, m), Len(SubSeq(buffer, 1, m)))
    BY <2>1, <2>2 DEF Numbered
  <2> QED
    BY <2>1, <2>2
<1> HIDE DEF s
<1>4. /\ page'[p] = s /\ \A q \in Procs \ {p} : page'[q] = page[q]
      /\ \A q \in Procs : pc'[q] = IF q = p THEN AfterShow ELSE pc[q]
  BY <1>1, <1>2
<1>5. \A q \in Procs \ {p} : Length(q)' = Length(q)
  BY <1>1, <1>4, LengthStays
<1>6. /\ Len(got'[Key(p)]) =< Capacity
      /\ Numbered(got'[Key(p)], Len(got'[Key(p)]))
      /\ (\A q \in Procs \ {p} : Key(q) = Key(p) => pc[q] # "advance")
              => Len(got'[Key(p)]) = pos'[Key(p)]
  BY <1>1, KeyIs DEF Positions
<1>7. Positions'
  BY <1>1, <1>2, <1>5, <1>6, PositionsFrom
<1>8. Sources'
  <2>1. (Class' <=> Class) /\ (Own' <=> Own)
    BY <1>1 DEF Class, Own, Node
  <2>2. ASSUME Class, NEW q \in Procs
        PROVE  /\ Numbered(page'[q], Len(page'[q])) /\ StartsWith(page'[q], got[q])
               /\ pc'[q] = "show" => got[q] = << >>
    <3>1. CASE q = p
      <4>1. got[p] = << >>
        BY <1>1, <2>2 DEF Sources
      <4>2. StartsWith(s, << >>)
        <5>1. Len(s) \in Nat
          <6>1. Strlen \in 0 .. Capacity
            BY ArrayIs, Zenon
          <6>2. Strlen \in Nat
            BY <6>1, TextAssumption
          <6> QED
            BY <6>2 DEF s
        <5> QED
          BY <5>1 DEF StartsWith
      <4> QED
        BY <1>2, <1>3, <1>4, <3>1, <4>1, <4>2
    <3>2. CASE q # p
      BY <1>4, <2>2, <3>2 DEF Sources
    <3> QED
      BY <3>1, <3>2
  <2>3. \A q \in Procs : pc'[q] = "seal" <=> pc[q] = "seal"
    BY <1>1, <1>2, <1>4
  <2> QED
    BY <1>1, <2>1, <2>2, <2>3 DEF Sources, Numbered, StartsWith
<1> QED
  BY <1>1, <1>7, <1>8

\* What a read finds inside the message are the characters of that place.
LEMMA MessageIs ==
    ASSUME Still, NEW p \in Procs, pc[p] = "copy", NEW j \in 1 .. Length(p)
    PROVE  /\ Cell(p, j)[2] = j
           /\ Class => Cell(p, j) = page[p][j]
           /\ ~Own => Cell(p, j) = buffer[j] /\ j \in 1 .. Len(buffer)
<1> USE DEF Still
<1>1. /\ Len(buffer) \in {Capacity, Capacity + 1} /\ buffer \in Seq(Cells)
      /\ DOMAIN buffer = 1 .. Len(buffer)
      /\ \A i \in 1 .. Strlen : i \in DOMAIN buffer /\ buffer[i] # NUL
  BY ArrayIs, Zenon
<1>2. CASE Class
  <2>1. Length(p) = Len(page[p]) /\ page[p] \in Seq(Cells)
    BY <1>2, Shapes DEF Length
  <2>2. j \in DOMAIN page[p] /\ j \in 1 .. Len(page[p])
    BY <2>1
  <2>3. Cell(p, j) = page[p][j]
    BY <1>2, <2>2 DEF Cell, Source
  <2> QED
    BY <1>2, <2>2, <2>3, KeyIs DEF Sources, Numbered
<1>3. CASE Node
  <2>1. ~Class
    BY <1>3 DEF Node, Class
  <2>2. Length(p) = Strlen
    BY <1>3, <2>1 DEF Length
  <2>3. Cell(p, j) = buffer[j]
    BY <1>1, <2>1, <2>2 DEF Cell, Source
  <2> QED
    BY <1>1, <1>3, <2>1, <2>2, <2>3, KeyIs DEF Sources
<1>4. CASE ~Own
  <2>1. ~Class /\ Length(p) = length
    BY <1>4 DEF Own, Length
  <2>2. \A q \in Procs : pc[q] # "seal"
    BY <1>4 DEF Exclusive, Calls
  <2>3. length \in 0 .. Capacity /\ Capacity \in Nat
    BY Shapes
  <2>4. j \in 1 .. Len(buffer) /\ j \in DOMAIN buffer /\ j \in 1 .. length
    <3> DEFINE m == Len(buffer)
    <3>1. m \in {Capacity, Capacity + 1} /\ DOMAIN buffer = 1 .. m /\ j \in 1 .. length
      BY <1>1, <2>1
    <3> HIDE DEF m
    <3>2. j \in 1 .. m
      BY <2>3, <3>1
    <3> QED
      BY <3>1, <3>2 DEF m
  <2>5. Cell(p, j) = buffer[j]
    BY <2>1, <2>4 DEF Cell, Source
  <2> QED
    BY <1>4, <2>1, <2>2, <2>4, <2>5 DEF Sources, Numbered
<1> QED
  BY <1>2, <1>3, <1>4 DEF Own

\* What is copied goes on where the position is, and is inside the message.
LEMMA CopyOrderly ==
    ASSUME Still, NEW p \in Procs, ReadCopy(p)
    PROVE  (Positions /\ Sources /\ ~strayed)'
<1> USE DEF Still
<1> DEFINE from == pos[Key(p)]
<1>1. PICK k \in Copied(n[p]) :
         /\ n' = [n EXCEPT ![p] = k]
         /\ got' = [got EXCEPT ![Key(p)] = @ \o [i \in 1 .. k |-> Cell(p, from + i)]]
         /\ strayed' = (strayed \/ (k > 0 /\ from + k > Length(p)))
  BY DEF ReadCopy
<1>2. /\ pc[p] = "copy" /\ pc' = [pc EXCEPT ![p] = "advance"]
      /\ UNCHANGED <<conf, buffer, length, page, pos>>
  BY DEF ReadCopy, Goto
<1>3. /\ pc \in [Procs -> {"idle", "open", "show", "clamp", "copy", "advance", "fill", "seal"}]
      /\ pos \in [Keys -> Nat] /\ got \in [Keys -> Seq(Cells)]
      /\ n \in [Procs -> 0 .. Capacity + 1] /\ Capacity \in Nat
  BY Shapes
<1>4. Key(p) \in Keys /\ (Own => Key(p) = p) /\ (~Own => Key(p) = Module) /\ (Class => Own)
  BY KeyIs
<1>5. \A q \in Procs \ {p} : Key(q) = Key(p) => pc[q] \notin {"clamp", "copy", "advance"}
  BY <1>2, Alone DEF Calls
<1>6. Len(got[Key(p)]) = from /\ from + n[p] =< Length(p)
  BY <1>2, <1>4, <1>5 DEF Positions
<1>7. /\ from \in Nat /\ k \in 0 .. n[p] /\ n[p] \in Nat /\ Length(p) \in 0 .. Capacity
      /\ k \in Nat
  BY <1>3, <1>4, LengthIs DEF Copied
<1> DEFINE c == [i \in 1 .. k |-> Cell(p, from + i)]
           g == got[Key(p)] \o c
<1>8. /\ got'[Key(p)] = g /\ \A m \in Keys \ {Key(p)} : got'[m] = got[m]
      /\ n'[p] = k /\ \A q \in Procs \ {p} : n'[q] = n[q]
  BY <1>1, <1>3, <1>4
<1>9. c \in Seq(Cells) /\ Len(c) = k
  <2>1. \A i \in 1 .. k : Cell(p, from + i) \in Cells
    BY <1>7, LengthIs
  <2> QED
    BY <1>7, <2>1
<1>10. \A i \in 1 .. k : c[i] = Cell(p, from + i)
  OBVIOUS
<1> HIDE DEF c, from
<1>11. /\ Len(g) = from + k /\ Len(g) =< Length(p) /\ Len(g) =< Capacity
       /\ \A i \in 1 .. from : g[i] = got[Key(p)][i]
       /\ \A i \in 1 .. Len(g) : i > from => i - from \in 1 .. k /\ g[i] = c[i - from]
  <2>1. Len(g) = from + k
    <3>1. ASSUME NEW f \in Seq(Cells), NEW h \in Seq(Cells)
          PROVE  Len(f \o h) = Len(f) + Len(h)
      OBVIOUS
    <3>2. got[Key(p)] \in Seq(Cells)
      BY <1>3, <1>4
    <3> QED
      BY <1>6, <1>9, <3>1, <3>2
  <2>2. /\ \A i \in 1 .. from : g[i] = got[Key(p)][i]
        /\ \A i \in 1 .. from + k : i > from => g[i] = c[i - from]
    <3> DEFINE f == got[Key(p)]
    <3>1. f \in Seq(Cells) /\ Len(f) = from
      BY <1>3, <1>4, <1>6
    <3> HIDE DEF f
    <3>2. /\ \A i \in 1 .. Len(f) : (f \o c)[i] = f[i]
          /\ \A i \in 1 .. Len(f) + Len(c) : i > Len(f) => (f \o c)[i] = c[i - Len(f)]
      BY <3>1, <1>9
    <3>3. g = f \o c
      BY DEF f
    <3> QED
      BY <3>1, <3>2, <3>3, <1>9, Zenon DEF f
  <2> HIDE DEF g
  <2> QED
    BY <1>3, <1>6, <1>7, <2>1, <2>2
<1> HIDE DEF g
<1>12. \A i \in 1 .. Len(g) : i > from => i \in 1 .. Length(p) /\ g[i] = Cell(p, i)
  <2> SUFFICES ASSUME NEW i \in 1 .. Len(g), i > from
               PROVE  i \in 1 .. Length(p) /\ g[i] = Cell(p, i)
    OBVIOUS
  <2>1. i - from \in 1 .. k /\ g[i] = c[i - from]
    BY <1>11
  <2>2. from + (i - from) = i /\ i \in 1 .. Length(p)
    BY <1>7, <1>11
  <2> QED
    BY <1>10, <2>1, <2>2
<1>13. \A i \in 1 .. Len(g) : i \in 1 .. from \/ i > from
  BY <1>7, <1>11
<1>14. Numbered(g, Len(g))
  <2>1. \A i \in 1 .. from : got[Key(p)][i][2] = i
    BY <1>4, <1>6 DEF Positions, Numbered
  <2> SUFFICES ASSUME NEW i \in 1 .. Len(g) PROVE g[i][2] = i
    BY DEF Numbered
  <2> QED
    BY <1>2, <1>11, <1>12, <1>13, <2>1, MessageIs
<1>15. \A q \in Procs : Length(q)' = Length(q)
  BY <1>2, LengthStays
<1>16. Positions'
  <2>1. Len(got'[Key(p)]) = pos'[Key(p)] + n'[p]
    BY <1>2, <1>8, <1>11 DEF from
  <2> QED
    BY <1>2, <1>5, <1>8, <1>11, <1>14, <1>15, <2>1, PositionsFrom
<1>17. Sources'
  <2>1. (Class' <=> Class) /\ (Own' <=> Own)
    BY <1>2 DEF Class, Own, Node
  <2>2. \A q \in Procs : pc'[q] = IF q = p THEN "advance" ELSE pc[q]
    BY <1>2, <1>3
  <2>3. ASSUME Class, NEW q \in Procs
        PROVE  /\ StartsWith(page[q], got'[q]) /\ (pc'[q] = "show" => got'[q] = << >>)
    <3>1. CASE q = p
      <4>1. Len(g) =< Len(page[p])
        BY <1>11, <2>3 DEF Length
      <4>2. \A i \in 1 .. from : got[p][i] = page[p][i]
        BY <1>4, <1>6, <2>3 DEF Sources, StartsWith
      <4>3. ASSUME NEW i \in 1 .. Len(g) PROVE g[i] = page[p][i]
        BY <1>2, <1>4, <1>11, <1>12, <1>13, <2>3, <4>2, MessageIs
      <4> QED
        BY <1>4, <1>8, <2>2, <2>3, <3>1, <4>1, <4>3 DEF StartsWith
    <3>2. CASE q # p
      <4>1. q \in Keys \ {Key(p)}
        BY <1>4, <2>3, <3>2, Shapes
      <4> QED
        BY <1>8, <2>2, <2>3, <3>2, <4>1 DEF Sources
    <3> QED
      BY <3>1, <3>2
  <2>4. ASSUME ~Own
        PROVE  /\ Len(got'[Module]) =< length
               /\ Numbered(buffer, length) /\ StartsWith(buffer, got'[Module])
               /\ \A q \in Procs : pc[q] # "seal" /\ pc'[q] # "seal"
    <3>1. \A q \in Procs : pc[q] # "seal" /\ pc'[q] # "seal"
      BY <1>2, <2>2, <2>4 DEF Exclusive, Calls
    <3>2. Numbered(buffer, length) /\ StartsWith(buffer, got[Module])
      BY <2>4, <3>1 DEF Sources
    <3>3. Len(g) =< length
      BY <1>11, <2>4 DEF Length, Own
    <3>4. \A i \in 1 .. from : got[Module][i] = buffer[i]
      BY <1>4, <1>6, <2>4, <3>2 DEF StartsWith
    <3>5. ASSUME NEW i \in 1 .. Len(g) PROVE g[i] = buffer[i]
      BY <1>2, <1>4, <1>11, <1>12, <1>13, <2>4, <3>4, MessageIs
    <3>6. Len(g) =< Len(buffer)
      <4>1. Len(buffer) \in {Capacity, Capacity + 1}
        BY ArrayIs, Zenon
      <4> QED
        BY <1>3, <1>7, <1>11, <4>1
    <3> QED
      BY <1>4, <1>8, <2>4, <3>1, <3>2, <3>3, <3>5, <3>6 DEF StartsWith
  <2> QED
    BY <1>2, <2>1, <2>3, <2>4 DEF Sources, Numbered, StartsWith
<1>18. ~strayed'
  <2>1. ~(from + k > Length(p))
    BY <1>3, <1>6, <1>7
  <2> QED
    BY <1>1, <2>1, Zenon
<1> QED
  BY <1>16, <1>17, <1>18

\* The array is filled with the characters of a message, each at its place.
LEMMA FillOrderly ==
    ASSUME Still, NEW p \in Procs, WriteCopy(p)
    PROVE  (Positions /\ Sources /\ ~strayed)'
<1> USE DEF Still
<1>1. PICK k \in Copied(n[p]) :
         /\ n' = [n EXCEPT ![p] = k]
         /\ buffer' = [i \in DOMAIN buffer |->
                          IF i =< k THEN <<p, i>>
                          ELSE IF i =< n[p] THEN NUL ELSE buffer[i]]
  BY DEF WriteCopy
<1>2. /\ pc[p] = "fill" /\ pc' = [pc EXCEPT ![p] = "seal"]
      /\ UNCHANGED <<conf, length, page, pos, got, strayed>>
  BY DEF WriteCopy, Goto
<1>3. k \in 0 .. n[p] /\ n[p] \in 0 .. Capacity /\ Capacity \in Nat
  BY <1>2, TextAssumption DEF Copied, Typed, Bounded
<1>4. /\ n'[p] = k /\ \A q \in Procs \ {p} : n'[q] = n[q]
      /\ \A q \in Procs : pc'[q] = IF q = p THEN "seal" ELSE pc[q]
  BY <1>1, <1>2, Shapes
<1>5. (Class' <=> Class) /\ (Own' <=> Own)
  BY <1>2 DEF Class, Own, Node
<1>6. ~Class => \A q \in Procs \ {p} : pc[q] \notin Calls
  BY <1>2, Alone DEF Calls
<1>7. \A q \in Procs \ {p} : pc[q] \in {"clamp", "copy"} => Length(q)' = Length(q)
  BY <1>2, <1>5, <1>6 DEF Length, Calls
<1>8. /\ Len(got'[Key(p)]) =< Capacity
      /\ Numbered(got'[Key(p)], Len(got'[Key(p)]))
      /\ (\A q \in Procs \ {p} : Key(q) = Key(p) => pc[q] # "advance")
              => Len(got'[Key(p)]) = pos'[Key(p)]
  BY <1>2, KeyIs DEF Positions
<1>9. Positions'
  BY <1>2, <1>4, <1>7, <1>8, PositionsFrom
<1>10. \A i \in DOMAIN buffer' : buffer'[i] # NUL => buffer'[i][2] = i
  BY <1>1 DEF Sources
<1>11. Numbered(buffer', k)
  <2>1. \A i \in 1 .. k : i \in DOMAIN buffer
    <3> DEFINE m == Len(buffer)
    <3>1. m \in {Capacity, Capacity + 1} /\ DOMAIN buffer = 1 .. m
      BY ArrayIs, Zenon
    <3> HIDE DEF m
    <3> QED
      BY <1>3, <3>1
  <2> QED
    BY <1>1, <2>1 DEF Numbered
<1>12. Sources'
  <2>1. Class => \A q \in Procs : pc'[q] = "show" => pc[q] = "show"
    BY <1>4
  <2>2. ~Own => \A q \in Procs \ {p} : pc'[q] # "seal"
    BY <1>4, <1>6 DEF Own, Calls
  <2>3. pc'[p] = "seal"
    BY <1>4
  <2> QED
    BY <1>2, <1>4, <1>5, <1>10, <1>11, <2>1, <2>2, <2>3 DEF Sources, Numbered, StartsWith
<1> QED
  BY <1>2, <1>9, <1>12

\* A write ends where nobody reads, or where what is read is a page.
LEMMA SealOrderly ==
    ASSUME Still, NEW p \in Procs, WriteSeal(p)
    PROVE  (Positions /\ Sources /\ ~strayed)'
<1> USE DEF Still
<1>1. /\ pc[p] = "seal" /\ pc' = [pc EXCEPT ![p] = "idle"]
      /\ n' = [n EXCEPT ![p] = 0] /\ UNCHANGED <<conf, page, strayed>>
  BY DEF WriteSeal, Goto
<1>2. /\ \A q \in Procs \ {p} : n'[q] = n[q]
      /\ \A q \in Procs : pc'[q] = IF q = p THEN "idle" ELSE pc[q]
  BY <1>1, Shapes
<1>3. (Class' <=> Class) /\ (Own' <=> Own)
  BY <1>1 DEF Class, Own, Node
<1>4. ~Class => \A q \in Procs \ {p} : pc[q] \notin Calls
  BY <1>1, Alone DEF Calls
<1>5. CASE Own
  <2>1. /\ buffer' = [i \in DOMAIN buffer |-> IF i = n[p] + 1 THEN NUL ELSE buffer[i]]
        /\ UNCHANGED <<length, pos, got>>
    BY <1>5, Zenon DEF WriteSeal
  <2>2. \A q \in Procs \ {p} : pc[q] \in {"clamp", "copy"} => Length(q)' = Length(q)
    BY <1>1, <1>3, <1>4 DEF Length, Calls
  <2>3. /\ Len(got'[Key(p)]) =< Capacity
        /\ Numbered(got'[Key(p)], Len(got'[Key(p)]))
        /\ (\A q \in Procs \ {p} : Key(q) = Key(p) => pc[q] # "advance")
                => Len(got'[Key(p)]) = pos'[Key(p)]
    BY <1>1, <2>1, KeyIs DEF Positions
  <2>4. Positions'
    BY <1>1, <1>2, <2>1, <2>2, <2>3, PositionsFrom
  <2>5. \A i \in DOMAIN buffer' : buffer'[i] # NUL => buffer'[i][2] = i
    BY <2>1 DEF Sources
  <2>6. Sources'
    BY <1>1, <1>2, <1>3, <1>5, <2>1, <2>5 DEF Sources, Numbered, StartsWith
  <2> QED
    BY <1>1, <2>4, <2>6
<1>6. CASE ~Own
  <2>1. /\ length' = n[p] /\ pos' = [pos EXCEPT ![Module] = 0]
        /\ got' = [got EXCEPT ![Module] = << >>] /\ UNCHANGED buffer
    BY <1>6 DEF WriteSeal, NewMessage
  <2>2. pos \in [Keys -> Nat] /\ got \in [Keys -> Seq(Cells)] /\ Capacity \in Nat /\ Module \in Keys
    BY Shapes
  <2>3. /\ pos'[Module] = 0 /\ got'[Module] = << >>
        /\ \A k \in Keys \ {Module} : pos'[k] = pos[k] /\ got'[k] = got[k]
    BY <2>1, <2>2
  <2>4. \A q \in Procs \ {p} : pc[q] \notin {"clamp", "copy", "advance", "seal"}
    BY <1>4, <1>6 DEF Own, Calls
  <2>5. Key(p) = Module
    BY <1>6, KeyIs
  <2>6. Len(got'[Module]) = 0 /\ Numbered(got'[Module], 0) /\ 0 =< Capacity
    BY <2>2, <2>3, Nothing
  <2>7. Positions'
    BY <1>1, <1>2, <2>2, <2>3, <2>4, <2>5, <2>6, PositionsFrom
  <2>8. n[p] \in 0 .. Capacity /\ Numbered(buffer, n[p])
    BY <1>1, <1>6 DEF Typed, Bounded, Sources
  <2>9. StartsWith(buffer, got'[Module])
    <3>1. Len(buffer) \in {Capacity, Capacity + 1}
      BY ArrayIs, Zenon
    <3> QED
      BY <2>2, <2>6, <3>1 DEF StartsWith
  <2>10. Sources'
    <3>1. \A q \in Procs : pc'[q] # "seal"
      BY <1>2, <2>4
    <3>2. ~Class
      BY <1>6 DEF Own
    <3>3. Len(got'[Module]) =< length'
      BY <2>1, <2>6, <2>8
    <3> QED
      BY <1>3, <1>6, <2>1, <2>8, <2>9, <3>1, <3>2, <3>3 DEF Sources, Numbered, StartsWith
  <2> QED
    BY <1>1, <2>7, <2>10
<1> QED
  BY <1>5, <1>6

-----------------------------------------------------------------------------
\* At the start nothing was read, and the array holds one message or none.
LEMMA InitIInv == Init => IInv
<1> SUFFICES ASSUME Init PROVE IInv
  OBVIOUS
<1>1. Capacity \in Nat \ {0} /\ NUL \in Cells
  BY TextAssumption DEF Cells
<1>2. Bounded /\ Terminated
  BY TextAssumption DEF Init, Bounded, Terminated, Own, Node, Class
<1>3. buffer = [i \in 1 .. Capacity + (IF Own THEN 1 ELSE 0) |->
                   IF Own /\ i < Capacity THEN <<Module, i>> ELSE NUL]
  BY DEF Init
<1>4. buffer \in [1 .. Capacity + (IF Own THEN 1 ELSE 0) -> Cells]
  <2>1. \A i \in 1 .. Capacity + (IF Own THEN 1 ELSE 0) :
           i < Capacity => <<Module, i>> \in Cells
    BY <1>1 DEF Cells, Characters
  <2> QED
    BY <1>1, <1>3, <2>1
<1>5. << >> \in Seq(Cells) /\ Len(<< >>) = 0
  OBVIOUS
<1>6. /\ page = [p \in Procs |-> << >>] /\ got = [k \in Keys |-> << >>]
      /\ pos = [k \in Keys |-> 0] /\ n = [p \in Procs |-> 0] /\ pc = [p \in Procs |-> "idle"]
      /\ length = 0 /\ strayed = FALSE /\ conf \in Configs
  BY DEF Init, Keys
<1>7. /\ page \in [Procs -> Seq(Cells)] /\ got \in [Keys -> Seq(Cells)]
      /\ \A p \in Procs : page[p] = << >>
      /\ \A k \in Keys : got[k] = << >> /\ pos[k] = 0
      /\ \A p \in Procs : pc[p] = "idle"
  <2> DEFINE None == << >>
  <2>1. None \in Seq(Cells)
    OBVIOUS
  <2> HIDE DEF None
  <2>2. page = [p \in Procs |-> None] /\ got = [k \in Keys |-> None]
    BY <1>6 DEF None
  <2>3. /\ page \in [Procs -> Seq(Cells)] /\ got \in [Keys -> Seq(Cells)]
        /\ \A p \in Procs : page[p] = None
        /\ \A k \in Keys : got[k] = None
    BY <2>1, <2>2
  <2> QED
    BY <1>6, <2>3 DEF None
<1>8. Typed
  <2>1. TypeOK
    <3>1. \A i \in DOMAIN buffer : buffer[i] \in Characters \cup {NUL}
      BY <1>4 DEF Cells
    <3>2. \A p \in Procs : Len(page[p]) =< Capacity
      <4>1. 0 =< Capacity
        BY <1>1
      <4> QED
        BY <1>5, <1>7, <4>1
    <3>3. pos \in [Keys -> Nat] /\ n \in [Procs -> 0 .. Capacity + 1] /\ length \in 0 .. Capacity
      BY <1>1, <1>6
    <3> QED
      BY <1>6, <1>7, <3>1, <3>2, <3>3 DEF TypeOK, Keys, Cells
  <2> QED
    BY <1>2, <1>4, <1>7, <2>1 DEF Typed
<1>9. Exclusive
  BY <1>7 DEF Exclusive, Calls
<1>10. Positions
  BY <1>1, <1>5, <1>7, KeyIs DEF Positions, Numbered
<1>11. Sources
  <2>1. \A i \in DOMAIN buffer : buffer[i] # NUL => buffer[i][2] = i
    BY <1>3
  <2>2. \A f : f \in Seq(Cells) => StartsWith(f, << >>)
    BY DEF StartsWith
  <2>3. buffer \in Seq(Cells)
    BY <1>8, ArrayIs, Zenon
  <2>4. \A p \in Procs : /\ Numbered(page[p], Len(page[p]))
                         /\ StartsWith(page[p], got[p])
                         /\ pc[p] = "show" => got[p] = << >>
    BY <1>7, <2>2, Nothing, Shapes, <1>8
  <2>5. Module \in Keys /\ got[Module] = << >> /\ Len(got[Module]) =< length
    BY <1>5, <1>6, <1>7 DEF Keys
  <2>6. Numbered(buffer, length)
    BY <1>6 DEF Numbered
  <2> QED
    BY <1>7, <2>1, <2>2, <2>3, <2>4, <2>5, <2>6 DEF Sources
<1> QED
  BY <1>6, <1>8, <1>9, <1>10, <1>11 DEF IInv, Orderly

\* A step that changes nothing.
LEMMA StutterIInv ==
    ASSUME IInv, UNCHANGED vars
    PROVE  IInv'
<1> USE DEF vars
<1>1. (Own' <=> Own) /\ (Class' <=> Class) /\ (Node' <=> Node) /\ (Undisturbed' <=> Undisturbed)
  BY DEF Own, Class, Node, Undisturbed
<1>2. Typed'
  BY <1>1 DEF IInv, Typed, TypeOK, Bounded, Terminated, Characters, Cells
<1>3. \A p \in Procs : Length(p)' = Length(p) /\ Key(p)' = Key(p)
  BY <1>1, LengthStays DEF Key
<1>4. Exclusive' = Exclusive
  BY <1>1 DEF Exclusive, Calls
<1>5. Positions' = Positions
  BY <1>3 DEF Positions, Numbered, Keys
<1>6. Sources' = Sources
  BY <1>1 DEF Sources, Numbered, StartsWith
<1> QED
  BY <1>1, <1>2, <1>4, <1>5, <1>6 DEF IInv, Orderly

\* Every step keeps types, whatever overlaps.
LEMMA NextTyped == Typed /\ [Next]_vars => Typed'
<1>1. ASSUME Typed, Next PROVE Typed'
  BY <1>1, TypedStep DEF Next
<1>2. ASSUME Typed, UNCHANGED vars PROVE Typed'
  <2>1. (Own' <=> Own)
    BY <1>2 DEF Own, Class, Node, vars
  <2> QED
    BY <1>2, <2>1 DEF Typed, TypeOK, Bounded, Terminated, Characters, Cells, vars
<1> QED
  BY <1>1, <1>2

\* Every step keeps reads orderly, where those of "buffer" are made in turns.
LEMMA NextIInv == ASSUME SharedInTurns, IInv, [Next]_vars PROVE IInv'
<1>1. CASE Next
  <2>1. PICK p \in Procs : Open(p) \/ ReadBegin(p) \/ WriteBegin(p) \/ InCall(p)
    BY <1>1 DEF Next
  <2>2. Typed'
    BY <2>1, TypedStep DEF IInv
  <2>3. Undisturbed' <=> Undisturbed
    BY <2>1, BoundedStep DEF IInv, Undisturbed, Class
  <2>4. ASSUME Undisturbed PROVE (Exclusive /\ Positions /\ Sources /\ ~strayed)'
    <3>1. Still
      BY <2>4 DEF IInv, Orderly, Still
    <3>2. Exclusive'
      BY <2>1, <3>1, ExclusiveStep DEF Still
    <3>3. (Positions /\ Sources /\ ~strayed)'
      BY <2>1, <3>1, OpenOrderly, BeginOrderly, WriteBeginOrderly, ShowOrderly, ClampOrderly,
         CopyOrderly, AdvanceOrderly, FillOrderly, SealOrderly DEF InCall
    <3> QED
      BY <3>2, <3>3
  <2> QED
    BY <2>2, <2>3, <2>4 DEF IInv, Orderly
<1>2. CASE UNCHANGED vars
  BY <1>2, StutterIInv
<1> QED
  BY <1>1, <1>2

\* The inductive invariant: a reader's position is behind what it has read, which is
\* the beginning of one message or page, and a read under way ends inside it.
THEOREM Invariance == ASSUME SharedInTurns PROVE Spec => []IInv
<1>1. IInv /\ [Next]_vars => IInv'
  BY NextIInv
<1> QED
  BY <1>1, InitIInv, PTL DEF Spec

\* TypeOK, for every file and however calls overlap (rw.c, fops_rw.c, xxx.c): the
\* length stays within BUFFER_SIZE, a page gets no more than the array holds, and
\* positions stay numbers, also where they run past the end.
THEOREM TypeCorrect == Spec => []TypeOK
<1>1. Init => Typed
  BY InitIInv DEF IInv
<1>2. Typed => TypeOK
  BY DEF Typed
<1> QED
  BY <1>1, <1>2, NextTyped, PTL DEF Spec

\* ReadsInside (rw.c:47-52, fops_rw.c:12-22): where writes do not overlap reads, or
\* where reads are of a page, the clamp of a count to what is left keeps every read
\* inside the message, for every number of programs and every BUFFER_SIZE.
THEOREM ReadsInsideHolds == ASSUME SharedInTurns PROVE Spec => []ReadsInside
<1>1. IInv => ReadsInside
  BY DEF IInv, Orderly, ReadsInside
<1> QED
  BY <1>1, Invariance, PTL

\* Consecutive: short counts, faults, reads of other programs and writes in between
\* neither skip a character nor give one twice, and never more than mcat's array has
\* room for.
THEOREM ConsecutiveHolds == ASSUME SharedInTurns PROVE Spec => []Consecutive
<1>1. ASSUME IInv PROVE Consecutive
  <2> SUFFICES ASSUME Undisturbed PROVE
        /\ \A k \in DOMAIN got : /\ Len(got[k]) =< Capacity
                                 /\ \A i \in DOMAIN got[k] : got[k][i][2] = i
        /\ \A k \in DOMAIN got :
              (\A p \in Procs : Key(p) = k => pc[p] # "advance")
                  => Len(got[k]) = pos[k]
        /\ ~Own /\ Writing = {} =>
              \A i \in DOMAIN got[Module] : got[Module][i] = buffer[i]
        /\ Class =>
              \A p \in Procs : \A i \in DOMAIN got[p] : got[p][i] = page[p][i]
    BY DEF Consecutive
  <2>1. Typed /\ Positions /\ Sources
    BY <1>1 DEF IInv, Orderly
  <2>2. /\ DOMAIN got = Keys /\ Module \in Keys /\ \A q \in Procs : q \in Keys
        /\ \A k \in Keys : DOMAIN got[k] = 1 .. Len(got[k])
    BY <2>1, Shapes
  <2>3. \A k \in DOMAIN got : /\ Len(got[k]) =< Capacity
                              /\ \A i \in DOMAIN got[k] : got[k][i][2] = i
    BY <2>1, <2>2 DEF Positions, Numbered
  <2>4. \A k \in DOMAIN got : (\A p \in Procs : Key(p) = k => pc[p] # "advance")
                                 => Len(got[k]) = pos[k]
    BY <2>1, <2>2 DEF Positions
  <2>5. Writing = {} => \A p \in Procs : pc[p] # "seal"
    BY DEF Writing
  <2>6. ~Own /\ Writing = {} => \A i \in DOMAIN got[Module] : got[Module][i] = buffer[i]
    BY <2>1, <2>2, <2>5 DEF Sources, StartsWith
  <2>7. Class => \A p \in Procs : \A i \in DOMAIN got[p] : got[p][i] = page[p][i]
    BY <2>1, <2>2 DEF Sources, StartsWith
  <2> QED
    BY <2>3, <2>4, <2>6, <2>7
<1> QED
  BY <1>1, Invariance, PTL
=============================================================================
