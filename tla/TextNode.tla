------------------------------ MODULE TextNode ------------------------------
(***************************************************************************)
(* A message in the kernel that user programs write and read as a file:    *)
(*   buffer  /proc, procfs_rw/rw.c: one length and one position for all    *)
(*           its readers;                                                  *)
(*   node    /proc, examples.245.proc/fops_rw.c: a terminated string with  *)
(*           a position per open file, which mcat.c reads until it is told *)
(*           the end;                                                      *)
(*   class   /sys, sys/xxx.c and xxm.c: a terminated string that a show    *)
(*           copies to a page of the open file, which is read from there;  *)
(*   broken  /sys, sys/xxe.c: the same, but calls report an error.         *)
(*                                                                         *)
(* None takes a lock.  conf.calls says which calls may be under way        *)
(* together: none ("turns"), reads only ("reads"), or any.                 *)
(***************************************************************************)
EXTENDS Integers, Sequences

CONSTANTS
    Procs,     \* the programs
    Module,    \* holds the position of "buffer", and the first message of others
    Capacity,  \* BUFFER_SIZE, LEN_MSG
    NUL,
    Configs    \* each a file and the calls that may overlap

ASSUME TextAssumption ==
    /\ Capacity \in Nat \ {0}
    /\ Module \notin Procs
    /\ \A c \in Configs : /\ c.file \in {"buffer", "node", "class", "broken"}
                          /\ c.calls \in {"turns", "reads", "any"}

VARIABLES
    conf,
    buffer,   \* proc_buffer, buf_msg: character i of what p wrote is <<p, i>>
    length,   \* proc_msg_length
    page,     \* what a show copied for each program
    pos,      \* proc_msg_read_pos; *ppos of each open file
    pc,       \* where each program is
    n,        \* the count its call is about
    got,      \* what was read since the position was 0; for mcat, its msg
    strayed   \* history: something that is not of the message was read

vars == <<conf, buffer, length, page, pos, pc, n, got, strayed>>

Least(a, b) == IF a < b THEN a ELSE b
Node  == conf.file = "node"
Class == conf.file \in {"class", "broken"}
Own   == Node \/ Class
\* Whose position a program reads at.
Key(p) == IF Own THEN p ELSE Module

\* strlen( buf_msg ) is where the first NUL is; past the array nothing is known.
Strlen == CHOOSE k \in 0 .. Len(buffer) :
             /\ \A i \in 1 .. k : buffer[i] # NUL
             /\ k < Len(buffer) => buffer[k + 1] = NUL
Length(p) == IF Class THEN Len(page[p]) ELSE IF Node THEN Strlen ELSE length

Goto(p, l) == pc' = [pc EXCEPT ![p] = l]

\* A message that the array has room for is there from the start, but in "buffer".
Init ==
    /\ conf \in Configs
    /\ buffer = [i \in 1 .. Capacity + (IF Own THEN 1 ELSE 0) |->
                    IF Own /\ i < Capacity THEN <<Module, i>> ELSE NUL]
    /\ length = 0
    /\ page = [p \in Procs |-> << >>]
    /\ pos  = [k \in Procs \cup {Module} |-> 0]
    /\ got  = [k \in Procs \cup {Module} |-> << >>]
    /\ pc   = [p \in Procs |-> "idle"]
    /\ n    = [p \in Procs |-> 0]
    /\ strayed = FALSE

-----------------------------------------------------------------------------
Writing == {p \in Procs : pc[p] \in {"fill", "seal"}}
Reading == {p \in Procs : pc[p] \in {"show", "clamp", "copy", "advance"}}
MayRead  == \/ conf.calls = "any"
            \/ conf.calls = "reads" /\ Writing = {}
            \/ Writing \cup Reading = {}
MayWrite == conf.calls = "any" \/ Writing \cup Reading = {}

\* copy_to_user and copy_from_user copy less than asked when they fault.
\* The others do not look: their callers' memory is there.
Copied(count) == IF Own THEN {count} ELSE 0 .. count

\* A program opens the file, to read it until the end.
Open(p) ==
    /\ pc[p] = "idle"
    /\ Goto(p, IF Class THEN "show" ELSE "open")
    /\ IF Own THEN /\ pos' = [pos EXCEPT ![p] = 0]
                   /\ got' = [got EXCEPT ![p] = << >>]
              ELSE UNCHANGED <<pos, got>>
    /\ UNCHANGED <<conf, buffer, length, page, n, strayed>>

\* The show of xxe.c reports an error when it has copied.
AfterShow == IF conf.file = "broken" THEN "idle" ELSE "open"

\* xxx_show, which sysfs calls when it is read from the start: strcpy to the page.
ShowCopy(p) ==
    /\ pc[p] = "show"
    /\ page' = [page EXCEPT ![p] = SubSeq(buffer, 1, Strlen)]
    /\ Goto(p, AfterShow)
    /\ UNCHANGED <<conf, buffer, length, pos, n, got, strayed>>

\* A program goes on until a read gives nothing, as mcat does.  A mutant goes on
\* then, too.
AfterReadAlways(res) == "open"
AfterRead(res) == IF res > 0 THEN "open" ELSE "idle"

\* example_read, node_read: the latter looks for the end first, and goes back to
\* the start when it is there.
ReadBegin(p) ==
    /\ pc[p] = "open" /\ MayRead
    /\ IF Node /\ pos[p] >= Length(p)
       THEN /\ pos' = [pos EXCEPT ![p] = 0]
            /\ got' = [got EXCEPT ![p] = << >>]
            /\ Goto(p, AfterRead(0))
            /\ UNCHANGED n
       ELSE /\ \E count \in 1 .. Capacity + 1 : n' = [n EXCEPT ![p] = count]
            /\ Goto(p, "clamp")
            /\ UNCHANGED <<pos, got>>
    /\ UNCHANGED <<conf, buffer, length, page, strayed>>

\* The count is clamped to what is left, which is unsigned: a position past the
\* end leaves "more than anything".  node_read measures the message again for the
\* new count; what a write between the two would change is left out.  A mutant
\* forgets the position.
ClampToLength(p, count) == Least(count, Length(p))
Clamp(p, count) ==
    IF pos[Key(p)] > Length(p) THEN count
    ELSE Least(count, Length(p) - pos[Key(p)])

ReadClamp(p) ==
    /\ pc[p] = "clamp"
    /\ n' = [n EXCEPT ![p] = Clamp(p, @)]
    /\ Goto(p, "copy")
    /\ UNCHANGED <<conf, buffer, length, page, pos, got, strayed>>

\* What lies at place i of the memory that p reads.
Source(p) == IF Class THEN page[p] ELSE buffer
Cell(p, i) == IF i \in DOMAIN Source(p) THEN Source(p)[i] ELSE NUL

ReadCopy(p) ==
    /\ pc[p] = "copy"
    /\ \E k \in Copied(n[p]) :
          LET from == pos[Key(p)] IN
          /\ n' = [n EXCEPT ![p] = k]
          /\ got' = [got EXCEPT ![Key(p)] = @ \o [i \in 1 .. k |-> Cell(p, from + i)]]
          /\ strayed' = (strayed \/ (k > 0 /\ from + k > Length(p)))
    /\ Goto(p, "advance")
    /\ UNCHANGED <<conf, buffer, length, page, pos>>

ReadAdvance(p) ==
    /\ pc[p] = "advance"
    /\ pos' = [pos EXCEPT ![Key(p)] = @ + n[p]]
    /\ Goto(p, AfterRead(n[p]))
    /\ n' = [n EXCEPT ![p] = 0]
    /\ UNCHANGED <<conf, buffer, length, page, got, strayed>>

-----------------------------------------------------------------------------
\* example_write, node_write: what there is no room for is left out.  A mutant
\* does not look.  xxx_store does not either: what it is given has to fit.
RoomForAll(count) == count
Room(count) == Least(count, Capacity)
Counts == 0 .. (IF Class THEN Capacity ELSE Capacity + 1)

WriteBegin(p) ==
    /\ pc[p] = "idle" /\ MayWrite
    /\ \E count \in Counts : n' = [n EXCEPT ![p] = Room(count)]
    /\ Goto(p, "fill")
    /\ UNCHANGED <<conf, buffer, length, page, pos, got, strayed>>

\* copy_from_user, which puts zeros in place of what it could not copy; strncpy.
WriteCopy(p) ==
    /\ pc[p] = "fill"
    /\ \E k \in Copied(n[p]) :
          /\ n' = [n EXCEPT ![p] = k]
          /\ buffer' = [i \in DOMAIN buffer |->
                           IF i =< k THEN <<p, i>>
                           ELSE IF i =< n[p] THEN NUL ELSE buffer[i]]
    /\ Goto(p, "seal")
    /\ UNCHANGED <<conf, length, page, pos, got, strayed>>

\* example_write sets the length and goes back to the start of the message.  A
\* mutant does not go back.
LengthOnly(k) == length' = k /\ UNCHANGED <<pos, got>>
NewMessage(k) == /\ length' = k
                 /\ pos' = [pos EXCEPT ![Module] = 0]
                 /\ got' = [got EXCEPT ![Module] = << >>]

\* node_write and xxx_store terminate the message.
WriteSeal(p) ==
    /\ pc[p] = "seal"
    /\ IF Own
       THEN /\ buffer' = [i \in DOMAIN buffer |->
                             IF i = n[p] + 1 THEN NUL ELSE buffer[i]]
            /\ UNCHANGED <<length, pos, got>>
       ELSE NewMessage(n[p]) /\ UNCHANGED buffer
    /\ Goto(p, "idle")
    /\ n' = [n EXCEPT ![p] = 0]
    /\ UNCHANGED <<conf, page, strayed>>

-----------------------------------------------------------------------------
InCall(p) == ShowCopy(p) \/ ReadClamp(p) \/ ReadCopy(p) \/ ReadAdvance(p)
                \/ WriteCopy(p) \/ WriteSeal(p)

Next == \E p \in Procs : Open(p) \/ ReadBegin(p) \/ WriteBegin(p) \/ InCall(p)

Spec == Init /\ [][Next]_vars

\* A call that was made goes on, and a program in its loop gets its turn.
FairSpec ==
    Spec /\ \A p \in Procs : WF_vars(InCall(p)) /\ SF_vars(ReadBegin(p))

-----------------------------------------------------------------------------
Characters == (Procs \cup {Module}) \X (1 .. Capacity + 1)

\* Type invariant.
TypeOK ==
    /\ conf \in Configs
    /\ \A i \in DOMAIN buffer : buffer[i] \in Characters \cup {NUL}
    /\ length \in 0 .. Capacity
    /\ \A p \in Procs : Len(page[p]) =< Capacity
    /\ pos \in [Procs \cup {Module} -> Nat]
    /\ pc \in [Procs -> {"idle", "open", "show", "clamp", "copy",
                         "advance", "fill", "seal"}]
    /\ n \in [Procs -> 0 .. Capacity + 1]
    /\ got \in [Procs \cup {Module} -> Seq(Characters \cup {NUL})]
    /\ strayed \in BOOLEAN

\* strlen of node_read and strcpy of xxx_show always find an end: whatever writes
\* overlap, the last byte of buf_msg stays NUL.
Terminated == Own => buffer[Capacity + 1] = NUL

\* Reads that writes cannot disturb: they do not overlap, or there is a page.
Undisturbed == Class \/ conf.calls # "any"

\* The readers of "buffer" share one position.  What follows holds when they take
\* turns, and does not when their reads overlap.
SharedInTurns == \A c \in Configs : c.file = "buffer" => c.calls # "reads"

\* No read goes past the message.
ReadsInside == Undisturbed => ~strayed

\* Nothing is skipped or read twice: after reads that were short, that faulted or
\* had writes between them, what has been read since the position was 0 is
\* character 1, 2 and so on up to the position; of "buffer", all of one message,
\* and of a class all of one show.  It never exceeds the array msg of mcat.
Consecutive ==
    Undisturbed =>
        /\ \A k \in DOMAIN got : /\ Len(got[k]) =< Capacity
                                 /\ \A i \in DOMAIN got[k] : got[k][i][2] = i
        /\ \A k \in DOMAIN got :
              (\A p \in Procs : Key(p) = k => pc[p] # "advance")
                  => Len(got[k]) = pos[k]
        /\ ~Own /\ Writing = {} =>
              \A i \in DOMAIN got[Module] : got[Module][i] = buffer[i]
        /\ Class =>
              \A p \in Procs : \A i \in DOMAIN got[p] : got[p][i] = page[p][i]

\* mcat.c:31-36: the loop ends, however often the message is replaced.
ReaderEnds ==
    \A p \in Procs : Own /\ pc[p] = "open" ~> pc[p] = "idle"
=============================================================================
