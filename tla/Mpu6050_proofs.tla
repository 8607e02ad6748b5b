-------------------------- MODULE Mpu6050_proofs --------------------------
(* What Mpu6050 guarantees for any number of programs, devices and           *)
(* attributes, and what its conversions compute.                             *)
EXTENDS Mpu6050, TLAPS

USE MpuAssumption

\* The type invariant of Mpu6050, for any number of programs, devices and
\* attributes.
THEOREM TypeCorrect == Spec => []TypeOK
<1>1. Init => TypeOK
  BY DEF Init, TypeOK, Registers
<1>2. TypeOK /\ [Next]_vars => TypeOK'
  <2> SUFFICES ASSUME TypeOK, [Next]_vars PROVE TypeOK'
    OBVIOUS
  <2> USE DEF TypeOK, busVars, showVars
  <2>1. CASE Life
    <3>1. CASE Gone
      BY <3>1 DEF Gone, Registers
    <3>2. CASE \E k \in Registers : CreateFile(k) \/ RemoveFile(k)
      BY <3>2 DEF CreateFile, RemoveFile
    <3> QED
      BY <2>1, <3>1, <3>2
      DEF Life, AddDriver, CreateClass, Exit, RemoveFirst, DelDriver
  <2>2. CASE \E d \in Devices : Bus(d)
    BY <2>2 DEF Bus, Plug, Probe, Unplug, Unbind, Remove
  <2>3. ASSUME NEW p \in Procs, Show(p) PROVE TypeOK'
    <3>1. CASE ShowBegin(p)
      <4>1. attr' \in [Procs -> Registers] /\ reg' \in [Procs -> Registers]
        BY <3>1 DEF ShowBegin, Registers
      <4>2. /\ local' \in [Procs -> Devices \cup {NoDevice}]
            /\ pc' \in [Procs -> {"idle", "read", "store", "print"}]
        BY <3>1 DEF ShowBegin
      <4> QED
        BY <3>1, <4>1, <4>2 DEF ShowBegin
    <3>2. CASE ReadWord(p)
      BY <3>2 DEF ReadWord
    <3>3. CASE StoreWord(p)
      BY <3>3 DEF StoreWord, Stored, AllRead, Registers
    <3>4. CASE ShowEnd(p)
      BY <3>4 DEF ShowEnd
    <3> QED
      BY <2>3, <3>1, <3>2, <3>3, <3>4 DEF Show
  <2>4. CASE UNCHANGED vars
    BY <2>4 DEF vars
  <2> QED
    BY <2>1, <2>2, <2>3, <2>4 DEF Next
<1> QED
  BY <1>1, <1>2, PTL DEF Spec

-----------------------------------------------------------------------------
\* Where the module may be called, and what it has when it may not be.
LifeInv ==
    /\ module \in {"out", "adding", "deleting"} =>
          files = {} /\ \A p \in Procs : ~Running(p)
    /\ module = "out" => client = NoDevice /\ bound = {}

\* Nobody reads from a device that the driver has lost, of those that stay while
\* a show is under way.
LEMMA LifeCorrect == Spec => [](LifeInv /\ ClientsAlive)
<1> DEFINE Inv == LifeInv /\ ClientsAlive
<1>1. Init => Inv
  BY DEF Init, LifeInv, ClientsAlive, Running
<1>2. TypeOK /\ Inv /\ [Next]_vars => Inv'
  <2> SUFFICES ASSUME TypeOK, Inv, [Next]_vars PROVE Inv'
    OBVIOUS
  <2> USE DEF TypeOK, LifeInv, ClientsAlive, busVars, showVars
  <2>1. CASE Life
    <3>1. CASE AddDriver \/ CreateClass \/ Exit
      BY <3>1 DEF AddDriver, CreateClass, Exit, RemoveFirst, Running
    <3>2. CASE \E k \in Registers : CreateFile(k) \/ RemoveFile(k)
      BY <3>2 DEF CreateFile, RemoveFile, Running
    <3>3. CASE DelDriver
      BY <3>3 DEF DelDriver, Drained, Running
    <3>4. CASE Gone
      BY <3>4 DEF Gone, Running
    <3> QED
      BY <2>1, <3>1, <3>2, <3>3, <3>4 DEF Life
  <2>2. ASSUME NEW d \in Devices, Bus(d) PROVE Inv'
    <3>1. CASE Plug(d)
      BY <3>1 DEF Plug, Running
    <3>2. CASE Probe(d)
      BY <3>2 DEF Probe, Registered, Running
    <3>3. CASE Unplug(d)
      BY <3>3 DEF Unplug, Remove, Running
    <3>4. CASE Unbind(d)
      BY <3>4 DEF Unbind, Remove, Running
    <3> QED
      BY <2>2, <3>1, <3>2, <3>3, <3>4 DEF Bus
  <2>3. ASSUME NEW p \in Procs, Show(p) PROVE Inv'
    <3>1. CASE ShowBegin(p)
      BY <3>1 DEF ShowBegin, Running
    <3>2. CASE ReadWord(p)
      BY <3>2 DEF ReadWord, Running
    <3>3. CASE StoreWord(p)
      BY <3>3 DEF StoreWord, Running
    <3>4. CASE ShowEnd(p)
      BY <3>4 DEF ShowEnd, Running
    <3> QED
      BY <2>3, <3>1, <3>2, <3>3, <3>4 DEF Show
  <2>4. CASE UNCHANGED vars
    BY <2>4 DEF vars, Running
  <2> QED
    BY <2>1, <2>2, <2>3, <2>4 DEF Next
<1> QED
  BY <1>1, <1>2, TypeCorrect, PTL DEF Spec

\* mpu6050.c:23, for any number of programs and devices and whichever of these are
\* Removable: what a show reads from is a device that is bound, or a Removable one.
\* Of those the code promises nothing.
THEOREM ClientsAreAlive == Spec => []ClientsAlive
BY LifeCorrect, PTL

-----------------------------------------------------------------------------
\* What a show that found a client may find in the structure.
Known == bound \cup Removable \cup {NoDevice}

\* What a show has stored so far, or others have over it, is from a known device:
\* an answer is from the client of the show that has it in hand.
KnownSoFar ==
    /\ \A p \in Procs : pc[p] = "store" => answer[p] \in {local[p], NoDevice}
    /\ \A p \in Procs : pc[p] \in {"read", "store"} =>
          \A k \in Registers : k < reg[p] => value[k] \in Known
    /\ \A p \in Procs : pc[p] = "print" /\ local[p] # NoDevice =>
          \A k \in Registers : value[k] \in Known

\* No device stops being known while a show is under way.
LEMMA KnownStay ==
    ASSUME TypeOK, LifeInv, Next, NEW p \in Procs, Running(p)
    PROVE  Known \subseteq Known'
<1> USE DEF Known, busVars, showVars
<1>1. CASE Life
  BY <1>1, Zenon DEF Life, AddDriver, CreateClass, Exit, DelDriver, Gone, CreateFile, RemoveFile
<1>2. ASSUME NEW d \in Devices, Bus(d) PROVE Known \subseteq Known'
  <2>1. CASE Plug(d) \/ Probe(d)
    BY <2>1 DEF Plug, Probe
  <2>2. CASE Unplug(d)
    BY <2>2 DEF Unplug, Remove
  <2>3. CASE Unbind(d)
    BY <2>3 DEF Unbind, LifeInv
  <2> QED
    BY <1>2, <2>1, <2>2, <2>3 DEF Bus
<1>3. CASE \E q \in Procs : Show(q)
  BY <1>3, Zenon DEF Show, ShowBegin, ReadWord, StoreWord, ShowEnd
<1> QED
  BY <1>1, <1>2, <1>3, Zenon DEF Next

\* A word that is stored is from a known device.
LEMMA StoredIsKnown ==
    ASSUME TypeOK, ClientsAlive, KnownSoFar, NEW p \in Procs, pc[p] = "store"
    PROVE  Stored(p) \in Known
BY DEF TypeOK, ClientsAlive, KnownSoFar, Known, Stored, Running

\* mpu6050.c:130, for any number of programs, devices and attributes and whichever
\* devices are Removable: a show that found a client prints an error or a word from a
\* device that is bound or Removable, whoever stored it.
THEOREM ShowsAreBound == Spec => []ShowsBound
<1>1. Init => KnownSoFar
  BY DEF Init, KnownSoFar
<1>2. TypeOK /\ LifeInv /\ ClientsAlive /\ KnownSoFar /\ [Next]_vars => KnownSoFar'
  <2> SUFFICES ASSUME TypeOK, LifeInv, ClientsAlive, KnownSoFar, [Next]_vars
               PROVE  KnownSoFar'
    OBVIOUS
  <2> USE DEF busVars, showVars
  <2>1. CASE Next /\ UNCHANGED showVars
    <3>1. \A p \in Procs : Running(p) => Known \subseteq Known'
      BY <2>1, KnownStay
    <3> QED
      BY <2>1, <3>1 DEF KnownSoFar, Running, TypeOK
  <2>2. CASE Gone
    BY <2>2 DEF Gone, LifeInv, Running, KnownSoFar
  <2>3. ASSUME NEW p \in Procs, Show(p) PROVE KnownSoFar'
    <3>0. Known' = Known
      BY <2>3, Zenon DEF Show, ShowBegin, ReadWord, StoreWord, ShowEnd, Known
    <3> USE DEF TypeOK
    <3>1. CASE ShowBegin(p)
      BY <3>0, <3>1 DEF ShowBegin, KnownSoFar, Registers
    <3>2. CASE ReadWord(p)
      BY <3>0, <3>2 DEF ReadWord, KnownSoFar
    <3>3. CASE StoreWord(p)
      <4>1. Stored(p) \in Known
        BY <3>3, StoredIsKnown DEF StoreWord
      <4>2. \A k \in Registers : value[k] \in Known => value'[k] \in Known'
        BY <3>0, <3>3, <4>1 DEF StoreWord
      <4>3. value'[reg[p]] \in Known'
        BY <3>0, <3>3, <4>1 DEF StoreWord
      <4>4. \A q \in Procs : q # p => /\ pc'[q] = pc[q] /\ reg'[q] = reg[q]
                                      /\ local'[q] = local[q] /\ answer'[q] = answer[q]
        BY <3>3 DEF StoreWord
      <4>5. \/ pc'[p] = "print" /\ \A k \in Registers : k < reg[p] \/ k = reg[p]
            \/ pc'[p] = "read" /\ reg'[p] = reg[p] + 1
        BY <3>3 DEF StoreWord, AllRead, Registers
      <4>6. \A k \in Registers : k < reg[p] => value[k] \in Known
        BY <3>3 DEF StoreWord, KnownSoFar
      <4>7. \A k \in Registers : k < reg[p] \/ k = reg[p] => value'[k] \in Known'
        BY <4>2, <4>3, <4>6
      <4>8. \A q \in Procs : pc'[q] = "store" => answer'[q] \in {local'[q], NoDevice}
        BY <4>4, <4>5 DEF KnownSoFar
      <4>9. \A q \in Procs : pc'[q] \in {"read", "store"} =>
               \A k \in Registers : k < reg'[q] => value'[k] \in Known'
        BY <4>2, <4>4, <4>5, <4>7 DEF KnownSoFar, Registers
      <4>10. \A q \in Procs : pc'[q] = "print" /\ local'[q] # NoDevice =>
               \A k \in Registers : value'[k] \in Known'
        BY <4>2, <4>4, <4>5, <4>7 DEF KnownSoFar
      <4> QED
        BY <4>8, <4>9, <4>10 DEF KnownSoFar
    <3>4. CASE ShowEnd(p)
      BY <3>0, <3>4 DEF ShowEnd, KnownSoFar
    <3> QED
      BY <2>3, <3>1, <3>2, <3>3, <3>4 DEF Show
  <2>4. CASE UNCHANGED vars
    BY <2>4 DEF vars, KnownSoFar, Known
  <2>5. Life /\ ~Gone => UNCHANGED showVars
    BY Zenon DEF Life, AddDriver, CreateClass, Exit, DelDriver, CreateFile, RemoveFile
  <2>6. (\E d \in Devices : Bus(d)) => UNCHANGED showVars
    BY Zenon DEF Bus, Plug, Probe, Unplug, Unbind
  <2> QED
    BY <2>1, <2>2, <2>3, <2>4, <2>5, <2>6, Zenon DEF Next
<1>3. TypeOK /\ KnownSoFar => ShowsBound
  BY DEF TypeOK, KnownSoFar, ShowsBound, Known
<1> QED
  BY <1>1, <1>2, <1>3, TypeCorrect, LifeCorrect, PTL DEF Spec

-----------------------------------------------------------------------------
\* mpu6050.c:29-35, 39: the two casts make of a word that was read the number it is
\* in two's complement: the one of 16 bits with a sign that is the word modulo 2^16.
THEOREM WordsAreMeasurements ==
    ASSUME NEW w \in Nat, w < 65536
    PROVE  /\ -32768 =< S16(w) /\ S16(w) < 32768
           /\ S16(w) % 65536 = w
<1>1. S16(w) = IF w < 32768 THEN w ELSE w - 65536
  BY SMT DEF S16, U16
<1>2. w % 65536 = w /\ (w - 65536) % 65536 = w
  BY SMT
<1> QED
  BY <1>1, <1>2, SMT

\* mpu6050.c:29: a read that fails is stored as the number of its error, which is
\* a measurement like any other.
THEOREM ErrorsReadAsMeasurements ==
    ASSUME NEW errno \in Nat, 0 < errno, errno < 4096
    PROVE  S16(-errno) = -errno /\ S16(65536 - errno) = -errno
BY SMTT(30) DEF S16, U16

\* mpu6050.c:36-40, in units of 1/340 degree: from -0.5 degrees up the temperature
\* printed is the one of the comment rounded, a half up.
THEOREM TemperatureRounded ==
    ASSUME NEW raw \in Int, -12590 =< raw, raw < 32768
    PROVE  LET error == 340 * Temperature(raw) - (raw + 12420)
           IN  -170 < error /\ error =< 170
BY SMTT(30) DEF Temperature, Quotient

\* mpu6050.c:40: below, where the division truncates the other way, it is always
\* too warm, by at least a half and up to one and a half degrees.
THEOREM TemperatureTooWarm ==
    ASSUME NEW raw \in Int, -32768 =< raw, raw < -12590
    PROVE  LET error == 340 * Temperature(raw) - (raw + 12420)
           IN  170 =< error /\ error < 510
BY SMTT(30) DEF Temperature, Quotient
=============================================================================
