------------------------------ MODULE Mpu6050 ------------------------------
(***************************************************************************)
(* The mpu6050 driver (mpu6050/mpu6050.c): class attributes that show what *)
(* an i2c sensor measures.  Every show reads all registers of the sensor   *)
(* into one structure that all shows share, with no lock, and prints its   *)
(* attribute out of that.  Devices come and go while the driver is there,  *)
(* and the module while programs read its files.                           *)
(*                                                                         *)
(* A measurement is modelled by whose answer it is.                        *)
(***************************************************************************)
EXTENDS Integers

CONSTANTS
    Procs,       \* the programs that read attributes
    Devices,     \* the i2c devices named "mpu6050" there can be
    Removable,   \* those that may go away while a show is under way
    NoDevice,    \* 0, and what an error of the bus comes from
    Attributes   \* the number of registers, each with its attribute: 7

ASSUME MpuAssumption ==
    /\ NoDevice \notin Devices /\ Removable \subseteq Devices
    /\ Attributes \in Nat \ {0}

VARIABLES
    module,    \* where mpu6050_init and mpu6050_exit are
    files,     \* the attributes that have a file
    present,   \* the devices on the bus
    unprobed,  \* those the driver has still to be asked about
    bound,     \* those bound to the driver
    client,    \* g_mpu6050_data.drv_client
    value,     \* accel_values, gyro_values, temperature
    pc,        \* where each program is
    attr,      \* the attribute it reads
    local,     \* drv_client of mpu6050_read_data
    reg,       \* the register it reads next
    answer     \* what the bus answered

busVars  == <<present, unprobed, bound, client>>
showVars == <<value, pc, attr, local, reg, answer>>
vars == <<module, files, busVars, showVars>>

Registers == 1 .. Attributes
Running(p) == pc[p] # "idle"

Init ==
    /\ module = "out" /\ files = {}
    /\ present \in SUBSET Devices /\ unprobed = {} /\ bound = {}
    /\ client = NoDevice
    /\ value = [k \in Registers |-> NoDevice]
    /\ pc = [p \in Procs |-> "idle"]
    /\ attr = [p \in Procs |-> 1] /\ reg = [p \in Procs |-> 1]
    /\ local = [p \in Procs |-> NoDevice]
    /\ answer = [p \in Procs |-> NoDevice]

-----------------------------------------------------------------------------
\* The i2c core.

Registered == module \in {"adding", "creating", "live", "removing"}

\* A device is found or created, and offered to the driver.
Plug(d) ==
    /\ d \notin present
    /\ present' = present \cup {d}
    /\ unprobed' = IF Registered THEN unprobed \cup {d} ELSE unprobed
    /\ UNCHANGED <<module, files, bound, client, showVars>>

\* mpu6050_probe: the device says who it is, and is set up and kept, or the read
\* fails or says that it is something else.
Probe(d) ==
    /\ Registered /\ d \in unprobed
    /\ unprobed' = unprobed \ {d}
    /\ \/ bound' = bound \cup {d} /\ client' = d
       \/ UNCHANGED <<bound, client>>
    /\ UNCHANGED <<module, files, present, showVars>>

\* mpu6050_remove, of a device that is bound, forgets the client, whichever it is.
Remove(d) ==
    /\ bound' = bound \ {d}
    /\ client' = IF d \in bound THEN NoDevice ELSE client

\* A device goes away: one that is Removable at any moment, the others, by an
\* assumption on how the sensor is used, while no program reads a file.
Unplug(d) ==
    /\ d \in present
    /\ d \in Removable \/ \A p \in Procs : ~Running(p)
    /\ present' = present \ {d} /\ unprobed' = unprobed \ {d}
    /\ Remove(d)
    /\ UNCHANGED <<module, files, showVars>>

-----------------------------------------------------------------------------
\* mpu6050_init and mpu6050_exit, when all they ask for can be had.

\* i2c_add_driver, which asks about the devices that are there.
AddDriver ==
    /\ module = "out"
    /\ module' = "adding"
    /\ unprobed' = present
    /\ UNCHANGED <<files, present, bound, client, showVars>>

CreateClass ==
    /\ module = "adding" /\ unprobed = {}
    /\ module' = "creating"
    /\ UNCHANGED <<files, busVars, showVars>>

\* class_create_file, one after the other; a file can be read at once.
CreateFile(k) ==
    /\ module = "creating"
    /\ files = 1 .. k - 1
    /\ files' = files \cup {k}
    /\ module' = IF k = Attributes THEN "live" ELSE module
    /\ UNCHANGED <<busVars, showVars>>

\* A mutant lets the driver go while there are files.
DeleteFirst == "deleting"
RemoveFirst == "removing"
Exit ==
    /\ module = "live"
    /\ module' = RemoveFirst
    /\ UNCHANGED <<files, busVars, showVars>>

\* class_remove_file stops new reads of a file and waits for those under way.
Drained == \A p \in Procs : Running(p) => attr[p] \in files
RemoveFile(k) ==
    /\ module = "removing" /\ Drained
    /\ k \in files /\ \A j \in files : k =< j
    /\ files' = files \ {k}
    /\ UNCHANGED <<module, busVars, showVars>>

\* class_destroy, and i2c_del_driver, which unbinds the devices one by one.
DelDriver ==
    /\ module = "removing" /\ Drained /\ files = {}
    /\ module' = "deleting" /\ unprobed' = {}
    /\ UNCHANGED <<files, present, bound, client, showVars>>

Unbind(d) ==
    /\ module = "deleting" /\ d \in bound
    /\ Remove(d)
    /\ UNCHANGED <<module, files, present, unprobed, showVars>>

\* The module is freed; its data are zero when it comes again.
Gone ==
    /\ module = "deleting" /\ bound = {}
    /\ module' = "out"
    /\ client' = NoDevice
    /\ value' = [k \in Registers |-> NoDevice]
    /\ UNCHANGED <<files, present, unprobed, bound, pc, attr, local, reg, answer>>

-----------------------------------------------------------------------------
\* accel_x_show and its like.

\* The show starts, and mpu6050_read_data takes the client.  Without one it
\* returns an error, which the show does not look at.
ShowBegin(p) ==
    /\ ~Running(p)
    /\ \E k \in files : attr' = [attr EXCEPT ![p] = k]
    /\ local' = [local EXCEPT ![p] = client]
    /\ reg' = [reg EXCEPT ![p] = 1]
    /\ pc' = [pc EXCEPT ![p] = IF client = NoDevice THEN "print" ELSE "read"]
    /\ UNCHANGED <<module, files, busVars, value, answer>>

\* i2c_smbus_read_word_swapped: the device answers, or the read fails, and the
\* number of the error is taken for an answer.
ReadWord(p) ==
    /\ pc[p] = "read"
    /\ \E d \in {local[p], NoDevice} : answer' = [answer EXCEPT ![p] = d]
    /\ pc' = [pc EXCEPT ![p] = "store"]
    /\ UNCHANGED <<module, files, busVars, value, attr, local, reg>>

\* A mutant reads one register more.
OneMoreRead(r) == r > Attributes
AllRead(r) == r = Attributes

\* What is stored is the answer, whatever it is.  A mutant keeps what is there when the
\* read failed.
StoredUnlessFailed(p) == IF answer[p] = NoDevice THEN value[reg[p]] ELSE answer[p]
Stored(p) == answer[p]

\* The answer goes to the structure, and the show to the next register.
StoreWord(p) ==
    /\ pc[p] = "store"
    /\ value' = [value EXCEPT ![reg[p]] = Stored(p)]
    /\ reg' = [reg EXCEPT ![p] = IF AllRead(@) THEN @ ELSE @ + 1]
    /\ pc' = [pc EXCEPT ![p] = IF AllRead(reg[p]) THEN "print" ELSE "read"]
    /\ UNCHANGED <<module, files, busVars, attr, local, answer>>

\* sprintf of value[attr[p]].
ShowEnd(p) ==
    /\ pc[p] = "print"
    /\ pc' = [pc EXCEPT ![p] = "idle"]
    /\ UNCHANGED <<module, files, busVars, value, attr, local, reg, answer>>

-----------------------------------------------------------------------------
Show(p) == ShowBegin(p) \/ ReadWord(p) \/ StoreWord(p) \/ ShowEnd(p)
Bus(d)  == Plug(d) \/ Probe(d) \/ Unplug(d) \/ Unbind(d)
Life ==
    \/ AddDriver \/ CreateClass \/ Exit \/ DelDriver \/ Gone
    \/ \E k \in Registers : CreateFile(k) \/ RemoveFile(k)

Next == Life \/ (\E d \in Devices : Bus(d)) \/ (\E p \in Procs : Show(p))

Spec == Init /\ [][Next]_vars

-----------------------------------------------------------------------------
\* The conversions of mpu6050_read_data: a word that was read, or the negative
\* number of an error, is cast to u16 and s16 ...
U16(n) == n % 65536
S16(n) == IF U16(n) < 32768 THEN U16(n) ELSE U16(n) - 65536
\* ... and degrees are 340 units of a register that is 0 at 36.53, with a half
\* added; "/" of C truncates.
Quotient(a, b) == IF a >= 0 THEN a \div b ELSE -((-a) \div b)
Temperature(raw) == Quotient(raw + 12420 + 170, 340)

-----------------------------------------------------------------------------
\* Type invariant.
TypeOK ==
    /\ module \in {"out", "adding", "creating", "live", "removing", "deleting"}
    /\ files \subseteq Registers
    /\ present \subseteq Devices /\ unprobed \subseteq Devices
    /\ bound \subseteq Devices
    /\ client \in Devices \cup {NoDevice}
    /\ value \in [Registers -> Devices \cup {NoDevice}]
    /\ pc \in [Procs -> {"idle", "read", "store", "print"}]
    /\ attr \in [Procs -> Registers] /\ reg \in [Procs -> Registers]
    /\ local \in [Procs -> Devices \cup {NoDevice}]
    /\ answer \in [Procs -> Devices \cup {NoDevice}]

\* mpu6050.c:23: the client is a device that is bound, whichever of several came
\* and went; and so is the one that a show under way reads from and names in its
\* messages, until the last file is gone, unless it is one that may be removed
\* meanwhile.
ClientsAlive ==
    /\ client \in bound \cup {NoDevice}
    /\ \A p \in Procs :
          Running(p) /\ local[p] # NoDevice => local[p] \in bound \cup Removable

\* mpu6050.c:130: what a show that found a client prints, although other shows
\* store to the same structure, is no measurement of a device that had gone before:
\* it is from one that is bound, or may be removed meanwhile, or it is an error.
ShowsBound ==
    \A p \in Procs :
        pc[p] = "print" /\ local[p] # NoDevice =>
            value[attr[p]] \in bound \cup Removable \cup {NoDevice}
=============================================================================
