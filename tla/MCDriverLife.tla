---------------------------- MODULE MCDriverLife ----------------------------
(* DriverLife with three devices, each module with the failures it provides   *)
(* for, and with all.                                                         *)
EXTENDS DriverLife

Handled  == {[driver |-> d, fails |-> Provided[d]] : d \in Drivers}
Anything == {[driver |-> d, fails |-> Failures] : d \in Drivers}
Either   == Handled \cup Anything
=============================================================================
