----------------------------- MODULE MCMpu6050 -----------------------------
(* Mpu6050 with two programs and two registers, and with two devices, of      *)
(* which one may go away while a show is under way.                           *)
EXTENDS Mpu6050, TLC

MpuSymmetry == Permutations(Procs)
=============================================================================
