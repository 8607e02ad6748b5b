------------------------------ MODULE MCSbull ------------------------------
(***************************************************************************)
(* Sbull on a few processes, which run the same code: a run that checks    *)
(* safety only need not tell them apart.                                   *)
(***************************************************************************)
EXTENDS Sbull, TLC

ProcSymmetry == Permutations(Procs)
=============================================================================
