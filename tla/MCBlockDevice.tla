--------------------------- MODULE MCBlockDevice ---------------------------
(* BlockDevice on a few bios, which need not be told apart. *)
EXTENDS BlockDevice, TLC

BioSymmetry == Permutations(Bios)
=============================================================================
