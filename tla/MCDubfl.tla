------------------------------ MODULE MCDubfl ------------------------------
(* Dubfl with three files: an empty one, and two of different sizes. *)
EXTENDS Dubfl

CONSTANTS empty, small, large

SizeOf(n) == CASE n = empty -> 0 [] n = small -> 1 [] n = large -> 3
=============================================================================
