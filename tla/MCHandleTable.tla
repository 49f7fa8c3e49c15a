-------------------------- MODULE MCHandleTable --------------------------
(* Small instances of HandleTable for TLC. *)
EXTENDS HandleTable, TLC

ThreadSymmetry == Permutations(Thread)
==========================================================================
