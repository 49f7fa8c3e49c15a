-------------------------- MODULE MCMessagePipe --------------------------
(* Small instances of MessagePipe for TLC. *)
EXTENDS MessagePipe, TLC

ThreadSymmetry == Permutations(Thread)
==========================================================================
