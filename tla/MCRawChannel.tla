--------------------------- MODULE MCRawChannel ---------------------------
(* A small instance of RawChannel for TLC. *)
EXTENDS RawChannel

\* A message longer than one read(), then two that arrive in one read().
MCReadSizes == <<3, 1, 1>>
===========================================================================
