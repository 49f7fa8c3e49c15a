----------------------------- MODULE MCChannel -----------------------------
(* Channel for TLC: its instances are given by the .cfg files. *)
EXTENDS Channel
============================================================================
