----------------------------- MODULE MCFifoDemo -----------------------------
(* Small instances of FifoDemo for TLC. *)
EXTENDS FifoDemo
=============================================================================
