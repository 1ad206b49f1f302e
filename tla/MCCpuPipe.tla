----------------------------- MODULE MCCpuPipe -----------------------------
(* Small instances of CpuPipe for TLC. *)
EXTENDS CpuPipe
=============================================================================
