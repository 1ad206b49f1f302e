--------------------------- MODULE MCMultiSigchld ---------------------------
(* A small instance of MultiSigchld for TLC. *)
EXTENDS MultiSigchld, MCProcessDiscipline
=============================================================================
