-------------------------- MODULE MCThreadMultijoin --------------------------
(* Small instances of ThreadMultijoin for TLC, which also evaluates the     *)
(* rules of ThreadDiscipline on the programs of ThreadPrograms.             *)
EXTENDS ThreadMultijoin, MCThreadDiscipline
=============================================================================
