---------------------------- MODULE MCFifoSeqnum ----------------------------
(* Small instances of FifoSeqnum for TLC. *)
EXTENDS FifoSeqnum
=============================================================================
