--------------------------- MODULE MCInotifyDtree ---------------------------
(* A small instance of InotifyDtree for TLC. *)
EXTENDS InotifyDtree

MCFirstDirs == {<<"r">>, <<"r", "a">>, <<"s">>, <<"o">>}

(* rand_dtree in each of its modes, and another program. *)
MCMode == [c |-> "c", d |-> "d", m |-> "m", u |-> "user"]
=============================================================================
