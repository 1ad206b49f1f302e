------------------------- MODULE MCThreadDiscipline -------------------------
(***************************************************************************)
(* The rules of module ThreadDiscipline, evaluated by TLC on the text of   *)
(* the programs of module ThreadPrograms.  The module of a run about       *)
(* something else extends this one: the run of Pthreads itself makes no    *)
(* use of the rules and is as good for programs that break them.           *)
(***************************************************************************)
EXTENDS Integers

Programs(n) == INSTANCE ThreadPrograms WITH Loops <- n

(* MCLeaky of module MCPthreads. *)
ProgramLeaks ==
    {<<"pthread_cleanup", "t3", "return">>,
     <<"thread_cancel", "t1", "cleanup_push">>,
     <<"thread_cancel", "t2", "printf">>, <<"thread_cancel", "t3", "printf">>,
     <<"pthread_testcancel", "t1", "printf">>,
     <<"pthread_testcancel", "t2", "printf">>,
     <<"pthread_testcancel", "t3", "printf">>,
     <<"thread_cleanup", "t1", "printf">>}

Rules(n) ==
    INSTANCE ThreadDiscipline
        WITH Code <- Programs(n)!AllPrograms,
             Vars <- {"glob", "sem", "called", "keys", "inits", "avail",
                      "numConsumed", "barrier"},
             Locks <- {"mtx", "rwlock", "splock", "once"},
             Blocks <- {"r1", "r2", "buf"},
             Racy <- {"thread_incr"},
             Dangling <- {"thread_exit"},
             Leaky <- ProgramLeaks,
             Signals <- {"SIGINT", "SIGTERM", "SIGUSR1", "SIGUSR2"}

(* The programs keep the rules, with one round of every loop, two or three. *)
ASSUME ProgramsAreDisciplined == \A n \in 1..3 : Rules(n)!Disciplined
=============================================================================
