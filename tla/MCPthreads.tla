----------------------------- MODULE MCPthreads -----------------------------
(* The programs of ThreadPrograms with small numbers of rounds, for TLC. *)
EXTENDS Pthreads, ThreadPrograms

(* Where the programs do lose a block: the thread that pops its handlers   *)
(* without running them; the one canceled asynchronously between strdup()  *)
(* and pthread_cleanup_push(); the ones canceled in the printf() of a      *)
(* handler that pthread_cleanup_pop() has taken off the stack; and the one *)
(* canceled in the printf() between malloc() and pthread_cleanup_push().   *)
MCLeaky ==
    {<<"pthread_cleanup", "t3", "return">>,
     <<"thread_cancel", "t1", "cleanup_push">>,
     <<"thread_cancel", "t2", "printf">>, <<"thread_cancel", "t3", "printf">>,
     <<"pthread_testcancel", "t1", "printf">>,
     <<"pthread_testcancel", "t2", "printf">>,
     <<"pthread_testcancel", "t3", "printf">>,
     <<"thread_cleanup", "t1", "printf">>}
=============================================================================
