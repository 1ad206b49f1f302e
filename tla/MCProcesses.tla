---------------------------- MODULE MCProcesses ----------------------------
(* The programs of ProcessPrograms and IpcPrograms with small numbers of   *)
(* rounds, for TLC.                                                        *)
EXTENDS Processes, IpcPrograms

(* The second child of setpgrp joins the group of the first one, which may *)
(* not lead one yet, or may be gone.  A delayed supervisor ends when the   *)
(* target is interrupted; the sender's process may be dead; one of two     *)
(* daemons does not get the lock; the child of script may find that its    *)
(* parent has met the end of file and is gone.  An empty message ends      *)
(* select_mq; a client that asks for no number gets none.                  *)
MCMayFail == {<<"setpgrp", "c2">>, <<"seccomp_delayed", "main">>,
              <<"sig_pair", "user">>, <<"create_pid_file", "main">>,
              <<"create_pid_file", "other">>, <<"script", "c1">>,
              <<"unbuffer", "c1">>, <<"select_mq_empty", "main">>,
              <<"is_seqnum_bad", "client1">>}

MCQueueSize == [q \in Queues |-> IF q \in {"mq", "main"} THEN 2 ELSE 1]

(* They wait for the next request, for ever.                               *)
MCServers == {<<"svmsg_file", "main">>, <<"mq_notify_sig", "main">>,
              <<"mq_notify_via_signal", "main">>, <<"is_echo", "main">>,
              <<"us_xfr", "main">>, <<"is_seqnum", "main">>,
              <<"is_seqnum_bad", "main">>, <<"select_mq_empty", "c1">>,
              <<"select_mq_empty", "c2">>,
              <<"ud_ucase", "main">>, <<"i6d_ucase", "main">>,
              <<"signalfd_sigval", "main">>,
              <<"mq_notify_sigwaitinfo", "main">>, <<"select_mq", "main">>,
              <<"select_mq", "c1">>, <<"select_mq", "c2">>,
              <<"daemon_SIGHUP", "c2">>, <<"sigaction", "main">>,
              <<"alarm", "main">>}

(* Their messages say that another process has ended, has its new group or *)
(* session, or runs its new program: only a sleep() speaks for it.         *)
MCTimed == {<<"exercise_26_2", "main">>, <<"exercise_26_2", "c2">>,
            <<"make_zombie", "main">>, <<"exercise_34_2", "main">>,
            <<"exercise_34_2", "c1">>, <<"setsid", "main">>}

MCKillable == {<<"seccomp_unotify_openat", "c1">>, <<"is_seqnum", "client1">>,
               <<"ud_ucase", "client1">>, <<"create_pid_file", "main">>}
=============================================================================
