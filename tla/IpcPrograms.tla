---------------------------- MODULE IpcPrograms ----------------------------
(***************************************************************************)
(* More programs for module Processes: a seccomp supervisor and its        *)
(* target, servers and clients on sockets, programs that wait for signals, *)
(* terminals, locks and files of tlpi-dist, and the programs that start a  *)
(* command in a namespace.                                                 *)
(***************************************************************************)
EXTENDS ProcessPrograms, FiniteSets

Sigwait(S, k)     == Call("sigwait", S, 0, k)
Select(q, r)      == Call("select", q, r, 0)
Isset(q, k)       == Call("isset", q, 0, k)
Lock(f)           == Call("lock", f, 0, 0)
Trylock(f, k)     == Call("trylock", f, 0, k)
AcceptEither(q, r, k) == Call("accept_either", q, r, k)
Sendfd(q, d)      == Call("sendfd", q, d, 0)
Listen            == Call("listen", "", 0, 0)
Notify(k)         == Call("notify", "", 0, k)
NotifRecv         == Call("notif_recv", "", 0, 0)
NotifIdValid(k)   == Call("notif_id_valid", "", 0, k)
NotifSend(k)      == Call("notif_send", "", 0, k)
Sendto(q, m, k)   == Call("sendto", q, m, k)
SendtoUdp(q, m)   == Call("sendto_udp", q, m, 0)
Raise(v, to, n)   == Call("raise", v, to, n)
Vforked(c)        == Call("vforked", c, 0, 0)
Incr(v)           == Raise(v, v, 1)

-----------------------------------------------------------------------------
(* seccomp: the supervisor makes the directory for its target, which has   *)
(* two to make.  The socket pair is a pipe of which both have both ends.   *)
closeSocketPair == <<Close("p", "r"), Close("p", "w")>>
targetProcess ==
    <<Handle("INT", "ret"), Try("work1", 0), Listen, Sendfd("p", "notify"),
      Close("notify", "r")>> \o closeSocketPair
    \o <<Notify(2), Claim({"dir"}), Notify(1), Exit>>

(* A request that is gone is answered as well: nobody is told.             *)
handleNotifications ==
    <<NotifRecv, NotifIdValid(2), Set("dir", 1), NotifSend(1), Jump(-4)>>
(* With -d, a request that went while the supervisor slept ends it.        *)
handleNotificationsDelayed ==
    <<NotifRecv, NotifIdValid(6), NotifIdValid(5), Set("dir", 1),
      NotifSend(1), Jump(-5), Jump(1), Fatal>>

supervisor(handle) ==
    <<Pipe("p"), Fork("c1", 0), Handle("CHLD", "exit"), Read("p", 0)>>
    \o closeSocketPair \o handle
seccomp_unotify_mkdir(handle) ==
    [main |-> supervisor(handle), c1 |-> targetProcess,
     user |-> <<Await("work1"), Kill("c1", "INT", 1)>>]

(* The descriptor goes to a target that still waits, or the supervisor     *)
(* ends.                                                                   *)
handleOpenat ==
    <<NotifRecv, NotifIdValid(3), Set("dir", 1), NotifIdValid(0), NotifSend(1),
      Jump(-5)>>
seccomp_unotify_openat ==
    [main |-> supervisor(handleOpenat), c1 |-> Tail(targetProcess)]

-----------------------------------------------------------------------------
(* Sockets.  Iterative servers, with two clients; s and t serve them.      *)
iterative(s, t) ==
    <<AcceptEither("p", "p2", Len(s) + 2)>> \o s \o <<Jump(-(Len(s) + 1))>>
    \o t \o <<Jump(-(Len(s) + Len(t) + 2))>>

us_xfr_serve(q, r) ==
    <<Read(q, 3), Incr("out"), Jump(-2), Close(q, "r"), Close(r, "w")>>
us_xfr_sv == <<Set("ready", 1)>>
             \o iterative(us_xfr_serve("p", "q"), us_xfr_serve("p2", "q2"))
us_xfr_cl(q, r) == <<Await("ready"), Connect(q, r)>>
                   \o Repeat(Loops, <<Write(q)>>) \o <<Exit>>
us_xfr == [main |-> us_xfr_sv, client1 |-> us_xfr_cl("p", "q"),
           client2 |-> us_xfr_cl("p2", "q2")]

(* A request is a digit and a newline: it asks for one number, or for none *)
(* (a bad request); the digit alone, before the end of file, will do.      *)
is_seqnum_serve(q, r, reqLen) ==
    <<Read(q, 6), Read(q, 1), Skip(reqLen, 1, 2), Jump(3), Write(r),
      Incr("seq"), Close(q, "r"), Close(r, "w")>>

is_seqnum_sv ==
    <<Handle("PIPE", "ign"), Set("ready", 1)>>
    \o iterative(is_seqnum_serve("p", "q", "type1"),
                 is_seqnum_serve("p2", "q2", "type2"))
is_seqnum_cl(q, r, reqLen, n) ==
    <<Await("ready"), Connect(q, r), Set(reqLen, n), Write(q), Write(q),
      Read(r, 2), Exit, Fatal>>
is_seqnum(n) == [main |-> is_seqnum_sv,
                 client1 |-> is_seqnum_cl("p", "q", "type1", n),
                 client2 |-> is_seqnum_cl("p2", "q2", "type2", 1)]

(* Datagrams.  A UNIX domain server whose client is gone ends.             *)
ud_ucase_sv ==
    <<Set("ready", 1), Msgrcv("main", "req", 0), Skip("req", 2, 3),
      Sendto("client1", 1, 0), Jump(-3), Sendto("client2", 1, 0), Jump(-5)>>
ud_ucase_cl(c, id) ==
    <<Await("ready")>>
    \o Repeat(Loops, <<Sendto("main", id, 0), Msgrcv(c, "type1", 0)>>)
    \o <<Exit>>
ud_ucase == [main |-> ud_ucase_sv, client1 |-> ud_ucase_cl("client1", 1),
             client2 |-> ud_ucase_cl("client2", 2)]

(* A client waits for ever for an answer that is lost.                     *)
i6d_ucase_sv ==
    <<Set("ready", 1), Msgrcv("main", "req", 0), SendtoUdp("client1", 1),
      Jump(-2)>>
i6d_ucase_cl ==
    <<Await("ready")>>
    \o Repeat(Loops, <<SendtoUdp("main", 1), Msgrcv("client1", "type1", 0)>>)
    \o <<Exit>>
i6d_ucase == [main |-> i6d_ucase_sv, client1 |-> i6d_ucase_cl]

(* The descriptor that is sent is the reading end of the FIFO "f".         *)
scm_rights_recv == <<Set("ready", 1), Accept("p"), Read("p", 5), Read("f", 3),
                     Incr("out"), Jump(-2), Exit, Fatal>>
scm_rights_send == <<Await("ready"), Await("work1"), Connect("p", "q"),
                     Sendfd("p", "f"), Close("f", "r"), Exit>>
scm_rights == [main |-> scm_rights_recv, client1 |-> scm_rights_send,
               user |-> <<Pipe("f"), Set("work1", 1)>>
                        \o Repeat(Loops, <<Write("f")>>) \o <<Exit>>]

-----------------------------------------------------------------------------
(* Signals that are waited for. *)
AllSignals == {"USR1", "INT", "QUIT", "CHLD", "ALRM", "PIPE", "TTOU", "STOP",
               "HUP", "CONT", "ABRT", "KILL", "TERM"}

t_sigwaitinfo == [main |-> <<Block(AllSignals), Sigwait(AllSignals, 2),
                             Jump(-1), Exit>>,
                  user |-> User(<<"USR1", "HUP", "INT">>)]

signalfd_sigval == [main |-> <<Block({"USR1", "HUP"}),
                               Sigwait({"USR1", "HUP"}, 1), Jump(-1)>>,
                    user |-> User(<<"USR1", "HUP", "USR1">>)]

(* With an argument: the signals are blocked for a while.                  *)
sig_receiver == <<Handle("USR1", "ret"), Handle("INT", "flag"),
                  Block(AllSignals), RestoreMask, Skip("flag", 1, 2), Jump(-1),
                  Exit>>
sig_sender == Repeat(Loops, <<Kill("main", "USR1", 0)>>)
              \o <<Kill("main", "INT", 0), Exit>>
sig_pair == [main |-> sig_receiver, user |-> sig_sender]

(* Without one.  The last signal may come between the test and pause().    *)
catch_rtsigs ==
    [main |-> <<Handle("USR1", "ret"), Handle("INT", "flag"),
                Skip("flag", 1, 3), Pause, Jump(-2), Exit>>,
     user |-> User(<<"USR1", "INT">>)]

(* A pause() that returns to no caller: all signals are blocked, or only   *)
(* the handler of SIGQUIT ends the program, or nothing does.               *)
block_sig_set == [main |-> <<Block(AllSignals), Handle("INT", "ret"), Pause,
                             Unreachable>>,
                  user |-> User(<<"INT", "TERM">>)]
intquit == [main |-> <<Handle("INT", "ret"), Handle("QUIT", "exit"), Pause,
                       Jump(-1)>>,
            user |-> User(<<"INT", "QUIT">>)]
sigaction_c == [main |-> <<Handle("INT", "ret"), Pause, Jump(-1)>>,
                user |-> User(<<"INT", "INT">>)]
alarm_c == [main |-> <<Handle("ALRM", "ret"), Alarm(TRUE), Pause, Jump(-1)>>]

raise_c == [main |-> <<Handle("INT", "ret"), Kill("main", "INT", 0), Exit>>]

exercise_22_2 ==
    [main |-> <<Handle("USR1", "ret"), Handle("INT", "ret"),
                Handle("TERM", "ret"), Block(AllSignals), RestoreMask, Exit>>,
     user |-> User(<<"TERM", "INT", "USR1">>)]

mq_notify_sigwaitinfo ==
    [main |-> <<Block({"USR1"}), MqNotify("mq"), Sigwait({"USR1"}, 1),
                MqNotify("mq"), MqReceive("mq", 2), Jump(-1), Jump(-4)>>,
     user |-> <<Registered("mq")>> \o pmsg_send]

-----------------------------------------------------------------------------
(* altio and pty: select() for the terminal ("in") and something else.     *)

(* A message goes through the pipe in two parts, the header and the text,  *)
(* which one write() puts there; here the parts of all messages are alike. *)
(* The main program keeps the writing end, so it never sees the end of     *)
(* file; but a read() of the text of an empty message (len = 0) returns 0, *)
(* which it takes for one.                                                 *)
childMon(q, m, len) ==
    <<Msgrcv(q, m, 0), Write("p")>>
    \o (IF len = 0 THEN <<Jump(-2)>> ELSE <<Write("p"), Jump(-3)>>)
readText(len) == IF len = 0 THEN Jump(4) ELSE Read("p", 5)
select_mq_main(len) ==
    <<Pipe("p"), Fork("c1", 10), Fork("c2", 9), Select("in", "p"),
      Isset("in", 2), Read("in", 1), Isset("p", 4), Read("p", 6), readText(len),
      Incr("out"), Jump(-7), Kill("group", "TERM", 1), Fatal, Unreachable>>
select_mq(len) ==
    [main |-> select_mq_main(len), c1 |-> childMon("resp1", "type1", len),
     c2 |-> childMon("resp2", "type2", len),
     client1 |-> Repeat(Loops, <<Msgsnd("resp1", len, 0)>>) \o <<Exit>>,
     client2 |-> Repeat(Loops, <<Msgsnd("resp2", len, 0)>>) \o <<Exit>>]

(* Without options: every child is told of the data, which none reads.     *)
epoll_child == <<Poll("f"), Exit>>
epoll_flags_fork ==
    [main |-> <<Pipe("f"), Close("f", "w"), Set("ready", 1), Fork("c1", 0),
                Fork("c2", 0), Wait("any", 1), Wait("any", 1), Exit>>,
     c1 |-> epoll_child, c2 |-> epoll_child,
     user |-> <<Await("ready"), Write("f"), Exit>>]

(* The master of a pseudoterminal takes input ("p") before its slave is    *)
(* open.  The child opens the slave and writes to "q"; the command writes, *)
(* reads a line and writes.                                                *)
ptyFork == <<Setsid(0), Close("p", "w"), Connect("q", "p")>>
ttyCommand == <<Exec(0), Write("q"), Read("p", 1), Write("q"), Exit>>

relay(reset) ==
    <<Set("raw", 1), Select("in", "q"), Isset("in", 3), Read("in", 5),
      Write("p"), Isset("q", 2), Read("q", 2), Jump(-6)>> \o reset \o <<Exit>>
ttyReset == <<Set("raw", 0)>>
ttyUser == <<Connect("in", "tty"), Write("in"), Exit>>
script ==
    [main |-> <<Pipe("p"), Fork("c1", 0), Try("work1", 0)>>
              \o relay(ttyReset),
     c1 |-> ptyFork \o ttyCommand, user |-> ttyUser]
unbuffer ==
    [main |-> <<Pipe("p"), Fork("c1", 0)>> \o relay(ttyReset),
     c1 |-> ptyFork \o ttyCommand, user |-> ttyUser]

-----------------------------------------------------------------------------
(* Daemons, locks, files and timers. *)

(* The log file that the daemon has open is the one that had the name last *)
(* time.  The user renames it and sends SIGHUP, twice.                     *)
logOpen == <<Raise("file", "log", 0)>>
daemon_SIGHUP ==
    [main |-> <<Handle("HUP", "flag"), Fork("c1", 0), Exit>>,
     c1   |-> <<Setsid(0), Fork("c2", 0), Exit>>,
     c2   |-> <<CloseAll, Daemon>> \o logOpen
              \o <<Set("ready", 1), Skip("flag", 1, 2), Jump(-1),
                   Set("flag", 0)>> \o logOpen \o <<Jump(-4)>>,
     user |-> <<Await("ready")>>
              \o Repeat(2, <<Incr("file"), Kill("c2", "HUP", 0)>>) \o <<Exit>>]

(* cnt is the number of processes that have the lock. *)
createPidFile == <<Trylock("f", 5), Incr("cnt"), Claim({"cnt"}),
                   Set("cnt", 0), Exit, Fatal>>
t_flock == <<Lock("f"), Incr("cnt"), Claim({"cnt"}), Set("cnt", 0),
             Close("f", "l"), Exit>>

atomic_append == Repeat(Loops, <<Incr("len")>>) \o <<Exit>>
(* lseek() to the end, then a write at that place. *)
append_lseek(off) ==
    Repeat(Loops, <<Raise("len", off, 0), Raise(off, "len", 1)>>) \o <<Exit>>

(* created is the number of processes that say they created the file.      *)
bad_exclusive_open == <<Skip("file", 1, 3), Set("file", 1), Incr("created"),
                        Exit>>

real_timer == [main |-> <<Handle("ALRM", "flag"), Alarm(TRUE),
                          Skip("flag", 1, 2), Jump(-1), Exit>>]

-----------------------------------------------------------------------------
(* procexec, procres and namespaces *)
simple_system ==
    [main |-> <<Enter, Fork("c1", 2), Wait("c1", 1), Leave, Exit>>,
     c1   |-> <<Exec(1), Exit>>]

t_vfork == [main |-> <<Fork("c1", 0), Vforked("c1"), Claim({"work1"}), Exit>>,
            c1   |-> <<Set("work1", 1), Exit>>]

rusage_wait ==
    [main |-> <<Handle("USR1", "ret"), Block({"USR1"}), Fork("c1", 0),
                Sigsuspend("empty"), Wait("any", 0), Exit>>,
     c1   |-> <<Kill("ppid", "USR1", 0), Exit>>]

child_status == [main |-> <<Fork("c1", 0), Wait("any", 0), Exit>>,
                 c1 |-> <<Exit>>]

wait_c == [main |-> <<Fork("c1", 0), Wait("any", 1), Claim({"c1"}), Exit>>,
           c1 |-> <<Exit>>]

exercise_36_1 == [main |-> <<Fork("c1", 0), Wait("any", 0), Exit>>,
                  c1 |-> <<Try("work1", 0), Exit>>]

(* The child loops until its limit of CPU time ends it. *)
rlimit == [main |-> <<Fork("c1", 0), Wait("c1", 0), Exit>>,
           c1 |-> <<Alarm(TRUE), Jump(0)>>]

ns_child_exec == [main |-> <<Fork("c1", 0), Wait("c1", 0), Exit>>,
                  c1 |-> <<Exec(0), Exit>>]

(* The mount() of the child may fail. *)
pidns_init_sleep == [ns_child_exec EXCEPT !.c1 = <<Try("work1", 0)>> \o @]

(* Two levels of children. *)
multi_pidns ==
    [main |-> <<Fork("c1", 0), Wait("c1", 0), Exit>>,
     c1 |-> <<Try("work1", 0), Fork("c2", 0), Wait("c2", 0), Exit>>,
     c2 |-> <<Try("work2", 0), Exec(0), Exit>>]

(* With -f. *)
ns_run == [main |-> <<Try("work1", 0), Fork("c1", 0), Wait("c1", 0), Exit>>,
           c1 |-> <<Exec(0), Exit>>]
ns_exec == [main |-> <<Try("work1", 0), Fork("c1", 0), Wait("any", 1), Exit>>,
            c1 |-> <<Exec(0), Exit>>]
(* The -1 of a fork() that fails is taken for a child. *)
unshare == [main |-> <<Try("work1", 0), Fork("c1", 1), Wait("any", 1), Exit>>,
            c1 |-> <<Exec(0), Exit>>]

make_orphans == [main |-> <<Fork("c1", 0), Fork("c2", 0), Exit>>,
                 c1 |-> <<Orphan, Exit>>, c2 |-> <<Orphan, Exit>>]

-----------------------------------------------------------------------------
IpcProgramsAll ==
    [seccomp_unotify_mkdir |-> seccomp_unotify_mkdir(handleNotifications),
     seccomp_delayed |-> seccomp_unotify_mkdir(handleNotificationsDelayed),
     seccomp_unotify_openat |-> seccomp_unotify_openat,
     us_xfr |-> us_xfr, is_seqnum |-> is_seqnum(1),
     is_seqnum_bad |-> is_seqnum(0), ud_ucase |-> ud_ucase,
     i6d_ucase |-> i6d_ucase, scm_rights |-> scm_rights,
     t_sigwaitinfo |-> t_sigwaitinfo, signalfd_sigval |-> signalfd_sigval,
     sig_pair |-> sig_pair, catch_rtsigs |-> catch_rtsigs,
     mq_notify_sigwaitinfo |-> mq_notify_sigwaitinfo,
     select_mq |-> select_mq(1), select_mq_empty |-> select_mq(0),
     epoll_flags_fork |-> epoll_flags_fork, script |-> script,
     unbuffer |-> unbuffer, daemon_SIGHUP |-> daemon_SIGHUP,
     create_pid_file |-> Twice(createPidFile), t_flock |-> Twice(t_flock),
     atomic_append |-> Twice(atomic_append),
     append_lseek |-> [main |-> append_lseek("off1"),
                       other |-> append_lseek("off2")],
     bad_exclusive_open |-> Twice(bad_exclusive_open),
     real_timer |-> real_timer, simple_system |-> simple_system,
     t_vfork |-> t_vfork, rusage_wait |-> rusage_wait,
     child_status |-> child_status, ns_child_exec |-> ns_child_exec,
     pidns_init_sleep |-> pidns_init_sleep, multi_pidns |-> multi_pidns,
     ns_run |-> ns_run, ns_exec |-> ns_exec, unshare |-> unshare,
     make_orphans |-> make_orphans, block_sig_set |-> block_sig_set,
     intquit |-> intquit, sigaction |-> sigaction_c, alarm |-> alarm_c,
     raise |-> raise_c, exercise_22_2 |-> exercise_22_2, wait |-> wait_c,
     exercise_36_1 |-> exercise_36_1, rlimit |-> rlimit]

IpcResults ==
    [us_xfr |-> [out |-> {2 * Loops}], is_seqnum |-> [seq |-> {2}],
     is_seqnum_bad |-> [seq |-> {1}], select_mq_empty |-> [out |-> {0}],
     scm_rights |-> [out |-> {Loops}], select_mq |-> [out |-> {2 * Loops}],
     script |-> [raw |-> {0}], unbuffer |-> [raw |-> {0}],
     daemon_SIGHUP |-> [log |-> {2}], atomic_append |-> [len |-> {2 * Loops}],
     append_lseek |-> [len |-> Loops..2 * Loops],
     bad_exclusive_open |-> [created |-> {1, 2}]]

Merge(f, g) == [x \in DOMAIN f \cup DOMAIN g |->
                  IF x \in DOMAIN f THEN f[x] ELSE g[x]]
EveryProgram == Merge(AllPrograms, IpcProgramsAll)
EveryResult == Merge(Results, IpcResults)
=============================================================================
