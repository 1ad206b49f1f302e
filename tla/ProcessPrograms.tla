--------------------------- MODULE ProcessPrograms ---------------------------
(***************************************************************************)
(* The programs about processes, signals, pipes, jobs and semaphores, each *)
(* as a function from its processes to the system calls they make.  Module *)
(* Processes gives the calls their meaning.  Output is left out, except    *)
(* for a message that takes something for granted, that is, work of        *)
(* another process (a variable) or its end (the process): it is a Claim.   *)
(* Loops over the input are unrolled, with Loops rounds.                   *)
(***************************************************************************)
EXTENDS Naturals, Integers, Sequences

CONSTANT Loops          \* bound: rounds of a loop

ASSUME LoopsAssumption == Loops \in Nat \ {0}

(* k is the number of calls to go on after a failure; 0 is errExit().      *)
Call(op, x, n, k) == [op |-> op, x |-> x, n |-> n, k |-> k]

Fork(c, k)       == Call("fork", c, 0, k)
Exec(k)          == Call("exec", "", 0, k)
Try(v, k)        == Call("try", v, 0, k)
Exit             == Call("exit", "", 0, 0)
Fatal            == Call("fatal", "", 0, 0)
Wait(c, k)       == Call("wait", c, 0, k)
WaitNohang(c, k) == Call("wait_nohang", c, 0, k)
Block(S)         == Call("block", S, 0, 0)
RestoreMask      == Call("restore_mask", "", 0, 0)
Uninitialized(S) == Call("uninitialized", S, 0, 0)
Handle(s, h)     == Call("sigaction", s, h, 0)
RestoreAction(s) == Call("restore_action", s, 0, 0)
DefaultUnlessIgnored(s) == Call("default_unless_ignored", s, 0, 0)
Kill(p, s, k)    == Call("kill", p, s, k)
Pause            == Call("pause", "", 0, 0)
Sigsuspend(m)    == Call("sigsuspend", m, 0, 0)
Input            == Call("input", "", 0, 0)
Alarm(on)        == Call("alarm", "", on, 0)
Pipe(q)          == Call("pipe", q, 0, 0)
Dup2(q, e)       == Call("dup2", q, e, 0)
Close(q, e)      == Call("close", q, e, 0)
CloseAll         == Call("close_all", "", 0, 0)
Write(q)         == Call("write", q, 0, 0)
Read(q, eof)     == Call("read", q, 0, eof)
Poll(q)          == Call("poll", q, 0, 0)
Drain(q)         == Call("drain", q, 0, 0)
Connect(q, r)    == Call("connect", q, r, 0)
Accept(q)        == Call("accept", q, 0, 0)
Shutdown(q)      == Call("shutdown", q, 0, 0)
Msgsnd(q, m, k)  == Call("msgsnd", q, m, k)
Msgrcv(q, v, k)  == Call("msgrcv", q, v, k)
Msgctl(q)        == Call("msgctl", q, 0, 0)
MqNotify(q)      == Call("mq_notify", q, 0, 0)
MqReceive(q, k)  == Call("mq_receive", q, 0, k)
Registered(q)    == Call("registered", q, 0, 0)
Setpgid(p, g, k) == Call("setpgid", p, g, k)
Setsid(k)        == Call("setsid", "", 0, k)
Tcsetpgrp(g)     == Call("tcsetpgrp", g, 0, 0)
Set(v, n)        == Call("set", v, n, 0)
Copy(v, to)      == Call("copy", v, to, 0)
Skip(v, n, k)    == Call("skip", v, n, k)       \* if v >= n, k calls on
Jump(n)          == Call("jump", "", n, 0)
Await(v)         == Call("await", v, 0, 0)
Orphan           == Call("orphan", "", 0, 0)
SemgetExcl(k)    == Call("semget_excl", "", 0, k)
Semget           == Call("semget", "", 0, 0)
Semctl(s, n)     == Call("semctl", s, n, 0)
Semop(s, n)      == Call("semop", s, n, 0)
Claim(S)         == Call("claim", S, 0, 0)
Unreachable      == Call("unreachable", "", 0, 0)
Daemon           == Call("daemon", "", 0, 0)
Enter            == Call("enter", "", 0, 0)
Leave            == Call("leave", "", 0, 0)
StatusLost       == Call("status_lost", "", 0, 0)

Repeat(n, s) == [i \in 1..n * Len(s) |-> s[((i - 1) % Len(s)) + 1]]

-----------------------------------------------------------------------------
(* chapter24 and chapter26 *)

fork_sig_sync ==
    [main |-> <<Block({"USR1"}), Handle("USR1", "restart"), Fork("c1", 0),
                Sigsuspend("empty"), Claim({"work1"}), RestoreMask, Exit>>,
     c1   |-> <<Set("work1", 1), Kill("ppid", "USR1", 0), Exit>>]

fork_whos_on_first ==
    [main |-> <<Fork("c1", 0), Wait("any", 1), Fork("c2", 0), Wait("any", 1),
                Exit>>,
     c1 |-> <<Exit>>, c2 |-> <<Exit>>]

(* The child's lseek() and fcntl() are seen by the parent.                 *)
fork_file_sharing ==
    [main |-> <<Fork("c1", 0), Wait("any", 0), Claim({"work1", "work2"}), Exit>>,
     c1   |-> <<Set("work1", 1), Set("work2", 1), Exit>>]

anon_mmap ==
    [main |-> <<Fork("c1", 0), Wait("any", 0), Claim({"work1"}), Exit>>,
     c1   |-> <<Set("work1", 1), Exit>>]

exercise_26_1 == [main |-> <<Fork("c1", 0), Exit>>, c1 |-> <<Exit>>]

orphan == [main |-> <<Fork("c1", 0), Exit>>, c1 |-> <<Orphan, Exit>>]

multi_wait ==
    [main |-> <<Fork("c1", 0), Fork("c2", 0), Fork("c3", 0), Wait("any", 2),
                Jump(-1), Claim({"work1", "work2", "work3"}), Exit>>,
     c1 |-> <<Set("work1", 1), Exit>>, c2 |-> <<Set("work2", 1), Exit>>,
     c3 |-> <<Set("work3", 1), Exit>>]

(* A fork() that fails is not noticed: its -1 makes waitpid() wait for any *)
(* child.                                                                  *)
waitpid_main ==
    <<Fork("c1", 8), Fork("c2", 12), Wait("c2", 1), Claim({"c2"}),
      WaitNohang("c1", 1), Wait("c1", 1), Claim({"c1"}), Exit,
      Fork("c2", 0), Wait("c2", 1), WaitNohang("any", 1), Wait("any", 1), Exit,
      Wait("any", 1), WaitNohang("c1", 1), Wait("c1", 1), Exit>>
waitpid_c ==
    [main |-> waitpid_main, c1 |-> <<Exit>>, c2 |-> <<Exit>>]

-----------------------------------------------------------------------------
(* system() of chapter27, and callers of it: t_system, a program that has  *)
(* a SIGCHLD handler and one that ignores SIGINT.  The user may type       *)
(* control-C at any time.                                                  *)

(* Mutant: a failed fork() returns at once. *)
systemReturnsEarly(c) ==
    <<Enter, Block({"CHLD"}), Handle("INT", "ign"), Handle("QUIT", "ign"),
      Set("status", -1), Fork(c, 6), Wait(c, 7), Set("status", 0), RestoreMask,
      RestoreAction("INT"), RestoreAction("QUIT"), Leave, Jump(2), StatusLost>>

(* What it returns is -1 unless there was a child; the status of a child   *)
(* that somebody else has waited for is lost.                              *)
system(c) ==
    <<Enter, Block({"CHLD"}), Handle("INT", "ign"), Handle("QUIT", "ign"),
      Set("status", -1), Fork(c, 3), Wait(c, 7), Set("status", 0), RestoreMask,
      RestoreAction("INT"), RestoreAction("QUIT"), Leave, Jump(2), StatusLost>>

system_child ==
    <<DefaultUnlessIgnored("INT"), DefaultUnlessIgnored("QUIT"), RestoreMask,
      Exec(1), Exit>>

system_caller(int, chld) ==
    [main |-> <<Handle("INT", int), Handle("CHLD", chld)>> \o system("c1")
              \o <<Exit>>,
     c1 |-> system_child, user |-> <<Kill("group", "INT", 1)>>]

systemOrExit(c) == system(c) \o <<Skip("status", 0, 2), Fatal>>
t_system == [main |-> systemOrExit("c1") \o systemOrExit("c2") \o <<Exit>>,
             c1 |-> system_child, c2 |-> system_child]

(* Programs that show a process that has ended: ps, run by system(), looks *)
(* at it.  That it has ended rests on a sleep() of the others.             *)
exercise_26_2 ==
    [main |-> <<Fork("c1", 0), Claim({"c1"})>> \o system("c3")
              \o <<Wait("any", 1), Set("work1", 1), Exit>>,
     c1   |-> <<Fork("c2", 0), Exit>>,
     c2   |-> <<Claim({"c1"}), Claim({"c1", "work1"}), Exit>>,
     c3   |-> system_child]

make_zombie ==
    [main |-> <<Fork("c1", 0)>> \o system("c2")
              \o <<Kill("c1", "KILL", 1), Claim({"c1"})>> \o system("c3")
              \o <<Claim({"c1"}), Wait("any", 1)>> \o system("c4") \o <<Exit>>,
     c1 |-> <<Exit>>,
     c2 |-> system_child, c3 |-> system_child, c4 |-> system_child]

-----------------------------------------------------------------------------
(* chapter34, chapter37 and tlpi-dist/namespaces *)

exercise_34_2 ==
    [main |-> <<Fork("c1", 0), Setpgid("c1", "c1", 1), Set("work1", 1),
                Fork("c2", 0), Claim({"work2"}), Setpgid("c2", "c2", 1),
                Wait("any", 2), Jump(-1), Exit>>,
     c1 |-> <<Claim({"work1"}), Exit>>,
     c2 |-> <<Exec(2), Set("work2", 1), Exit>>]

exercise_34_3 ==
    [main |-> <<Fork("c1", 0), Setpgid("main", "main", 0), Setsid(1), Exit>>,
     c1   |-> <<Setsid(1), Exit>>]

(* The arguments are s and p. *)
orphaned_pgrp_SIGHUP ==
    [main |-> <<Handle("HUP", "ret"), Handle("CONT", "ret"), Fork("c1", 0),
                Fork("c2", 0), Exit>>,
     c1   |-> <<Kill("c1", "STOP", 1), Exit>>,
     c2   |-> <<Alarm(TRUE), Pause, Exit>>]

setpgrp ==
    [main |-> <<Fork("c1", 0), Fork("c2", 0), Wait("c1", 1), Wait("c2", 1),
                Claim({"c1", "c2"}), Exit>>,
     c1 |-> <<Setpgid("c1", "c1", 0), Exit>>,
     c2 |-> <<Setpgid("c2", "c1", 0), Exit>>]

setsid_c == [main |-> <<Fork("c1", 0), Claim({"work1"}), Exit>>,
             c1 |-> <<Setsid(0), Set("work1", 1), Exit>>]

tcsetpgrp_c ==
    [main |-> <<Fork("c1", 0), Wait("c1", 0), Exit>>,
     c1   |-> <<Setpgid("c1", "c1", 0), Tcsetpgrp("c1"), Tcsetpgrp("main"),
                Exit>>]

(* catch_SIGHUP with an argument, disc_SIGHUP with the arguments d and s.  *)
(* The terminal hangs up.                                                  *)
pause_loop == <<Alarm(TRUE), Pause, Jump(-1)>>
catch_SIGHUP ==
    [main |-> <<Handle("HUP", "ret"), Fork("c1", 0)>> \o pause_loop,
     c1   |-> <<Setpgid("c1", "c1", 0)>> \o pause_loop,
     user |-> <<Kill("group", "HUP", 1)>>]
disc_SIGHUP ==
    [main |-> <<Fork("c1", 0), Fork("c2", 0)>> \o pause_loop,
     c1   |-> <<Setpgid("c1", "c1", 0), Handle("HUP", "ret")>> \o pause_loop,
     c2   |-> <<Handle("HUP", "ret")>> \o pause_loop,
     user |-> <<Kill("group", "HUP", 1)>>]

(* test_become_daemon ignores the -1 of becomeDaemon(); the pipe stands    *)
(* for the descriptors the caller has open.                                *)
becomeDaemon ==
    [main |-> <<Pipe("p"), Fork("c1", 2), Exit, Daemon, Exit>>,
     c1   |-> <<Setsid(3), Fork("c2", 2), Exit, Daemon, Exit>>,
     c2   |-> <<CloseAll, Daemon, Exit>>]

(* One command.  SIGCHLD may come before pause().                          *)
simple_init ==
    [main |-> <<Handle("CHLD", "reap"), Handle("TTOU", "ign"),
                Setpgid("main", "main", 0), Tcsetpgrp("main"), Fork("c1", 3),
                Pause, Tcsetpgrp("main"), Exit>>,
     c1   |-> <<Setpgid("c1", "c1", 0), Tcsetpgrp("c1"), Exec(0), Exit>>]

(* The pipe tells the child that its user and group maps are set.          *)
childFunc == <<Close("p", "w"), Read("p", 2), Fatal, Close("p", "r"),
               Claim({"work1"}), Exec(0), Exit>>
update_child_maps == <<Try("work1", 0)>>
userns_child_exec ==
    [main |-> <<Pipe("p"), Fork("c1", 0)>> \o update_child_maps
              \o <<Close("p", "w"), Wait("c1", 0), Exit>>,
     c1   |-> childFunc]

-----------------------------------------------------------------------------
(* chapter44 and tlpi-dist/pipes *)

(* Mutant: the child closes its end before it works. *)
pipe_sync_childEarly(work) ==
    <<Close("p", "w"), Set(work, 1), Close("p", "r"), Exit>>

pipe_sync_child(work) ==
    <<Set(work, 1), Close("p", "w"), Close("p", "r"), Exit>>
pipe_sync_main ==
    <<Pipe("p"), Fork("c1", 0), Fork("c2", 0), Fork("c3", 0), Close("p", "w"),
      Read("p", 2), Jump(-1), Claim({"work1", "work2", "work3"}),
      Close("p", "r"), Wait("c1", 1), Wait("c2", 1), Wait("c3", 1), Exit>>
pipe_sync == [main |-> pipe_sync_main,
              c1 |-> pipe_sync_child("work1"), c2 |-> pipe_sync_child("work2"),
              c3 |-> pipe_sync_child("work3")]

pipe_sync_dist_child(work) ==
    <<Close("p", "r"), Set(work, 1), Close("p", "w"), Exit>>
pipe_sync_dist ==
    [main |-> <<Pipe("p"), Fork("c1", 0), Fork("c2", 0), Close("p", "w"),
                Read("p", 2), Fatal, Claim({"work1", "work2"}), Exit>>,
     c1 |-> pipe_sync_dist_child("work1"), c2 |-> pipe_sync_dist_child("work2")]

simple_pipe ==
    [main |-> <<Pipe("p"), Fork("c1", 0), Close("p", "r")>>
              \o Repeat(Loops, <<Write("p")>>)
              \o <<Close("p", "w"), Wait("any", 1), Exit>>,
     c1   |-> <<Close("p", "w"), Read("p", 2), Jump(-1), Close("p", "r"), Exit>>]

(* ls writes lines, wc reads to the end of file. *)
ls == Repeat(Loops, <<Write("p")>>) \o <<Exit>>
wc == <<Read("p", 2), Jump(-1), Exit>>
ls_ws_child1 == <<Close("p", "r"), Dup2("p", "w"), Close("p", "w"), Exec(0)>>
ls_ws_child2 == <<Close("p", "w"), Dup2("p", "r"), Close("p", "r"), Exec(0)>>

(* Mutant: the parent keeps the write end open. *)
ls_ws_mainKeepsPipe ==
    <<Pipe("p"), Fork("c1", 0), Fork("c2", 0), Close("p", "r"),
      Wait("c1", 1), Wait("c2", 1), Exit>>

ls_ws_main ==
    <<Pipe("p"), Fork("c1", 0), Fork("c2", 0), Close("p", "r"), Close("p", "w"),
      Wait("c1", 1), Wait("c2", 1), Exit>>
ls_ws == [main |-> ls_ws_main, c1 |-> ls_ws_child1 \o ls,
          c2 |-> ls_ws_child2 \o wc]
pipe_ls_wc == [ls_ws EXCEPT !.main =
    <<Pipe("p"), Fork("c1", 0), Fork("c2", 0), Close("p", "r"), Close("p", "w"),
      Wait("any", 0), Wait("any", 0), Exit>>]

change_case ==
    [main |-> <<Pipe("p"), Pipe("q"), Fork("c1", 0), Close("p", "r"),
                Close("q", "w")>>
              \o Repeat(Loops, <<Write("p"), Read("q", 1)>>) \o <<Exit>>,
     c1   |-> <<Close("p", "w"), Close("q", "r"), Read("p", 3), Write("q"),
                Jump(-2), Exit>>]

(* popen() and pclose(): read the output to its end, write the input, or   *)
(* close before the end, when SIGPIPE may kill the command.                *)
popen_command(cmd) ==
    <<Close("p", "r"), Dup2("p", "w"), Close("p", "w"), Exec(1)>> \o cmd
demonstratePopenRead ==
    [main |-> <<Pipe("p"), Fork("c1", 6), Close("p", "w"), Read("p", 2),
                Jump(-1), Close("p", "r"), Wait("c1", 1), Exit>>,
     c1   |-> popen_command(ls)]
demonstratePopenWrite ==
    [main |-> <<Pipe("p"), Fork("c1", Loops + 4), Close("p", "r")>>
              \o Repeat(Loops, <<Write("p")>>)
              \o <<Close("p", "w"), Wait("c1", 1), Exit>>,
     c1   |-> <<Close("p", "w"), Dup2("p", "r"), Close("p", "r"), Exec(3)>>
              \o wc]
demonstrateLargeDataProcessing ==
    [main |-> <<Pipe("p"), Fork("c1", 5), Close("p", "w"), Read("p", 1),
                Close("p", "r"), Wait("c1", 1), Exit>>,
     c1   |-> popen_command(ls)]

-----------------------------------------------------------------------------
(* chapter20 to chapter23, tlpi-dist/signals and altio.  The user sends    *)
(* signals.                                                                *)
User(sigs) == [i \in 1..Len(sigs) |-> Kill("main", sigs[i], 1)]

sigpending == [main |-> <<Block({"INT"}), Handle("INT", "ret"), Pause,
                          Unreachable>>,
               user |-> User(<<"INT", "INT">>)]

sig_abort == [main |-> <<Handle("ABRT", "exit"), Kill("main", "ABRT", 0),
                         Unreachable>>]

exercise_21_1 == [main |-> <<Handle("ABRT", "exit"), Handle("ABRT", "exit"),
                             Kill("main", "ABRT", 1), Unreachable>>]

(* A pending SIGINT is dropped when it is ignored. *)
ignore_pending_sig ==
    [main |-> <<Handle("INT", "ret"), Block({"INT"}), Handle("INT", "ign"),
                Handle("INT", "ret"), RestoreMask, Exit>>,
     user |-> User(<<"INT", "INT">>)]

sigsuspend_loop == <<Skip("flag", 1, 3), Sigsuspend("saved"), Jump(-2),
                     RestoreMask, Exit>>
sigsuspend_setup == <<Block({"INT", "QUIT"}), Handle("INT", "ret"),
                      Handle("QUIT", "flag")>>

(* origMask is never set. *)
t_sigsuspend ==
    [main |-> sigsuspend_setup \o <<Uninitialized({"INT", "QUIT"})>>
              \o sigsuspend_loop,
     user |-> User(<<"INT", "QUIT">>)]
t_sigsuspend_dist == [main |-> sigsuspend_setup \o sigsuspend_loop,
                      user |-> User(<<"INT", "QUIT">>)]
(* Compiled with USE_PAUSE. *)
t_sigsuspend_pause ==
    [main |-> sigsuspend_setup \o <<Skip("flag", 1, 4), RestoreMask, Pause,
                                    Jump(-3), RestoreMask, Exit>>,
     user |-> User(<<"INT", "QUIT">>)]

timed_read(handler) ==
    [main |-> <<Handle("ALRM", handler), Alarm(TRUE), Input, Alarm(FALSE),
                Exit>>]

sig_speed_sigsuspend ==
    [main |-> <<Handle("USR1", "ret"), Block({"USR1"}), Fork("c1", 0)>>
              \o Repeat(Loops, <<Sigsuspend("empty"), Kill("c1", "USR1", 0)>>)
              \o <<Exit>>,
     c1   |-> Repeat(Loops, <<Kill("ppid", "USR1", 0), Sigsuspend("empty")>>)
              \o <<Exit>>]

self_pipe == [main |-> <<Pipe("self"), Handle("INT", "pipe"), Poll("self"),
                         Drain("self"), Exit>>,
              user |-> User(<<"INT", "INT">>)]

-----------------------------------------------------------------------------
(* tlpi-dist/svsem and svshm *)

initSemAvailable(s) == <<Semctl(s, 1)>>

(* Mutant: the semaphore is made available. *)
initSemInUseAvailable(s) == <<Semctl(s, 1)>>

initSemInUse(s) == <<Semctl(s, 0)>>
reserveSem(s) == <<Semop(s, -1)>>
releaseSem(s) == <<Semop(s, 1)>>

(* Block i of Loops; the last one, of length 0, is the end of file.        *)
xfr(i, cnt) == reserveSem("wsem") \o <<Set("buf", i), Set("cnt", cnt)>>
               \o releaseSem("rsem")
xfrs[i \in 0..Loops] == IF i = 0 THEN <<>> ELSE xfrs[i - 1] \o xfr(i, 1)
svshm_xfr_writer ==
    <<Set("semid", 1)>> \o initSemAvailable("wsem") \o initSemInUse("rsem")
    \o <<Set("ready", 1)>> \o xfrs[Loops] \o xfr(0, 0) \o reserveSem("wsem")
    \o <<Set("semid", 0), Set("ready", 0), Exit>>
(* The reader is started when the writer has created the segment.          *)
svshm_xfr_reader ==
    <<Await("ready"), Semget>> \o reserveSem("rsem")
    \o <<Skip("cnt", 1, 2), Jump(4), Copy("buf", "out")>> \o releaseSem("wsem")
    \o <<Jump(-5)>> \o releaseSem("wsem") \o <<Exit>>
svshm_xfr == [main |-> svshm_xfr_writer, reader |-> svshm_xfr_reader]

(* Two processes that run the same program.  That MAX_TRIES looks at the   *)
(* time of the last semop() were too few is a failure of Try.              *)
svsem_good_init ==
    <<SemgetExcl(4), Semctl("sem", 0), Semop("sem", 0), Jump(4),
      Semget, Try("tries", 0), Await("otime"), Semop("sem", 1), Exit>>
svsem_bad_init ==
    <<SemgetExcl(3), Semctl("sem", 0), Jump(2), Semget, Semop("sem", 1), Exit>>
Twice(s) == [main |-> s, other |-> s]

-----------------------------------------------------------------------------
(* tlpi-dist/svmsg, pmsg and sockets: servers and their clients.  A client *)
(* is started when its server has its queue or its socket.                 *)

(* A message is a block of the file, numbered from 1, or one of these.     *)
RESP_MT_END == -1
RESP_MT_FAILURE == -2

serveRequest(resp) ==
    <<Try("work1", Loops + 3)>>
    \o [i \in 1..Loops |-> Msgsnd(resp, i, Loops + 1 - i)]
    \o <<Msgsnd(resp, RESP_MT_END, 1), Exit,
         Msgsnd(resp, RESP_MT_FAILURE, 1), Fatal>>
(* The request has the queue of the client. *)
svmsg_file_server ==
    <<Handle("CHLD", "reap"), Msgrcv("srv", "req", 6), Skip("req", 2, 3),
      Fork("s1", 4), Jump(-3), Fork("s2", 2), Jump(-5), Msgctl("srv"), Exit>>
(* removeQueue() runs at every exit(). *)
svmsg_file_client(id, resp, type, out) ==
    <<Msgsnd("srv", id, 11), Msgrcv(resp, type, 10),
      Skip(type, RESP_MT_END, 2), Jump(8), Skip(type, 1, 2), Jump(4),
      Copy(type, out), Msgrcv(resp, type, 4), Jump(-4), Msgctl(resp), Exit,
      Msgctl(resp), Fatal>>
svmsg_file ==
    [main |-> svmsg_file_server,
     s1 |-> serveRequest("resp1"), s2 |-> serveRequest("resp2"),
     client1 |-> svmsg_file_client(1, "resp1", "type1", "out"),
     client2 |-> svmsg_file_client(2, "resp2", "type2", "out2")]

(* The first message is sent when the program has registered; the other    *)
(* program needs no such help, for gotSig is 1 at the start.               *)
pmsg_send == Repeat(Loops, <<Msgsnd("mq", 1, 0)>>) \o <<Exit>>
mq_notify_sig ==
    [main |-> <<Block({"USR1"}), Handle("USR1", "ret"), MqNotify("mq"),
                Sigsuspend("empty"), MqNotify("mq"), MqReceive("mq", 2),
                Jump(-1), Jump(-4)>>,
     user |-> <<Registered("mq")>> \o pmsg_send]
mq_notify_via_signal ==
    [main |-> <<Set("flag", 1), Handle("USR1", "flag"), Skip("flag", 1, 2),
                Jump(-1), Set("flag", 0), MqNotify("mq"), MqReceive("mq", 2),
                Jump(-1), Jump(-6)>>,
     user |-> pmsg_send]

is_echo_sv ==
    <<Handle("CHLD", "reap"), Set("ready", 1), Accept("p"), Fork("s1", 1),
      Close("p", "r"), Close("q", "w"), Jump(-4)>>
handleRequest == <<Read("p", 3), Write("q"), Jump(-2), Exit>>
is_echo_cl == <<Await("ready"), Connect("p", "q"), Fork("c1", 0)>>
              \o Repeat(Loops, <<Write("p")>>) \o <<Shutdown("p"), Exit>>
is_echo_cl_child == <<Read("q", 2), Jump(-1), Exit>>
is_echo == [main |-> is_echo_sv, s1 |-> handleRequest, client |-> is_echo_cl,
            c1 |-> is_echo_cl_child]

-----------------------------------------------------------------------------
AllPrograms ==
    [fork_sig_sync |-> fork_sig_sync, fork_whos_on_first |-> fork_whos_on_first,
     fork_file_sharing |-> fork_file_sharing, exercise_26_1 |-> exercise_26_1,
     exercise_26_2 |-> exercise_26_2, orphan |-> orphan,
     make_zombie |-> make_zombie, multi_wait |-> multi_wait,
     waitpid |-> waitpid_c, t_system |-> t_system,
     system_reaper |-> system_caller("ret", "reap"),
     system_ignorer |-> system_caller("ign", "dfl"),
     system_default |-> system_caller("dfl", "dfl"),
     exercise_34_2 |-> exercise_34_2, exercise_34_3 |-> exercise_34_3,
     orphaned_pgrp_SIGHUP |-> orphaned_pgrp_SIGHUP, setpgrp |-> setpgrp,
     setsid |-> setsid_c, tcsetpgrp |-> tcsetpgrp_c,
     become_daemon |-> becomeDaemon, simple_init |-> simple_init,
     userns_child_exec |-> userns_child_exec, pipe_sync |-> pipe_sync,
     pipe_sync_dist |-> pipe_sync_dist, simple_pipe |-> simple_pipe,
     ls_ws |-> ls_ws, pipe_ls_wc |-> pipe_ls_wc, change_case |-> change_case,
     popen_read |-> demonstratePopenRead, popen_write |-> demonstratePopenWrite,
     popen_head |-> demonstrateLargeDataProcessing, sigpending |-> sigpending,
     sig_abort |-> sig_abort, exercise_21_1 |-> exercise_21_1,
     t_sigsuspend |-> t_sigsuspend, t_sigsuspend_dist |-> t_sigsuspend_dist,
     t_sigsuspend_pause |-> t_sigsuspend_pause,
     timed_read |-> timed_read("ret"),
     timed_read_restart |-> timed_read("restart"),
     sig_speed_sigsuspend |-> sig_speed_sigsuspend, self_pipe |-> self_pipe,
     svshm_xfr |-> svshm_xfr, svsem_good_init |-> Twice(svsem_good_init),
     svsem_bad_init |-> Twice(svsem_bad_init), anon_mmap |-> anon_mmap,
     catch_SIGHUP |-> catch_SIGHUP, disc_SIGHUP |-> disc_SIGHUP,
     ignore_pending_sig |-> ignore_pending_sig, svmsg_file |-> svmsg_file,
     mq_notify_sig |-> mq_notify_sig,
     mq_notify_via_signal |-> mq_notify_via_signal, is_echo |-> is_echo]

Results == [svshm_xfr |-> [out |-> {Loops}],
            svmsg_file |-> [out |-> {Loops}, out2 |-> {Loops}],
            svsem_good_init |-> [sem |-> {2}], svsem_bad_init |-> [sem |-> {1, 2}]]
=============================================================================
