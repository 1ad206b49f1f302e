------------------------------ MODULE Processes ------------------------------
(***************************************************************************)
(* Processes that make the system calls of a program: one action per kind  *)
(* of call.  Which program runs is chosen in the initial state; Code has   *)
(* the calls of its processes (module ProcessPrograms).  A call that fails *)
(* ends the process in errExit(), or goes on where the program handles the *)
(* failure.  sleep() is left out: a process may be delayed at any call, so *)
(* no program may rely on a sleep for the order of two steps.  Those that  *)
(* do are named in Timed.                                                  *)
(***************************************************************************)
EXTENDS Integers, Sequences, FiniteSets

CONSTANTS Code,         \* program -> process -> sequence of calls
          Vars,         \* shared memory, semaphores, files, marks
          BinarySems,   \* the semaphores of binary_sems.c
          Pipes,
          Queues,       \* message queues
          QueueSize,    \* bound: queue -> messages it holds
          Signals,
          Outcomes,     \* program -> variable -> values when all has ended
          MayFail,      \* <<program, process>>: may end in errExit() unprovoked
          MayHang,      \* programs with a lost wakeup
          Fragile,      \* programs that hang when a call of a partner fails
          Servers,      \* <<program, process>>: serves for ever
          Stops,        \* programs that leave a process stopped
          Timed,        \* <<program, process>>: relies on a sleep()
          Killable,     \* <<program, process>>: may be killed at any time
          MaxFaults     \* bound: system calls that fail for no reason

ASSUME ProcessAssumption ==
    /\ \A g \in DOMAIN Code : "main" \in DOMAIN Code[g]
    /\ BinarySems \subseteq Vars /\ "semid" \in Vars
    /\ DOMAIN Outcomes \subseteq DOMAIN Code /\ MaxFaults \in Nat
    /\ QueueSize \in [Queues -> Nat \ {0}]

VARIABLES prog,         \* the program
          code,         \* its code
          ps,           \* the process table
          pipes,        \* bytes in every pipe
          queues,       \* the messages of every queue, and who is notified
          mem,          \* the shared variables
          tty,          \* foreground process group of the terminal
          faults        \* calls that failed

program == <<prog, code>>
vars == <<program, ps, pipes, queues, mem, tty, faults>>

Procs == DOMAIN code
Live == {"run", "block", "eintr", "stop"}
Terminating == Signals \ {"CHLD", "CONT", "STOP", "TTOU"}
Dfl == [s \in Signals |-> "dfl"]

(* A process: state, next call, how it ended, parent, process group and    *)
(* session, signal mask (and the one a call or the program has saved),     *)
(* dispositions, pending signals, open ends of pipes, alarm; and what      *)
(* system() found when it was called.                                      *)
Started(p) ==
    [st |-> "run", pc |-> 1, how |-> "", ppid |-> "shell", pgid |-> p,
     sid |-> "shell", mask |-> {}, smask |-> {}, bmask |-> {}, disp |-> Dfl,
     sdisp |-> Dfl, pend |-> {}, fds |-> {}, execed |-> FALSE,
     alarm |-> FALSE, entry |-> <<>>]

Forked == {c \in Procs : \E p \in Procs : \E i \in DOMAIN code[p] :
                            code[p][i].op = "fork" /\ code[p][i].x = c}

Init ==
    /\ prog \in DOMAIN Code /\ code = Code[prog]
    /\ ps = [p \in Procs |->
               [Started(p) EXCEPT !.st = IF p \in Forked THEN "none" ELSE @]]
    /\ pipes = [q \in Pipes |-> 0]
    /\ queues = [q \in Queues |-> [up |-> TRUE, msgs |-> <<>>, notify |-> {}]]
    /\ mem = [v \in Vars |-> 0]
    /\ tty = "main"
    /\ faults = 0

-----------------------------------------------------------------------------
(* Signals.  An ignored one is discarded unless it is blocked.             *)
Ignores(r, s) == r.disp[s] = "ign" \/ (r.disp[s] = "dfl" /\ s = "CHLD")

Signaled(T, Q, s) ==
    [q \in Procs |->
       IF q \notin Q \/ T[q].st \notin Live THEN T[q]
       ELSE [T[q] EXCEPT
               !.st = IF s \in {"CONT", "KILL"} /\ @ = "stop" THEN "run" ELSE @,
               !.pend = IF Ignores(T[q], s) /\ s \notin T[q].mask THEN @
                        ELSE IF s = "CONT" THEN (@ \ {"STOP", "TTOU"}) \cup {s}
                        ELSE @ \cup {s}]]

Deliverable(p) == ps[p].pend \ (ps[p].mask \ {"KILL", "STOP"})

(* A process group is orphaned if no member has its parent in another      *)
(* group of the session.                                                   *)
Members(T, g) == {q \in Procs : T[q].st \in Live /\ T[q].pgid = g}
Orphaned(T, g) ==
    \A q \in Members(T, g) :
        LET r == T[q].ppid IN
        \/ r = "init"
        \/ r = "shell" /\ T[q].sid # "shell"
        \/ r \in Procs /\ (T[r].pgid = g \/ T[r].sid # T[q].sid)

(* The end of a process: its descriptors are closed, init adopts its       *)
(* children, its parent gets SIGCHLD, and the stopped members of a group   *)
(* that is orphaned by it get SIGHUP and SIGCONT.                          *)
Exited(T, p, how) ==
    [q \in Procs |->
       IF q = p THEN [T[p] EXCEPT !.st = IF T[p].ppid \in Procs THEN "zombie"
                                         ELSE "reaped",
                                  !.how = how, !.fds = {}, !.pend = {}]
       ELSE IF T[q].ppid = p
       THEN [T[q] EXCEPT !.ppid = "init",
                         !.st = IF @ = "zombie" THEN "reaped" ELSE @]
       ELSE T[q]]

Hangup(T, U, G) ==
    LET H == {g \in G : /\ ~Orphaned(T, g) /\ Orphaned(U, g)
                        /\ \E q \in Members(U, g) : U[q].st = "stop"}
        Q == UNION {Members(U, g) : g \in H}
    IN  Signaled(Signaled(U, Q, "HUP"), Q, "CONT")

Ends(T, p, how) ==
    LET U == Exited(T, p, how)
        V == Hangup(T, U, {T[q].pgid : q \in {p} \cup
                                {r \in Procs : T[r].ppid = p}})
    IN  Signaled(V, {T[p].ppid} \cap Procs, "CHLD")

(* Handlers, as one step each: "ret" and "restart" return, "flag" leaves a *)
(* mark, "exit" ends the process, "reap" waits for every zombie, "pipe"    *)
(* writes to the pipe "self".                                              *)
InInput(p) == code[p][ps[p].pc].op = "input"
Caught(p) ==
    LET h(s) == ps[p].disp[s]
        st == IF ps[p].st = "block" THEN "eintr" ELSE ps[p].st
    IN \E s \in Deliverable(p) :
         LET T == [ps EXCEPT ![p].pend = @ \ {s}] IN
         /\ h(s) \notin {"dfl", "ign"}
         /\ ps' = CASE h(s) = "exit" -> Ends(T, p, "exit")
                    [] h(s) = "restart" /\ st = "eintr" /\ InInput(p) -> T
                    [] h(s) = "reap" ->
                         [q \in Procs |->
                            IF q = p THEN [T[p] EXCEPT !.st = st]
                            ELSE IF T[q].ppid = p /\ T[q].st = "zombie"
                            THEN [T[q] EXCEPT !.st = "reaped"] ELSE T[q]]
                    [] OTHER -> [T EXCEPT ![p].st = st]
         /\ mem' = IF h(s) = "flag" THEN [mem EXCEPT !["flag"] = 1] ELSE mem
         /\ pipes' = IF h(s) = "pipe" THEN [pipes EXCEPT !["self"] = @ + 1]
                     ELSE pipes

Deliver(p) ==
    /\ ps[p].st \in Live
    /\ \/ Caught(p)
       \/ /\ \E s \in Deliverable(p) :
               LET T == [ps EXCEPT ![p].pend = @ \ {s}] IN
               /\ ps[p].disp[s] \in {"dfl", "ign"}
               /\ ps' = IF Ignores(ps[p], s) \/ s = "CONT" THEN T
                        ELSE IF s \in Terminating THEN Ends(T, p, "killed")
                        ELSE [T EXCEPT ![p].st = "stop"]
          /\ UNCHANGED <<mem, pipes>>
    /\ ps[p].st = "stop" => "KILL" \in Deliverable(p)
    /\ UNCHANGED <<program, queues, tty, faults>>

-----------------------------------------------------------------------------
(* The next call.  A signal is handled before it.                          *)
Runs(p) == ps[p].st = "run" /\ Deliverable(p) = {}
Returns(p) == ps[p].pc > Len(code[p])
NextCall(p) == code[p][ps[p].pc]
Calls(p, op) == Runs(p) /\ ~Returns(p) /\ NextCall(p).op = op
X(p) == NextCall(p).x
N(p) == NextCall(p).n
On(T, p, n) == [T EXCEPT ![p].pc = @ + n]

(* A call that fails: the k calls to go on, or the end in errExit().       *)
Fails(T, p) == IF NextCall(p).k = 0 THEN Ends(T, p, "failed")
               ELSE On(T, p, NextCall(p).k)

Open(q, e) == {p \in Procs : \E d \in {"pfd", "std"} : <<q, e, d>> \in ps[p].fds}

Rest == <<program, pipes, queues, mem, tty, faults>>

fork(p) ==
    /\ Calls(p, "fork")
    /\ \/ /\ ps' = [On(ps, p, 1) EXCEPT ![X(p)] =
                      [ps[p] EXCEPT !.pc = 1, !.ppid = p, !.pend = {},
                                    !.alarm = FALSE]]
          /\ UNCHANGED faults
       \/ /\ faults < MaxFaults /\ faults' = faults + 1
          /\ ps' = Fails(ps, p)
    /\ UNCHANGED <<program, pipes, queues, mem, tty>>

(* exec: a handler does not survive; the calls that follow are those of    *)
(* the new program.                                                        *)
exec(p) ==
    /\ Calls(p, "exec")
    /\ \/ /\ ps' = [On(ps, p, 1) EXCEPT ![p].execed = TRUE,
                      ![p].disp = [s \in Signals |->
                                     IF @[s] = "ign" THEN "ign" ELSE "dfl"]]
          /\ UNCHANGED faults
       \/ /\ faults < MaxFaults /\ faults' = faults + 1
          /\ ps' = Fails(ps, p)
    /\ UNCHANGED <<program, pipes, queues, mem, tty>>

(* A step of the program that may fail. *)
try(p) ==
    /\ Calls(p, "try")
    /\ \/ /\ mem' = [mem EXCEPT ![X(p)] = 1]
          /\ ps' = On(ps, p, 1) /\ UNCHANGED faults
       \/ /\ faults < MaxFaults /\ faults' = faults + 1
          /\ ps' = Fails(ps, p) /\ UNCHANGED mem
    /\ UNCHANGED <<program, pipes, queues, tty>>

exit(p) ==
    /\ \/ /\ (Runs(p) /\ Returns(p)) \/ Calls(p, "exit")
          /\ ps' = Ends(ps, p, "exit")
       \/ Calls(p, "fatal") /\ ps' = Ends(ps, p, "failed")
    /\ UNCHANGED Rest

wait(p) ==
    /\ Calls(p, "wait") \/ Calls(p, "wait_nohang")
    /\ LET kids == {q \in Procs : /\ ps[q].ppid = p /\ X(p) \in {"any", q}
                                  /\ ps[q].st \in Live \cup {"zombie"}}
           dead == {q \in kids : ps[q].st = "zombie"}
       IN \/ \E q \in dead : ps' = [On(ps, p, 1) EXCEPT ![q].st = "reaped"]
          \/ kids = {} /\ ps' = Fails(ps, p)
          \/ /\ kids # {} /\ dead = {} /\ NextCall(p).op = "wait_nohang"
             /\ ps' = On(ps, p, 1)
    /\ UNCHANGED Rest

-----------------------------------------------------------------------------
(* Signal calls. *)
mask(p) ==
    /\ \/ /\ Calls(p, "block")
          /\ ps' = [On(ps, p, 1) EXCEPT ![p].mask = @ \cup X(p),
                                        ![p].smask = ps[p].mask]
       \/ /\ Calls(p, "restore_mask")
          /\ ps' = [On(ps, p, 1) EXCEPT ![p].mask = ps[p].smask]
       \/ /\ Calls(p, "uninitialized")
          /\ \E S \in SUBSET X(p) : ps' = [On(ps, p, 1) EXCEPT ![p].smask = S]
    /\ UNCHANGED Rest

sigaction(p) ==
    /\ \/ /\ Calls(p, "sigaction")    \* to ignore a signal drops a pending one
          /\ ps' = [On(ps, p, 1) EXCEPT
                      ![p].pend = IF N(p) = "ign" THEN @ \ {X(p)} ELSE @,
                      ![p].disp[X(p)] = N(p),
                      ![p].sdisp[X(p)] = ps[p].disp[X(p)]]
       \/ /\ Calls(p, "restore_action")
          /\ ps' = [On(ps, p, 1) EXCEPT ![p].disp[X(p)] = ps[p].sdisp[X(p)]]
       \/ /\ Calls(p, "default_unless_ignored")
          /\ ps' = [On(ps, p, 1) EXCEPT
                      ![p].disp[X(p)] = IF ps[p].sdisp[X(p)] # "ign"
                                        THEN "dfl" ELSE @]
    /\ UNCHANGED Rest

(* kill: X is a process, "ppid" or "group" for the group of the process.   *)
(* Nobody may send a signal to init.                                       *)
kill(p) ==
    /\ Calls(p, "kill")
    /\ LET t == IF X(p) = "ppid" THEN ps[p].ppid ELSE X(p)
           Q == IF X(p) = "group" THEN Members(ps, tty) ELSE {t} \cap Procs
       IN ps' = IF Q # {} /\ \A q \in Q : ps[q].st \notin {"none", "reaped"}
                THEN Signaled(On(ps, p, 1), Q, N(p)) ELSE Fails(ps, p)
    /\ UNCHANGED Rest

(* Calls that wait for a signal or for the user.  sigsuspend() sets the    *)
(* mask while it waits.                                                    *)
Blocking == {"pause", "sigsuspend", "input", "notify"}
block(p) ==
    /\ \E op \in Blocking : Calls(p, op)
    /\ NextCall(p).op = "notify" => Open("notify", "r") # {}
    /\ ps' = [ps EXCEPT ![p].st = "block", ![p].bmask = ps[p].mask,
                        ![p].mask = IF NextCall(p).op # "sigsuspend" THEN @
                                    ELSE IF X(p) = "saved" THEN ps[p].smask
                                    ELSE {}]
    /\ UNCHANGED Rest

Back(p) == [ps EXCEPT ![p].st = "run", ![p].pc = @ + 1,
                      ![p].mask = ps[p].bmask]

Interrupted(p) ==
    /\ ps[p].st = "eintr" /\ Deliverable(p) = {}
    /\ ps' = IF NextCall(p).op = "notify"
             THEN Fails([ps EXCEPT ![p].st = "run"], p) ELSE Back(p)
    /\ UNCHANGED Rest

UserTypes(p) ==
    /\ ps[p].st = "block" /\ NextCall(p).op = "input" /\ Deliverable(p) = {}
    /\ ps' = Back(p)
    /\ UNCHANGED Rest

alarm(p) ==
    /\ Calls(p, "alarm")
    /\ ps' = [On(ps, p, 1) EXCEPT ![p].alarm = N(p)]
    /\ UNCHANGED Rest

AlarmRings(p) ==
    /\ ps[p].st \in Live /\ ps[p].alarm
    /\ ps' = Signaled([ps EXCEPT ![p].alarm = FALSE], {p}, "ALRM")
    /\ UNCHANGED Rest

(* sigwaitinfo(), and a read() from a signalfd: takes a pending signal; an *)
(* INT or TERM goes on k calls later.                                      *)
sigwait(p) ==
    /\ Calls(p, "sigwait")
    /\ \E s \in ps[p].pend \cap X(p) :
         ps' = [On(ps, p, IF s \in {"INT", "TERM"} THEN NextCall(p).k ELSE 1)
                  EXCEPT ![p].pend = @ \ {s}]
    /\ UNCHANGED Rest

-----------------------------------------------------------------------------
(* Pipes.  An end is <<pipe, "r" or "w", which descriptor>>.               *)
pipe(p) ==
    /\ Calls(p, "pipe")
    /\ ps' = [On(ps, p, 1) EXCEPT ![p].fds =
                @ \cup {<<X(p), "r", "pfd">>, <<X(p), "w", "pfd">>}]
    /\ UNCHANGED Rest

dup2(p) ==
    /\ Calls(p, "dup2")
    /\ ps' = [On(ps, p, 1) EXCEPT ![p].fds = @ \cup {<<X(p), N(p), "std">>}]
    /\ UNCHANGED Rest

close(p) ==
    /\ Calls(p, "close")
    /\ ps' = [On(ps, p, 1) EXCEPT ![p].fds = @ \ {<<X(p), N(p), "pfd">>}]
    /\ UNCHANGED Rest

close_all(p) ==
    /\ Calls(p, "close_all")
    /\ ps' = [On(ps, p, 1) EXCEPT ![p].fds = {}]
    /\ UNCHANGED Rest

(* A write is taken to fit into the pipe: PIPE_BUF bytes at most, and the  *)
(* programs write far less than the pipe holds before somebody reads.      *)
write(p) ==
    /\ Calls(p, "write")
    /\ IF Open(X(p), "r") = {}
       THEN ps' = Signaled(On(ps, p, 1), {p}, "PIPE") /\ UNCHANGED pipes
       ELSE ps' = On(ps, p, 1) /\ pipes' = [pipes EXCEPT ![X(p)] = @ + 1]
    /\ UNCHANGED <<program, queues, mem, tty, faults>>

(* A read waits for data or for the end of file, when it goes on k calls   *)
(* later.  "poll" is select() and "drain" reads until EAGAIN.              *)
read(p) ==
    /\ \/ /\ Calls(p, "read") /\ pipes[X(p)] > 0
          /\ pipes' = [pipes EXCEPT ![X(p)] = @ - 1] /\ ps' = On(ps, p, 1)
       \/ /\ Calls(p, "read") /\ pipes[X(p)] = 0 /\ Open(X(p), "w") = {}
          /\ ps' = Fails(ps, p) /\ UNCHANGED pipes
       \/ /\ Calls(p, "poll") /\ pipes[X(p)] > 0
          /\ ps' = On(ps, p, 1) /\ UNCHANGED pipes
       \/ /\ Calls(p, "drain")
          /\ ps' = On(ps, p, 1) /\ pipes' = [pipes EXCEPT ![X(p)] = 0]
    /\ UNCHANGED <<program, queues, mem, tty, faults>>

(* select() waits for two descriptors; "isset" is FD_ISSET() after it.  A  *)
(* terminal that is not open yet has no end of file.                       *)
Readable(p, q) == pipes[q] > 0 \/ (Open(q, "w") = {} /\ p \in Open(q, "r"))
select(p) ==
    /\ \/ /\ Calls(p, "select")
          /\ \E q \in {X(p), N(p)} : Readable(p, q)
          /\ ps' = On(ps, p, 1)
       \/ /\ Calls(p, "isset")
          /\ ps' = On(ps, p, IF Readable(p, X(p)) THEN 1 ELSE NextCall(p).k)
    /\ UNCHANGED Rest

(* An exclusive lock of a file is an end of kind "l": it goes when it is   *)
(* closed or its owner ends.                                               *)
lock(p) ==
    /\ Calls(p, "lock") \/ Calls(p, "trylock")
    /\ LET free == Open(X(p), "l") \subseteq {p} IN
       \/ free /\ ps' = [On(ps, p, 1) EXCEPT ![p].fds = @ \cup {<<X(p), "l", "pfd">>}]
       \/ ~free /\ NextCall(p).op = "trylock" /\ ps' = Fails(ps, p)
    /\ UNCHANGED Rest

(* A stream socket is a pair of pipes: to the server (X) and back (N).     *)
(* The server owns its ends from connect() on, before it accepts them.     *)
(* shutdown() closes the writing side, whoever else has the socket open.   *)
connect(p) ==
    /\ Calls(p, "connect")
    /\ LET T == [On(ps, p, 1) EXCEPT ![p].fds =
                   @ \cup {<<X(p), "w", "pfd">>, <<N(p), "r", "pfd">>}]
       IN  ps' = IF ps["main"].st \notin Live THEN Fails(ps, p)
                 ELSE [T EXCEPT !["main"].fds =
                         @ \cup {<<X(p), "r", "pfd">>, <<N(p), "w", "pfd">>}]
    /\ UNCHANGED Rest

(* accept() of one connection or of either of two.                         *)
accept(p) ==
    /\ \/ /\ Calls(p, "accept") \/ Calls(p, "accept_either")
          /\ <<X(p), "r", "pfd">> \in ps[p].fds /\ ps' = On(ps, p, 1)
       \/ /\ Calls(p, "accept_either")
          /\ <<N(p), "r", "pfd">> \in ps[p].fds
          /\ ps' = On(ps, p, NextCall(p).k)
    /\ UNCHANGED Rest

(* A descriptor that is sent over a socket is the receiver's, who is       *)
(* "main", from then on, before it takes it.                               *)
sendfd(p) ==
    /\ Calls(p, "sendfd")
    /\ ps' = [On(ps, p, 1) EXCEPT !["main"].fds = @ \cup {<<N(p), "r", "pfd">>}]
    /\ pipes' = [pipes EXCEPT ![X(p)] = @ + 1]
    /\ UNCHANGED <<program, queues, mem, tty, faults>>

shutdown(p) ==
    /\ Calls(p, "shutdown")
    /\ ps' = [q \in Procs |-> [On(ps, p, 1)[q] EXCEPT
                                 !.fds = @ \ {<<X(p), "w", "pfd">>}]]
    /\ UNCHANGED Rest

(* A seccomp filter with user notification: a process that makes the       *)
(* system call waits in "notify" until whoever has the listener answers.   *)
(* Without a listener, and when a signal interrupts it, the call fails.    *)
(* The place of the call serves as the ID of the notification.             *)
Notifying(i) == {q \in Procs : /\ ps[q].st = "block" /\ ps[q].pc = i
                               /\ NextCall(q).op = "notify"}
notification(p) ==
    LET current == Notifying(mem["req"]) IN
    /\ \/ /\ Calls(p, "listen") /\ UNCHANGED mem
          /\ ps' = [On(ps, p, 1) EXCEPT ![p].fds = @ \cup {<<"notify", "r", "pfd">>}]
       \/ /\ Calls(p, "notif_recv")
          /\ \E q \in Procs : /\ q \in Notifying(ps[q].pc)
                              /\ mem' = [mem EXCEPT !["req"] = ps[q].pc]
          /\ ps' = On(ps, p, 1)
       \/ /\ Calls(p, "notif_id_valid") /\ UNCHANGED mem
          /\ ps' = IF current # {} THEN On(ps, p, 1) ELSE Fails(ps, p)
       \/ /\ Calls(p, "notif_send") /\ UNCHANGED mem
          /\ ps' = IF current = {} THEN Fails(ps, p)
                   ELSE [q \in Procs |-> IF q \in current
                           THEN [ps[q] EXCEPT !.st = "run", !.pc = @ + 1]
                           ELSE On(ps, p, 1)[q]]
       \/ /\ ps[p].st \in {"run", "block"} /\ ~Returns(p) /\ Deliverable(p) = {}
          /\ NextCall(p).op = "notify" /\ Open("notify", "r") = {}
          /\ ps' = Fails([ps EXCEPT ![p].st = "run"], p) /\ UNCHANGED mem
    /\ UNCHANGED <<program, pipes, queues, tty, faults>>

-----------------------------------------------------------------------------
(* Message queues.  A message is a number.  A send waits while the queue   *)
(* is full, a receive while it is empty; either fails when the queue was   *)
(* removed.  The process that mq_notify() registered gets one signal, when *)
(* a message comes to an empty queue, and is then no longer registered.    *)
queue(p) ==
    LET q == queues[X(p)]
        m == q.msgs
        U == [queues EXCEPT ![X(p)].msgs = Append(@, N(p))]
    IN  /\ \/ /\ (Calls(p, "msgsnd") \/ Calls(p, "msgrcv")) /\ ~q.up
              /\ ps' = Fails(ps, p) /\ UNCHANGED <<queues, mem>>
           \/ /\ Calls(p, "msgsnd") /\ q.up /\ Len(m) < QueueSize[X(p)]
              /\ IF m = <<>>
                 THEN /\ ps' = Signaled(On(ps, p, 1), q.notify, "USR1")
                      /\ queues' = [U EXCEPT ![X(p)].notify = {}]
                 ELSE ps' = On(ps, p, 1) /\ queues' = U
              /\ UNCHANGED mem
           \/ /\ Calls(p, "msgrcv") /\ q.up /\ m # <<>>
              /\ mem' = [mem EXCEPT ![N(p)] = Head(m)]
              /\ queues' = [queues EXCEPT ![X(p)].msgs = Tail(m)]
              /\ ps' = On(ps, p, 1)
           \/ /\ Calls(p, "msgctl")                \* IPC_RMID
              /\ queues' = [queues EXCEPT ![X(p)].up = FALSE,
                                          ![X(p)].msgs = <<>>]
              /\ ps' = On(ps, p, 1) /\ UNCHANGED mem
           \/ /\ Calls(p, "mq_notify")
              /\ IF q.notify # {} THEN ps' = Fails(ps, p) /\ UNCHANGED queues
                 ELSE /\ ps' = On(ps, p, 1)
                      /\ queues' = [queues EXCEPT ![X(p)].notify = {p}]
              /\ UNCHANGED mem
           \/ /\ Calls(p, "mq_receive")            \* O_NONBLOCK
              /\ IF m = <<>> THEN ps' = Fails(ps, p) /\ UNCHANGED queues
                 ELSE /\ ps' = On(ps, p, 1)
                      /\ queues' = [queues EXCEPT ![X(p)].msgs = Tail(m)]
              /\ UNCHANGED mem
        /\ UNCHANGED <<program, pipes, tty, faults>>

(* A datagram socket is the queue with the name of its owner.  A datagram  *)
(* to a UNIX domain socket ("sendto") is not lost, and waits for room; one *)
(* to an Internet socket ("sendto_udp") may be, and is when nobody is      *)
(* there.                                                                  *)
sendto(p) ==
    LET there == ps[X(p)].st \in Live
        room == Len(queues[X(p)].msgs) < QueueSize[X(p)]
        sent == queues' = [queues EXCEPT ![X(p)].msgs = Append(@, N(p))]
    IN  /\ \/ /\ Calls(p, "sendto") \/ Calls(p, "sendto_udp")
              /\ there /\ room /\ sent /\ ps' = On(ps, p, 1) /\ UNCHANGED faults
           \/ /\ Calls(p, "sendto") /\ ~there
              /\ ps' = Fails(ps, p) /\ UNCHANGED <<queues, faults>>
           \/ /\ Calls(p, "sendto_udp") /\ there
              /\ faults < MaxFaults /\ faults' = faults + 1
              /\ ps' = On(ps, p, 1) /\ UNCHANGED queues
           \/ /\ Calls(p, "sendto_udp") /\ ~there
              /\ ps' = On(ps, p, 1) /\ UNCHANGED <<queues, faults>>
        /\ UNCHANGED <<program, pipes, mem, tty>>

-----------------------------------------------------------------------------
(* Process groups, sessions and the terminal. *)
setpgid(p) ==
    /\ Calls(p, "setpgid")
    /\ LET t == X(p)
           ok == /\ ps[t].st \notin {"none", "reaped"}
                 /\ t = p \/ (ps[t].ppid = p /\ ~ps[t].execed)
                 /\ ps[t].sid = ps[p].sid /\ ps[t].sid # t
                 /\ \/ N(p) = t
                    \/ \E q \in Procs : /\ ps[q].st \notin {"none", "reaped"}
                                        /\ ps[q].pgid = N(p)
                                        /\ ps[q].sid = ps[p].sid
       IN ps' = IF ok THEN [On(ps, p, 1) EXCEPT ![t].pgid = N(p)]
                ELSE Fails(ps, p)
    /\ UNCHANGED Rest

setsid(p) ==
    /\ Calls(p, "setsid")
    /\ ps' = IF \E q \in Procs : /\ ps[q].st \notin {"none", "reaped"}
                                 /\ ps[q].pgid = p
             THEN Fails(ps, p)
             ELSE [On(ps, p, 1) EXCEPT ![p].sid = p, ![p].pgid = p]
    /\ UNCHANGED Rest

(* A background process that changes the foreground group is stopped and,  *)
(* once continued, tries again.                                            *)
tcsetpgrp(p) ==
    /\ Calls(p, "tcsetpgrp")
    /\ LET background == /\ ps[p].pgid # tty /\ "TTOU" \notin ps[p].mask
                         /\ ps[p].disp["TTOU"] # "ign"
       IN IF background /\ ~Orphaned(ps, ps[p].pgid)
          THEN ps' = Signaled(ps, Members(ps, ps[p].pgid), "TTOU")
               /\ UNCHANGED tty
          ELSE IF background \/ Members(ps, X(p)) = {}
          THEN ps' = Fails(ps, p) /\ UNCHANGED tty
          ELSE ps' = On(ps, p, 1) /\ tty' = X(p)
    /\ UNCHANGED <<program, pipes, queues, mem, faults>>

-----------------------------------------------------------------------------
(* Shared memory, semaphores and the control of the program.               *)
memory(p) ==
    /\ \/ Calls(p, "set") /\ mem' = [mem EXCEPT ![X(p)] = N(p)]
       \/ /\ Calls(p, "copy")           \* the next block, in order
          /\ mem' = [mem EXCEPT ![N(p)] = IF mem[X(p)] = @ + 1 THEN @ + 1
                                          ELSE -1]
       \/ /\ Calls(p, "raise")          \* to X + k, never down
          /\ mem' = [mem EXCEPT ![N(p)] = IF @ < mem[X(p)] + NextCall(p).k
                                          THEN mem[X(p)] + NextCall(p).k ELSE @]
    /\ ps' = On(ps, p, 1)
    /\ UNCHANGED <<program, pipes, queues, tty, faults>>

branch(p) ==
    /\ \/ /\ Calls(p, "skip")
          /\ ps' = On(ps, p, IF mem[X(p)] >= N(p) THEN NextCall(p).k ELSE 1)
       \/ Calls(p, "jump") /\ ps' = On(ps, p, N(p))
       \/ Calls(p, "await") /\ mem[X(p)] = 1 /\ ps' = On(ps, p, 1)
       \/ /\ Calls(p, "registered") /\ queues[X(p)].notify # {}
          /\ ps' = On(ps, p, 1)
       \/ Calls(p, "orphan") /\ ps[p].ppid \notin Procs /\ ps' = On(ps, p, 1)
       \/ /\ Calls(p, "vforked")         \* the child has the memory until then
          /\ ps[X(p)].execed \/ ps[X(p)].st \notin Live
          /\ ps' = On(ps, p, 1)
    /\ UNCHANGED Rest

(* A semaphore set exists from semget() to semctl(IPC_RMID); its first     *)
(* semop() sets the time of the last operation.                            *)
semaphore(p) ==
    LET exists == mem["semid"] = 1
        Result(v, n) == /\ ps' = IF exists THEN On(ps, p, 1) ELSE Fails(ps, p)
                        /\ mem' = IF exists THEN [mem EXCEPT ![v] = n] ELSE mem
    IN  /\ \/ /\ Calls(p, "semget_excl")
              /\ IF exists THEN ps' = Fails(ps, p) /\ UNCHANGED mem
                 ELSE /\ mem' = [mem EXCEPT !["semid"] = 1]
                      /\ ps' = On(ps, p, 1)
           \/ Calls(p, "semget") /\ Result("semid", 1)
           \/ Calls(p, "semctl") /\ Result(X(p), N(p))
           \/ /\ Calls(p, "semop")
              /\ exists => IF N(p) = 0 THEN mem[X(p)] = 0
                           ELSE mem[X(p)] + N(p) >= 0
              /\ ps' = IF exists THEN On(ps, p, 1) ELSE Fails(ps, p)
              /\ mem' = IF exists THEN [mem EXCEPT ![X(p)] = @ + N(p),
                                                   !["otime"] = 1] ELSE mem
        /\ UNCHANGED <<program, pipes, queues, tty, faults>>

(* What the program takes for granted at this point (the properties say    *)
(* what), and what system() finds when it is called.                       *)
Points == {"claim", "daemon", "leave"}
pass(p) ==
    /\ \/ \E op \in Points : Calls(p, op) /\ ps' = On(ps, p, 1)
       \/ /\ Calls(p, "enter")
          /\ ps' = [On(ps, p, 1) EXCEPT ![p].entry = <<ps[p].mask, ps[p].disp>>]
    /\ UNCHANGED Rest

-----------------------------------------------------------------------------
ProcessStep(p) ==
    \/ Deliver(p) \/ Interrupted(p) \/ AlarmRings(p)
    \/ fork(p) \/ exec(p) \/ try(p) \/ exit(p) \/ wait(p)
    \/ mask(p) \/ sigaction(p) \/ kill(p) \/ block(p) \/ alarm(p)
    \/ pipe(p) \/ dup2(p) \/ close(p) \/ close_all(p) \/ write(p) \/ read(p)
    \/ select(p) \/ lock(p) \/ sigwait(p) \/ notification(p)
    \/ connect(p) \/ accept(p) \/ shutdown(p) \/ sendfd(p) \/ queue(p) \/ sendto(p)
    \/ setpgid(p) \/ setsid(p) \/ tcsetpgrp(p)
    \/ memory(p) \/ branch(p) \/ semaphore(p) \/ pass(p)

(* Somebody kills the process. *)
Crash(p) ==
    /\ ps[p].st \in Live /\ <<prog, p>> \in Killable
    /\ faults < MaxFaults /\ faults' = faults + 1
    /\ ps' = Ends(ps, p, "killed")
    /\ UNCHANGED <<program, pipes, queues, mem, tty>>

Next == \E p \in Procs : ProcessStep(p) \/ UserTypes(p) \/ Crash(p)

AllProcs == UNION {DOMAIN Code[g] : g \in DOMAIN Code}

(* Every process that can run goes on, and an alarm that is set rings; the *)
(* user need not type anything.                                            *)
Spec == Init /\ [][Next]_vars
             /\ WF_vars(\E p \in Procs : AlarmRings(p))
             /\ \A p \in AllProcs : WF_vars(p \in Procs /\ ProcessStep(p))

-----------------------------------------------------------------------------
(* Type correctness: in particular, the semaphores of the binary semaphore *)
(* protocol (binary_sems.c) are never above 1, and no process goes past    *)
(* the end of its code.                                                    *)
TypeOK ==
    /\ prog \in DOMAIN Code /\ code = Code[prog]
    /\ \A p \in Procs :
         /\ ps[p].st \in Live \cup {"none", "zombie", "reaped"}
         /\ ps[p].pc \in 1..Len(code[p]) + 1
         /\ ps[p].how \in {"", "exit", "failed", "killed"}
         /\ ps[p].ppid \in Procs \cup {"shell", "init"}
         /\ {ps[p].pgid, ps[p].sid, tty} \subseteq Procs \cup {"shell"}
         /\ ps[p].mask \cup ps[p].smask \cup ps[p].pend \subseteq Signals
         /\ ps[p].fds \subseteq Pipes \X {"r", "w", "l"} \X {"pfd", "std"}
    /\ pipes \in [Pipes -> Nat] /\ mem \in [Vars -> Int]
    /\ \A q \in Queues : /\ queues[q].up \in BOOLEAN
                         /\ Len(queues[q].msgs) \in 0..QueueSize[q]
                         /\ queues[q].notify \subseteq Procs
    /\ \A s \in BinarySems : mem[s] \in {0, 1}
    /\ faults \in 0..MaxFaults

(* What a program takes for granted holds where it does so, whatever the   *)
(* order of the processes' steps, unless a system call failed: the work    *)
(* that a message says is done was done and the process that it says has   *)
(* ended has ended ("claim"), a call that is said to be out of reach       *)
(* ("unreachable") is not reached, and a daemon ("daemon") leads neither a *)
(* session nor a group, is in no session with a terminal and has no        *)
(* descriptor but its own.  The messages of the processes in Timed rest on *)
(* a sleep() alone and may be wrong.                                       *)
Holds(c) == IF c \in Procs THEN ps[c].st \in {"zombie", "reaped"}
            ELSE mem[c] = 1
ClaimsHold ==
    \A p \in Procs :
        /\ ~Calls(p, "unreachable")
        /\ Calls(p, "claim") /\ faults = 0 /\ <<prog, p>> \notin Timed =>
             \A c \in X(p) : Holds(c)
        /\ Calls(p, "daemon") /\ faults = 0 =>
             /\ ps[p].sid \notin {"shell", p} /\ ps[p].pgid # p
             /\ ps[p].fds = {}

(* system() gives its caller back the signal mask and the dispositions     *)
(* that it found, whether or not the fork() worked; the command runs with  *)
(* the caller's mask, and with SIGINT and SIGQUIT as the caller had them   *)
(* (caught ones set to the default); and nobody but system() itself waits  *)
(* for the command, so that its status is not lost.                        *)
SystemTransparent ==
    \A p \in Procs :
        /\ Calls(p, "leave") => <<ps[p].mask, ps[p].disp>> = ps[p].entry
        /\ Calls(p, "exec") /\ ps[p].entry # <<>> =>
             /\ ps[p].mask = ps[p].entry[1]
             /\ \A s \in {"INT", "QUIT"} :
                  ps[p].disp[s] = IF ps[p].entry[2][s] = "ign"
                                  THEN "ign" ELSE "dfl"
        /\ ~Calls(p, "status_lost")

(* Every program comes to its end, in any order of its steps and whatever  *)
(* call fails: no process waits for ever for a signal, for an end of file, *)
(* for a message, for a semaphore or for a child, except a server for its  *)
(* next client.  If no call failed, no process ends in errExit(), no       *)
(* message is left unread and the shared variables have the values the     *)
(* program is to show; and the death of a client does not end its server.  *)
(* The programs of MayHang have a window in which a wakeup is lost: they   *)
(* end, or some process stays in the call that waits for the signal or the *)
(* user, or stopped.  Those of Fragile have a process that is never told   *)
(* that its partner failed; those of Stops always leave a process stopped. *)
Ended == \A p \in Procs :
             \/ ps[p].st \in {"none", "reaped"}
             \/ ps[p].pc = 1 /\ Calls(p, "await")   \* never started
             \/ <<prog, p>> \in Servers /\ ps[p].st \in Live
AsPlanned ==
    faults = 0 =>
        /\ \A p \in Procs : ps[p].how = "failed" => <<prog, p>> \in MayFail
        /\ \A q \in Queues : queues[q].msgs = <<>>
        /\ prog \in DOMAIN Outcomes =>
             \A v \in DOMAIN Outcomes[prog] : mem[v] \in Outcomes[prog][v]
Survives ==
    (\E p \in Procs : <<prog, p>> \in Killable /\ ps[p].how = "killed") =>
        \A p \in Procs : <<prog, p>> \in Servers => ps[p].st \in Live
Completes ==
    <>[](CASE prog \in MayHang ->
                Ended \/ \E p \in Procs : ps[p].st \in {"block", "stop"}
           [] prog \in Stops ->
                faults > 0 \/ \E p \in Procs : ps[p].st = "stop"
           [] OTHER ->
                \/ prog \in Fragile /\ faults > 0
                \/ Ended /\ Survives /\ AsPlanned)
=============================================================================
