------------------------- MODULE ProcessDiscipline -------------------------
(***************************************************************************)
(* Rules that can be read off the text of a program of module Processes    *)
(* without running it, and that are enough for what module ProcessesProofs *)
(* proves of it, however its processes are interleaved, killed, signaled   *)
(* and whichever of their calls fail.  Marks gives every place that a      *)
(* process can reach a mark: what is known of the process when it is about *)
(* to make the call there.                                                 *)
(***************************************************************************)
EXTENDS Integers, Sequences

CONSTANTS Code, Vars, BinarySems, Pipes, Queues, Signals, \* as in Processes
          Marks         \* program -> process -> place -> mark

ProcsOf(g) == DOMAIN Code[g]
CallAt(g, p, i) == Code[g][p][i]
MarkAt(g, p, i) == Marks[g][p][i]
Reached(g, p) == DOMAIN Marks[g][p]

(* A mark.  In a call of system() (phase "in"), compared with its entry:   *)
(* the signals that are blocked in addition, whether the saved mask is the *)
(* one of the entry, what became of each disposition, the signals whose    *)
(* saved disposition is the one of the entry, and the child that was       *)
(* forked and not waited for.  For a binary semaphore protocol: whether    *)
(* the process has the token, that is, has reserved a semaphore and has    *)
(* not released one, and whether it has made the token.                    *)
Same == [s \in Signals |-> "same"]

MarkSet(g) ==
    [phase : {"none", "in", "out"}, blocked : SUBSET Signals, saved : BOOLEAN,
     disp : [Signals -> {"same", "ign", "reset", "other"}],
     kept : SUBSET Signals, child : ProcsOf(g) \cup {""},
     token : BOOLEAN, made : BOOLEAN]

Fresh(phase) ==
    [phase |-> phase, blocked |-> {}, saved |-> FALSE, disp |-> Same,
     kept |-> {}, child |-> "", token |-> FALSE, made |-> FALSE]

(* Nothing is known any more but the token. *)
Forget(k) == [Fresh("out") EXCEPT !.token = k.token, !.made = k.made]

Entered(k) == [Fresh("in") EXCEPT !.token = k.token, !.made = k.made]

(* The child has no token, and no child. *)
ForkMark(k) == [k EXCEPT !.child = "", !.token = FALSE, !.made = FALSE]

-----------------------------------------------------------------------------
(* What a call in system() makes of the mark. *)
SystemAfter(call, k) ==
    CASE call.op \in {"leave", "exec"} -> Forget(k)
      [] call.op = "block" -> [k EXCEPT !.saved = (k.blocked = {}),
                                        !.blocked = @ \cup call.x]
      [] call.op = "restore_mask" -> [k EXCEPT !.blocked = {}]
      [] call.op = "uninitialized" -> [k EXCEPT !.saved = FALSE]
      [] call.op = "sigaction" ->
           [k EXCEPT !.disp[call.x] = IF call.n = "ign" THEN "ign" ELSE "other",
                     !.kept = IF k.disp[call.x] = "same" THEN @ \cup {call.x}
                              ELSE @ \ {call.x}]
      [] call.op = "restore_action" ->
           [k EXCEPT !.disp[call.x] = IF call.x \in k.kept THEN "same"
                                      ELSE "other"]
      [] call.op = "default_unless_ignored" ->
           [k EXCEPT !.disp[call.x] = IF call.x \in k.kept /\ @ = "ign"
                                      THEN "reset" ELSE "other"]
      [] call.op = "fork" -> [k EXCEPT !.child = call.x]
      [] call.op = "wait" -> [k EXCEPT !.child = ""]
      [] OTHER -> k

MakesToken(call) == call.op = "semctl" /\ call.x \in BinarySems /\ call.n = 1

(* What a call that succeeds makes of the mark before it. *)
MarkAfter(call, k) ==
    CASE call.op = "enter" -> Entered(k)
      [] call.op = "semctl" -> [k EXCEPT !.made = @ \/ MakesToken(call)]
      [] call.op = "semop" -> [k EXCEPT !.token = IF call.x \in BinarySems
                                                  THEN call.n = -1 ELSE @]
      [] OTHER -> IF k.phase = "in" THEN SystemAfter(call, k) ELSE k

(* Where a process may be next, with what mark: the call succeeds, or it   *)
(* fails or is a branch and the program goes on call.k calls later.  A     *)
(* wait for a child that is there does not fail.                           *)
Ending == {"exit", "fatal", "unreachable", "status_lost"}

Succeeds(call, i, k) ==
    CASE call.op \in Ending -> {}
      [] call.op = "jump" -> {<<i + call.n, k>>}
      [] OTHER -> {<<i + 1, MarkAfter(call, k)>>}

Branches(call, i, k) ==
    IF call.op \in Ending \cup {"jump", "raise"}
       \/ (call.op = "wait" /\ k.child # "")
    THEN {} ELSE {<<i + call.k, k>>}

Edges(call, i, k) == Succeeds(call, i, k) \cup Branches(call, i, k)

-----------------------------------------------------------------------------
(* The text of a program: who forks whom, who makes a token, and which     *)
(* dispositions a signal may have.                                         *)
Handlings == {"dfl", "ign", "ret", "restart", "flag", "exit", "reap", "pipe"}

Forks(g, p, c) == \E i \in 1..Len(Code[g][p]) :
                     CallAt(g, p, i).op = "fork" /\ CallAt(g, p, i).x = c

Makes(g, p) == \E i \in 1..Len(Code[g][p]) : MakesToken(CallAt(g, p, i))

MayHave(g, s, h) ==
    \/ h \in {"dfl", "ign"}
    \/ \E p \in ProcsOf(g) : \E i \in Reached(g, p) :
          LET call == CallAt(g, p, i)
          IN  /\ i <= Len(Code[g][p])
              /\ call.op = "sigaction" /\ call.x = s /\ call.n = h

(* The signals that the kernel sends, and those that system() ignores. *)
KernelSignals == {"CHLD", "HUP", "CONT", "PIPE", "ALRM", "USR1", "TTOU",
                  "INT", "QUIT"}

(* Calls that wait for a signal, the user or an answer. *)
Waits == {"pause", "sigsuspend", "input", "notify"}

(* The arguments of the calls are of their kind. *)
ArgsOK(g, call) ==
    /\ call.op = "fork" => call.x \in ProcsOf(g)
    /\ call.op \in {"block", "uninitialized"} => call.x \subseteq Signals
    /\ call.op \in {"sigaction", "restore_action", "default_unless_ignored"} =>
         call.x \in Signals
    /\ call.op = "sigaction" =>
         /\ call.n \in Handlings
         /\ call.n = "flag" => "flag" \in Vars \ BinarySems
         /\ call.n = "pipe" => "self" \in Pipes
         /\ call.n = "reap" => call.x = "CHLD"
    /\ call.op = "kill" => call.n \in Signals
    /\ call.op = "alarm" => call.n \in BOOLEAN
    /\ call.op \in {"pipe", "dup2", "write", "read", "poll", "drain", "lock",
                    "trylock", "connect", "sendfd"} => call.x \in Pipes
    /\ call.op = "dup2" => call.n \in {"r", "w"}
    /\ call.op \in {"connect", "sendfd"} => call.n \in Pipes
    /\ call.op = "listen" => "notify" \in Pipes
    /\ call.op = "notif_recv" => "req" \in Vars \ BinarySems
    /\ call.op \in {"msgsnd", "msgrcv", "msgctl", "mq_notify", "mq_receive",
                    "sendto", "sendto_udp"} => call.x \in Queues
    /\ call.op \in {"msgsnd", "sendto", "sendto_udp"} => call.n \in Int
    /\ call.op = "msgrcv" => call.n \in Vars \ BinarySems
    /\ call.op = "setpgid" => /\ call.x \in ProcsOf(g)
                             /\ call.n \in ProcsOf(g) \cup {"shell"}
    /\ call.op = "tcsetpgrp" => call.x \in ProcsOf(g) \cup {"shell"}
    /\ call.op \in {"try", "set"} => call.x \in Vars \ BinarySems
    /\ call.op = "set" => call.n \in Int
    /\ call.op \in {"copy", "raise"} =>
         call.x \in Vars /\ call.n \in Vars \ BinarySems
    /\ call.op = "raise" => call.k \in Int
    /\ call.op \in {"semctl", "semop"} => call.x \in Vars /\ call.n \in Int
    /\ call.op \in {"semctl", "semop", "semget", "semget_excl"} =>
         {"semid", "otime"} \subseteq Vars \ BinarySems

(* The one who makes the token makes it once, and only who has it releases *)
(* a semaphore.                                                            *)
TokenOK(call, k) ==
    /\ call.op = "semctl" /\ call.x \in BinarySems =>
         call.n = 0 \/ (call.n = 1 /\ ~k.made)
    /\ call.op = "semop" /\ call.x \in BinarySems =>
         (call.n = 1 /\ k.token) \/ (call.n = -1 /\ ~k.token)

(* system() leaves with everything restored; the command runs with the     *)
(* caller's mask and dispositions; between the fork() and the wait for its *)
(* child nothing else waits for it.                                        *)
LeaveOK(k) == k.phase = "in" /\ k.blocked = {} /\ k.disp = Same

ExecOK(g, k) ==
    \/ k.phase = "none"
    \/ /\ k.phase = "in" /\ k.blocked = {}
       /\ \A s \in {"INT", "QUIT"} :
            \/ k.disp[s] = "reset"
            \/ /\ k.disp[s] = "same"
               /\ \A h \in Handlings : MayHave(g, s, h) => h \in {"dfl", "ign"}

SystemOK(call, k) ==
    /\ call.op = "leave" => LeaveOK(k)
    /\ k.phase = "in" =>
         /\ call.op \notin Waits
         /\ call.op = "restore_mask" => k.saved
         /\ call.op = "fork" => k.child = ""
    /\ k.child # "" =>
         /\ call.op # "wait_nohang"
         /\ call.op = "wait" => call.x = k.child

ChildOK(g, p, k) ==
    k.child # "" =>
        /\ k.phase = "in" /\ k.child # p
        /\ \A q \in ProcsOf(g) \ {p} : ~Forks(g, q, k.child)
        /\ "CHLD" \in k.blocked \/ ~MayHave(g, "CHLD", "reap")

(* The marks agree along every way through the code. *)
FlowOK(g, p, i) ==
    \A e \in Edges(CallAt(g, p, i), i, MarkAt(g, p, i)) :
        /\ e[1] \in Reached(g, p)
        /\ MarkAt(g, p, e[1]) \in {e[2], Forget(e[2])}

CallOK(g, p, i) ==
    LET call == CallAt(g, p, i)
        k == MarkAt(g, p, i)
    IN  /\ ArgsOK(g, call) /\ TokenOK(call, k) /\ SystemOK(call, k)
        /\ call.op = "exec" => ExecOK(g, k)
        /\ call.op # "status_lost"
        /\ FlowOK(g, p, i)
        /\ call.op = "fork" =>
             /\ call.x # p /\ ~Makes(g, call.x)
             /\ MarkAt(g, call.x, 1) \in {ForkMark(k), Forget(ForkMark(k))}

ProcOK(g, p) ==
    /\ Len(Code[g][p]) \in Nat /\ DOMAIN Code[g][p] = 1..Len(Code[g][p])
    /\ Reached(g, p) \subseteq 1..Len(Code[g][p]) + 1 /\ 1 \in Reached(g, p)
    /\ Marks[g][p] \in [Reached(g, p) -> MarkSet(g)]
    /\ ~MarkAt(g, p, 1).token /\ ~MarkAt(g, p, 1).made
    /\ (\A q \in ProcsOf(g) : ~Forks(g, q, p)) => MarkAt(g, p, 1) = Fresh("none")
    /\ \A i \in Reached(g, p) :
         /\ MarkAt(g, p, i).made => Makes(g, p)
         /\ ChildOK(g, p, MarkAt(g, p, i))
         /\ i <= Len(Code[g][p]) => CallOK(g, p, i)
    /\ \A q \in ProcsOf(g) : Makes(g, p) /\ Makes(g, q) => p = q

(* Every program keeps the rules. *)
Disciplined ==
    /\ KernelSignals \subseteq Signals
    /\ \A g \in DOMAIN Code :
         /\ {"main"} \subseteq ProcsOf(g)
         /\ {"", "shell", "init"} \cap ProcsOf(g) = {}
         /\ \A p \in ProcsOf(g) : ProcOK(g, p)
=============================================================================
