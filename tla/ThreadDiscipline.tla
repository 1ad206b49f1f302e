-------------------------- MODULE ThreadDiscipline --------------------------
(***************************************************************************)
(* Rules that can be read off the text of a program of module Pthreads     *)
(* without running it, and that are enough for it to be safe however its   *)
(* threads are interleaved, canceled and woken (module PthreadsProofs).    *)
(* Every position in the code of a thread is given a mark: what the thread *)
(* holds when it is about to make the call there.                          *)
(***************************************************************************)
EXTENDS Integers, Sequences

CONSTANTS Code, Vars, Locks, Blocks,    \* as in module Pthreads
          Racy, Dangling, Leaky,
          Signals                       \* the signals of the programs

Positions(c) == 1..Len(c) + 1

Handlers == [block : Blocks, lock : Locks \cup {""}]

HandlerBlocks(s) == {s[k].block : k \in DOMAIN s}
HandlerLocks(s) == {s[k].lock : k \in DOMAIN s} \cap Locks

(* A mark: the locks and the units of semaphores the thread holds, its     *)
(* cleanup handlers, how many blocks of each name only its local variables *)
(* know, whether it has seen that its key has no value, and the threads it *)
(* has created.                                                            *)
MarkSet == [held : SUBSET (Locks \cup Vars), stack : Seq(Handlers),
            local : [Blocks -> Nat], novalue : BOOLEAN,
            made : SUBSET (UNION {DOMAIN Code[p] : p \in DOMAIN Code})]

NoMark == [held |-> {}, stack |-> <<>>, local |-> [r \in Blocks |-> 0],
           novalue |-> FALSE, made |-> {}]

IsCreate(call) == call.op \in {"pthread_create", "create_detached"}

(* What a call makes of the mark before it. *)
MarkAfter(call, k) ==
    CASE IsCreate(call) -> [k EXCEPT !.made = @ \cup {call.x}]
      [] call.op \in {"lock", "sem_wait"} -> [k EXCEPT !.held = @ \cup {call.x}]
      [] call.op \in {"unlock", "sem_post"} -> [k EXCEPT !.held = @ \ {call.x}]
      [] call.op = "malloc" -> [k EXCEPT !.local[call.x] = @ + 1]
      [] call.op = "getspecific" -> [k EXCEPT !.novalue = TRUE]
      [] call.op = "setspecific" -> [k EXCEPT !.novalue = FALSE,
                                              !.local[call.x] = @ - 1]
      [] call.op = "cleanup_push" ->
           [k EXCEPT !.stack = <<[block |-> call.x, lock |-> call.n]>> \o @,
                     !.local[call.x] = @ - 1]
      [] call.op = "cleanup_pop" ->
           [k EXCEPT !.stack = Tail(@), !.local[Head(k.stack).block] = @ + 1]
      [] call.op = "free" -> [k EXCEPT !.local[call.x] = @ - 1]
      [] OTHER -> k

(* The marks of a thread's code, in the order of its text. *)
Marks(c) ==
    LET mark[i \in Positions(c)] ==
          IF i = 1 THEN NoMark ELSE MarkAfter(c[i - 1], mark[i - 1])
    IN  mark

-----------------------------------------------------------------------------
(* Where a thread can get to from position i without ending. *)
Successors(c, i) ==
    CASE c[i].op = "skip" -> {i + 1, i + c[i].n[2]}
      [] c[i].op = "getspecific" -> {i + 1, i + c[i].n}
      [] c[i].op = "jump" -> {i + c[i].n}
      [] c[i].op \in {"exit", "pthread_exit"} -> {}
      [] OTHER -> {i + 1}

IsAsync(c) == \E i \in 1..Len(c) :
                 c[i].op = "setcanceltype" /\ c[i].x = "async"

IsCanceled(p, t) ==
    \E u \in DOMAIN Code[p] : \E i \in 1..Len(Code[p][u]) :
        Code[p][u][i].op = "pthread_cancel" /\ Code[p][u][i].x = t

(* Where a thread can end, by itself or canceled. *)
MayEndAt(p, t, i) ==
    LET c == Code[p][t]
    IN  \/ i = Len(c) + 1
        \/ c[i].op = "pthread_exit"
        \/ /\ IsCanceled(p, t)
           /\ \/ IsAsync(c)
              \/ c[i].op \in {"sleep", "printf", "cond_wait", "pthread_join",
                              "sem_wait", "sigwait"}

(* Takes one from a variable, which then has to be there. *)
Spends(c, i) == c[i].op = "store" /\ c[i].n < 0

Semaphores(p) == {v \in Vars : \E t \in DOMAIN Code[p] :
                    \E i \in 1..Len(Code[p][t]) :
                      /\ Code[p][t][i].op \in {"sem_wait", "sem_post"}
                      /\ Code[p][t][i].x = v}

SpentVars(p) == {v \in Vars : \E t \in DOMAIN Code[p] :
                    \E i \in 1..Len(Code[p][t]) :
                      Spends(Code[p][t], i) /\ Code[p][t][i].x = v}

(* Other threads read a local variable of thread u. *)
Lends(p, u) ==
    /\ p \notin Dangling
    /\ \E t \in DOMAIN Code[p] : \E i \in 1..Len(Code[p][t]) :
          Code[p][t][i].op = "arg" /\ Code[p][t][i].x = u

-----------------------------------------------------------------------------
(* The arguments of the calls are of their kind, and a thread gives back   *)
(* only what it holds.                                                     *)
CallOK(p, t, i) ==
    LET call == Code[p][t][i]
        k == Marks(Code[p][t])[i]
    IN  /\ IsCreate(call) =>
             /\ call.x \in DOMAIN Code[p] \ {"main", t} /\ call.x \notin k.made
             /\ \A u \in DOMAIN Code[p] \ {t} :
                  \A j \in Positions(Code[p][u]) :
                    call.x \notin Marks(Code[p][u])[j].made
        /\ call.op \in {"pthread_join", "pthread_cancel", "pthread_kill", "arg"}
             => call.x \in DOMAIN Code[p]
        /\ call.op \in {"load", "store", "set", "skip"} => call.x \in Vars
        /\ call.op = "store" => call.n \in Int /\ call.x \notin Semaphores(p)
        /\ call.op = "set" =>
             /\ call.n \in Nat
             /\ call.x \in Semaphores(p) =>
                  call.n = 1 /\ t = "main" /\ k.made = {} /\ call.x \notin k.held
        /\ call.op = "skip" => call.n[1] \in Nat
        /\ call.op \in {"lock", "unlock", "cond_wait"} => call.x \in Locks
        /\ call.op \in {"unlock", "cond_wait", "sem_post"} => call.x \in k.held
        /\ call.op \in {"sem_wait", "sem_post", "barrier_wait", "pthread_once"}
             => call.x \in Vars \ SpentVars(p)
        /\ call.op = "sem_wait" => call.x \notin k.held
        /\ call.op \in {"barrier_wait", "pthread_once"} =>
             call.x \notin Semaphores(p)
        /\ call.op = "barrier_wait" => call.n \in Nat
        /\ call.op = "pthread_once" =>
             call.n \in Vars \ (SpentVars(p) \cup Semaphores(p) \cup {call.x})
        /\ call.op \in {"malloc", "free", "setspecific", "cleanup_push"} =>
             call.x \in Blocks
        /\ call.op = "setspecific" => k.novalue
        /\ call.op = "cleanup_push" =>
             /\ call.n \in Locks \cup {""}
             /\ call.x \notin HandlerBlocks(k.stack)
             /\ call.n \notin HandlerLocks(k.stack)
        /\ call.op = "cleanup_pop" => k.stack # <<>>
        /\ call.op = "sigmask" => call.x \subseteq Signals
        /\ call.op \in {"pthread_kill", "sigqueue"} => call.n \in Signals

(* Along every way through the code the marks agree. *)
FlowOK(c, i) ==
    LET m == Marks(c)
    IN  /\ Successors(c, i) \subseteq Positions(c)
        /\ m[i + 1] = MarkAfter(c[i], m[i])
        /\ c[i].op = "skip" => m[i + c[i].n[2]] = m[i]
        /\ c[i].op = "jump" => m[i + c[i].n] = m[i]
        /\ c[i].op = "getspecific" =>
             m[i + c[i].n] = [m[i] EXCEPT !.novalue = FALSE]

(* A thread that ends at position i may lose a block. *)
MayLeak(p, t, i) ==
    LET c == Code[p][t]
    IN  <<p, t, IF i > Len(c) THEN "return" ELSE c[i].op>> \in Leaky

(* Where a thread may end it holds no unit of a semaphore, for every lock  *)
(* there is a handler, and for every block a handler or the key.           *)
EndOK(p, t, i) ==
    LET c == Code[p][t]
        k == Marks(c)[i]
    IN  MayEndAt(p, t, i) =>
          /\ k.held = HandlerLocks(k.stack)
          /\ ~MayLeak(p, t, i) => \A r \in Blocks : k.local[r] = 0

(* What a thread spends it has just loaded, after it has found something   *)
(* to be there.                                                            *)
SpendOK(p, c, i) ==
    Spends(c, i) =>
        /\ p \notin Racy /\ i > 2 /\ c[i].n = -1
        /\ c[i - 1].op = "load" /\ c[i - 1].x = c[i].x
        /\ \A j \in 1..Len(c) :
             /\ i \in Successors(c, j) => j = i - 1
             /\ i - 1 \in Successors(c, j) =>
                  /\ c[j].op = "skip" /\ c[j].x = c[i].x /\ c[j].n[1] >= 1
                  /\ j # i - 2

(* A thread that lends a local variable ends only with the process. *)
LenderOK(p, t) ==
    LET c == Code[p][t]
    IN  /\ Len(c) > 0 /\ ~IsCanceled(p, t)
        /\ \A i \in 1..Len(c) :
             /\ c[i].op # "pthread_exit"
             /\ Successors(c, i) \subseteq 1..Len(c)

(* Two threads that use one variable, one of them to write it, hold one    *)
(* lock or one unit of a semaphore at the time.                            *)
Uses(call, v) == call.op \in {"load", "store", "set", "skip"} /\ call.x = v

Excluded(p, t, u) ==
    \A i \in 1..Len(Code[p][t]), j \in 1..Len(Code[p][u]) :
        LET a == Code[p][t][i]
            b == Code[p][u][j]
        IN  a.op \in {"store", "set"} /\ Uses(b, a.x) =>
              Marks(Code[p][t])[i].held \cap Marks(Code[p][u])[j].held # {}

ThreadOK(p, t) ==
    LET c == Code[p][t]
        m == Marks(c)
    IN  /\ Len(c) \in Nat
        /\ m \in [Positions(c) -> MarkSet] /\ m[1] = NoMark
        /\ \A i \in Positions(c) :
             /\ m[i].held \subseteq Locks \cup Semaphores(p)
             /\ EndOK(p, t, i)
        /\ \A i \in 1..Len(c) :
             CallOK(p, t, i) /\ FlowOK(c, i) /\ SpendOK(p, c, i)
        /\ Lends(p, t) => LenderOK(p, t)
        /\ p \notin Racy => \A u \in DOMAIN Code[p] \ {t} : Excluded(p, t, u)

(* Every program keeps the rules. *)
Disciplined ==
    /\ "" \notin Locks \cup Blocks \cup Vars /\ Locks \cap Vars = {}
    /\ \A p \in DOMAIN Code :
         /\ "main" \in DOMAIN Code[p] /\ "" \notin DOMAIN Code[p]
         /\ \A t \in DOMAIN Code[p] : ThreadOK(p, t)
=============================================================================
