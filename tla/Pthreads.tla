------------------------------ MODULE Pthreads ------------------------------
(***************************************************************************)
(* Threads of one process that make the calls of a program: one action per *)
(* call of the POSIX threads library and per access to shared memory.      *)
(* Which program runs is chosen in the initial state; Code has the calls   *)
(* of the threads of each (module ThreadPrograms).  Any pthread_create()   *)
(* may fail, and a call that fails ends the process in errExit().          *)
(***************************************************************************)
EXTENDS Integers, Sequences, FiniteSets

CONSTANTS Code,         \* program -> thread -> sequence of calls
          Vars,         \* shared variables, semaphores and barriers
          Locks,        \* mutexes, spin locks and read/write locks
          Blocks,       \* names of allocated blocks
          Outcomes,     \* program -> variable -> values at a regular exit
          Racy,         \* programs that are meant to show a data race
          Dangling,     \* programs whose main thread ends before its threads
          Leaky,        \* <<program, thread, call>>: a thread that ends in
                        \* this call may lose what it allocated
          Polling,      \* programs that wait by trying again and again
          MaxSpurious   \* bound: wakeups of a thread for no reason

ASSUME CodeAssumption ==
    /\ \A p \in DOMAIN Code : "main" \in DOMAIN Code[p]
    /\ "" \notin Locks /\ MaxSpurious \in Nat
    /\ DOMAIN Outcomes \subseteq DOMAIN Code

VARIABLES prog,         \* the program
          code,         \* its code
          proc,         \* the process: "run", or how it ended
          thr,          \* the threads
          mem,          \* the shared variables
          owner,        \* of every lock
          handled       \* signals with a handler

program == <<prog, code>>
vars == <<program, proc, thr, mem, owner, handled>>

Threads == DOMAIN code
NoThread == ""
Gone == {"ended", "joined"}

(* A thread: state, next call, register, allocated blocks, the value for   *)
(* the key, the cleanup handlers, cancellation and signals.                *)
Fresh == [st |-> "none", pc |-> 1, loc |-> 0,
          heap |-> [r \in Blocks |-> 0], specific |-> "", stack |-> <<>>,
          detached |-> FALSE, pend |-> FALSE, enabled |-> TRUE,
          async |-> FALSE, mask |-> {}, sigs |-> {}, spurious |-> 0]

Init ==
    /\ prog \in DOMAIN Code /\ code = Code[prog]
    /\ proc = "run"
    /\ thr = [t \in Threads |-> IF t = "main" THEN [Fresh EXCEPT !.st = "run"]
                                ELSE Fresh]
    /\ mem = [v \in Vars |-> 0]
    /\ owner = [m \in Locks |-> NoThread]
    /\ handled = {}

-----------------------------------------------------------------------------
Returns(t) == thr[t].pc > Len(code[t])
Runs(t) == proc = "run" /\ thr[t].st = "run"
NextCall(t) == code[t][thr[t].pc]
Calls(t, op) == Runs(t) /\ ~Returns(t) /\ NextCall(t).op = op
X(t) == NextCall(t).x
N(t) == NextCall(t).n
Advance(t, n) == thr' = [thr EXCEPT ![t].pc = @ + n]

(* A cancellation request that the thread acts upon at a cancellation      *)
(* point.                                                                  *)
Canceled(t) == thr[t].pend /\ thr[t].enabled

errExit == proc' = "failed" /\ UNCHANGED <<program, thr, mem, owner, handled>>

(* pthread_create: the new thread has the creator's signal mask.           *)
pthread_create(t) ==
    /\ Calls(t, "pthread_create") \/ Calls(t, "create_detached")
    /\ \/ /\ thr' = [thr EXCEPT ![t].pc = @ + 1, ![X(t)].st = "run",
                                ![X(t)].mask = thr[t].mask,
                                ![X(t)].detached =
                                    (NextCall(t).op = "create_detached")]
          /\ UNCHANGED <<program, proc, mem, owner, handled>>
       \/ errExit

pthread_join(t) ==
    /\ Calls(t, "pthread_join")
    /\ LET u == X(t) IN
       \/ /\ u # t /\ ~thr[u].detached /\ thr[u].st = "ended"
          /\ thr' = [thr EXCEPT ![t].pc = @ + 1, ![u].st = "joined"]
          /\ UNCHANGED <<program, proc, mem, owner, handled>>
       \/ (u = t \/ thr[u].detached) /\ errExit

exit(t) ==
    /\ Calls(t, "exit")
    /\ proc' = "exit"
    /\ UNCHANGED <<program, thr, mem, owner, handled>>

(* A thread returns from its function or calls pthread_exit().             *)
pthread_exit(t) ==
    /\ Calls(t, "pthread_exit") \/ (Runs(t) /\ Returns(t))
    /\ thr' = [thr EXCEPT ![t].st = "unwind"]
    /\ UNCHANGED <<program, proc, mem, owner, handled>>

-----------------------------------------------------------------------------
(* Shared memory.                                                          *)
load(t) ==
    /\ Calls(t, "load")
    /\ thr' = [thr EXCEPT ![t].pc = @ + 1, ![t].loc = mem[X(t)]]
    /\ UNCHANGED <<program, proc, mem, owner, handled>>

store(t) ==
    /\ Calls(t, "store") \/ Calls(t, "set")
    /\ mem' = [mem EXCEPT ![X(t)] =
                 IF NextCall(t).op = "set" THEN N(t) ELSE thr[t].loc + N(t)]
    /\ Advance(t, 1)
    /\ UNCHANGED <<program, proc, owner, handled>>

branch(t) ==
    /\ \/ /\ Calls(t, "skip")
          /\ Advance(t, IF mem[X(t)] >= N(t)[1] THEN N(t)[2] ELSE 1)
       \/ Calls(t, "jump") /\ Advance(t, N(t))
       \/ Calls(t, "arg") /\ Advance(t, 1)
    /\ UNCHANGED <<program, proc, mem, owner, handled>>

-----------------------------------------------------------------------------
(* Synchronization.                                                        *)
lock(t) ==
    /\ Calls(t, "lock") /\ owner[X(t)] = NoThread
    /\ owner' = [owner EXCEPT ![X(t)] = t]
    /\ Advance(t, 1)
    /\ UNCHANGED <<program, proc, mem, handled>>

unlock(t) ==
    /\ Calls(t, "unlock")
    /\ owner' = [owner EXCEPT ![X(t)] = NoThread]
    /\ Advance(t, 1)
    /\ UNCHANGED <<program, proc, mem, handled>>

(* pthread_cond_wait: unlock and wait; woken, or for no reason, the thread *)
(* locks the mutex again.                                                  *)
cond_wait(t) ==
    /\ Calls(t, "cond_wait") /\ ~Canceled(t)
    /\ owner' = [owner EXCEPT ![X(t)] = NoThread]
    /\ thr' = [thr EXCEPT ![t].st = "wait"]
    /\ UNCHANGED <<program, proc, mem, handled>>

Waiting(c) == {t \in Threads : thr[t].st = "wait" /\ N(t) = c}

cond_signal(t) ==
    /\ Calls(t, "cond_signal")
    /\ IF Waiting(N(t)) = {} THEN Advance(t, 1)
       ELSE \E u \in Waiting(N(t)) :
              thr' = [thr EXCEPT ![t].pc = @ + 1, ![u].st = "relock"]
    /\ UNCHANGED <<program, proc, mem, owner, handled>>

SpuriousWakeup(t) ==
    /\ proc = "run" /\ thr[t].st = "wait" /\ thr[t].spurious < MaxSpurious
    /\ thr' = [thr EXCEPT ![t].st = "relock", ![t].spurious = @ + 1]
    /\ UNCHANGED <<program, proc, mem, owner, handled>>

(* A thread canceled in pthread_cond_wait() has the mutex when its cleanup *)
(* handlers run.                                                           *)
relock(t) ==
    /\ proc = "run" /\ thr[t].st \in {"wait", "relock"}
    /\ owner[X(t)] = NoThread
    /\ \/ /\ thr[t].st = "relock"
          /\ thr' = [thr EXCEPT ![t].st = "run", ![t].pc = @ + 1]
       \/ /\ thr[t].st = "wait" /\ Canceled(t)
          /\ thr' = [thr EXCEPT ![t].st = "unwind"]
    /\ owner' = [owner EXCEPT ![X(t)] = t]
    /\ UNCHANGED <<program, proc, mem, handled>>

semaphore(t) ==
    /\ \/ /\ Calls(t, "sem_wait") /\ mem[X(t)] > 0 /\ ~Canceled(t)
          /\ mem' = [mem EXCEPT ![X(t)] = @ - 1]
       \/ /\ Calls(t, "sem_post")
          /\ mem' = [mem EXCEPT ![X(t)] = @ + 1]
    /\ Advance(t, 1)
    /\ UNCHANGED <<program, proc, owner, handled>>

(* The last of N(t) threads releases the others and resets the barrier.    *)
barrier_wait(t) ==
    /\ Calls(t, "barrier_wait")
    /\ IF mem[X(t)] + 1 < N(t)
       THEN /\ mem' = [mem EXCEPT ![X(t)] = @ + 1]
            /\ thr' = [thr EXCEPT ![t].st = "barrier"]
       ELSE /\ mem' = [mem EXCEPT ![X(t)] = 0]
            /\ thr' = [u \in Threads |->
                 IF u = t \/ thr[u].st = "barrier"
                 THEN [thr[u] EXCEPT !.st = "run", !.pc = @ + 1] ELSE thr[u]]
    /\ UNCHANGED <<program, proc, owner, handled>>

(* pthread_once: the routine, which counts in N(t), is run by one thread   *)
(* while the others wait.                                                  *)
pthread_once(t) ==
    /\ Calls(t, "pthread_once")
    /\ mem' = IF mem[X(t)] = 0
              THEN [mem EXCEPT ![X(t)] = 1, ![N(t)] = @ + 1] ELSE mem
    /\ Advance(t, 1)
    /\ UNCHANGED <<program, proc, owner, handled>>

-----------------------------------------------------------------------------
(* Memory, thread-specific data and cleanup handlers.                      *)
malloc(t) ==
    /\ Calls(t, "malloc")
    /\ thr' = [thr EXCEPT ![t].pc = @ + 1, ![t].heap[X(t)] = @ + 1]
    /\ UNCHANGED <<program, proc, mem, owner, handled>>

specific(t) ==
    /\ \/ /\ Calls(t, "getspecific")
          /\ Advance(t, IF thr[t].specific = "" THEN 1 ELSE N(t))
       \/ /\ Calls(t, "setspecific")
          /\ thr' = [thr EXCEPT ![t].pc = @ + 1, ![t].specific = X(t)]
    /\ UNCHANGED <<program, proc, mem, owner, handled>>

cleanup_push(t) ==
    /\ Calls(t, "cleanup_push")
    /\ thr' = [thr EXCEPT ![t].pc = @ + 1,
                 ![t].stack = <<[block |-> X(t), lock |-> N(t)]>> \o @]
    /\ UNCHANGED <<program, proc, mem, owner, handled>>

(* pthread_cleanup_pop() is a macro: it takes the handler off the stack    *)
(* and then, if asked to, calls it as the thread would any function; what  *)
(* the function does are calls of the program.                             *)
cleanup_pop(t) ==
    /\ Calls(t, "cleanup_pop")
    /\ thr' = [thr EXCEPT ![t].pc = @ + 1, ![t].stack = Tail(@)]
    /\ UNCHANGED <<program, proc, mem, owner, handled>>

free(t) ==
    /\ Calls(t, "free")
    /\ thr' = [thr EXCEPT ![t].pc = @ + 1, ![t].heap[X(t)] = @ - 1]
    /\ UNCHANGED <<program, proc, mem, owner, handled>>

(* The handler on top frees its block and unlocks its mutex.  A thread     *)
(* that ends is not canceled again in the printf() of a handler.           *)
Handler(t) == Head(thr[t].stack)
Unlocked(t) == IF Handler(t).lock \in Locks
               THEN [owner EXCEPT ![Handler(t).lock] = NoThread] ELSE owner

(* The end of a thread: the handlers that are left, the last one first,    *)
(* then the destructor; with the last thread the process ends.             *)
Unwind(t) ==
    /\ proc = "run" /\ thr[t].st = "unwind" /\ thr[t].stack # <<>>
    /\ thr' = [thr EXCEPT ![t].stack = Tail(@),
                          ![t].heap[Handler(t).block] = @ - 1]
    /\ owner' = Unlocked(t)
    /\ UNCHANGED <<program, proc, mem, handled>>

ThreadEnds(t) ==
    /\ proc = "run" /\ thr[t].st = "unwind" /\ thr[t].stack = <<>>
    /\ thr' = [thr EXCEPT ![t].st = "ended",
                 ![t].heap = [r \in Blocks |-> IF r = thr[t].specific
                                               THEN @[r] - 1 ELSE @[r]]]
    /\ proc' = IF \A u \in Threads \ {t} : thr[u].st \in Gone \cup {"none"}
               THEN "exit" ELSE "run"
    /\ UNCHANGED <<program, mem, owner, handled>>

-----------------------------------------------------------------------------
(* Cancellation.                                                           *)
pthread_cancel(t) ==
    /\ Calls(t, "pthread_cancel")
    /\ thr' = [thr EXCEPT ![t].pc = @ + 1, ![X(t)].pend = TRUE]
    /\ UNCHANGED <<program, proc, mem, owner, handled>>

setcancel(t) ==
    /\ \/ /\ Calls(t, "setcancelstate")
          /\ thr' = [thr EXCEPT ![t].pc = @ + 1,
                                ![t].enabled = (X(t) = "enable")]
       \/ /\ Calls(t, "setcanceltype")
          /\ thr' = [thr EXCEPT ![t].pc = @ + 1, ![t].async = (X(t) = "async")]
    /\ UNCHANGED <<program, proc, mem, owner, handled>>

(* sleep() and pthread_testcancel() are cancellation points, printf() may  *)
(* be one.                                                                 *)
sleep(t) ==
    /\ (Calls(t, "sleep") /\ ~Canceled(t)) \/ Calls(t, "printf")
    /\ Advance(t, 1)
    /\ UNCHANGED <<program, proc, mem, owner, handled>>

ActOnCancel(t) ==
    /\ Runs(t) /\ ~Returns(t) /\ Canceled(t)
    /\ \/ thr[t].async
       \/ NextCall(t).op \in {"sleep", "printf", "cond_wait", "pthread_join",
                              "sem_wait", "sigwait"}
    /\ thr' = [thr EXCEPT ![t].st = "unwind"]
    /\ UNCHANGED <<program, proc, mem, owner, handled>>

-----------------------------------------------------------------------------
(* Signals; one for the process is taken to be sent to any of its threads. *)
signals(t) ==
    /\ \/ /\ Calls(t, "sigmask")
          /\ thr' = [thr EXCEPT ![t].pc = @ + 1, ![t].mask = @ \cup X(t)]
          /\ UNCHANGED handled
       \/ /\ Calls(t, "sigaction")
          /\ Advance(t, 1) /\ handled' = handled \cup {X(t)}
       \/ /\ Calls(t, "pthread_kill")
          /\ thr' = [thr EXCEPT ![t].pc = @ + 1, ![X(t)].sigs = @ \cup {N(t)}]
          /\ UNCHANGED handled
       \/ /\ Calls(t, "sigqueue")
          /\ \E u \in {v \in Threads : thr[v].st \notin Gone \cup {"none"}} :
               thr' = [thr EXCEPT ![t].pc = @ + 1, ![u].sigs = @ \cup {N(t)}]
          /\ UNCHANGED handled
       \/ /\ Calls(t, "sigwait")
          /\ \E s \in thr[t].sigs \cap X(t) :
               thr' = [thr EXCEPT ![t].pc = @ + 1, ![t].sigs = @ \ {s}]
          /\ UNCHANGED handled
    /\ UNCHANGED <<program, proc, mem, owner>>

(* A signal that is not blocked: its handler returns, or the default       *)
(* action ends the process.                                                *)
Deliver(t) ==
    /\ proc = "run" /\ thr[t].st \notin Gone
    /\ \E s \in thr[t].sigs \ thr[t].mask :
         /\ proc' = IF s \in handled THEN "run" ELSE "killed"
         /\ thr' = [thr EXCEPT ![t].sigs = @ \ {s}]
    /\ UNCHANGED <<program, mem, owner, handled>>

-----------------------------------------------------------------------------
ThreadStep(t) ==
    \/ pthread_create(t) \/ pthread_join(t) \/ exit(t) \/ pthread_exit(t)
    \/ load(t) \/ store(t) \/ branch(t)
    \/ lock(t) \/ unlock(t) \/ cond_wait(t) \/ cond_signal(t) \/ relock(t)
    \/ semaphore(t) \/ barrier_wait(t) \/ pthread_once(t)
    \/ malloc(t) \/ free(t) \/ specific(t)
    \/ cleanup_push(t) \/ cleanup_pop(t)
    \/ Unwind(t) \/ ThreadEnds(t)
    \/ pthread_cancel(t) \/ setcancel(t) \/ sleep(t) \/ ActOnCancel(t)
    \/ signals(t) \/ Deliver(t)

Next == \E t \in Threads : ThreadStep(t) \/ SpuriousWakeup(t)

AllThreads == UNION {DOMAIN Code[p] : p \in DOMAIN Code}

(* Every thread that can run goes on; nothing wakes it for no reason.      *)
Spec == Init /\ [][Next]_vars
             /\ \A t \in AllThreads : WF_vars(t \in Threads /\ ThreadStep(t))

-----------------------------------------------------------------------------
(* Type correctness. *)
TypeOK ==
    /\ prog \in DOMAIN Code /\ code = Code[prog]
    /\ proc \in {"run", "exit", "failed", "killed"}
    /\ \A t \in Threads :
         /\ thr[t].st \in {"none", "run", "wait", "relock", "barrier",
                           "unwind"} \cup Gone
         /\ thr[t].pc \in 1..Len(code[t]) + 1
         /\ thr[t].loc \in Int /\ thr[t].heap \in [Blocks -> Int]
         /\ {thr[t].detached, thr[t].pend, thr[t].enabled, thr[t].async}
                \subseteq BOOLEAN
    /\ mem \in [Vars -> Nat]
    /\ owner \in [Locks -> Threads \cup {NoThread}]

(* Shared memory is used safely.  No two threads are about to access one   *)
(* variable, one of them to write it, but in the program that shows what   *)
(* then happens; a lock is given back by the thread that has it; and an    *)
(* argument, which is the address of a local variable of the creator, is   *)
(* read while the creator still runs.                                      *)
Accesses(t) == Runs(t) /\ ~Returns(t) /\
               NextCall(t).op \in {"load", "store", "set", "skip"}
SafeAccess ==
    /\ prog \notin Racy =>
         ~\E t, u \in Threads :
             /\ t # u /\ Accesses(t) /\ Accesses(u) /\ X(t) = X(u)
             /\ NextCall(t).op \in {"store", "set"}
    /\ \A t \in Threads :
         /\ Calls(t, "unlock") => owner[X(t)] = t
         /\ Calls(t, "arg") /\ prog \notin Dangling =>
              thr[X(t)].st \notin {"unwind"} \cup Gone

(* The call in which a thread has ended: it returned, called               *)
(* pthread_exit(), or was canceled there.                                  *)
EndedIn(t) == IF Returns(t) THEN "return" ELSE NextCall(t).op

(* A thread that has ended, wherever it returned or was canceled, has      *)
(* freed every block it allocated and owns no lock, and no handler, call   *)
(* or destructor frees a block twice or unlocks a mutex the thread does    *)
(* not have.  The calls in which a program does lose a block are named in  *)
(* Leaky, one by one.                                                      *)
NothingLeaked ==
    \A t \in Threads :
        /\ \A r \in Blocks : thr[t].heap[r] >= 0
        /\ thr[t].st \in Gone =>
             /\ t \notin {owner[m] : m \in Locks}
             /\ <<prog, t, EndedIn(t)>> \notin Leaky =>
                  \A r \in Blocks : thr[t].heap[r] = 0
        /\ thr[t].st = "unwind" /\ thr[t].stack # <<>>
             /\ Handler(t).lock \in Locks => owner[Handler(t).lock] = t

(* The process ends, and at a regular exit the shared variables have the   *)
(* values the program is to show: no update, unit or wakeup is lost, the   *)
(* initialisation is done once.                                            *)
Completes ==
    prog \notin Polling =>
        <>(/\ proc # "run"
           /\ proc = "exit" /\ prog \in DOMAIN Outcomes =>
                \A v \in DOMAIN Outcomes[prog] : mem[v] \in Outcomes[prog][v])
=============================================================================
