--------------------------- MODULE ThreadMultijoin ---------------------------
(***************************************************************************)
(* chapter30/thread_multijoin.c: main creates one thread per command-line  *)
(* argument and joins the threads in the order in which they end.  A       *)
(* thread that ends marks its slot of the array "thread" under threadMutex *)
(* and signals threadDied after it has released the mutex; main scans the  *)
(* array, and joins, with the mutex held.                                  *)
(*                                                                         *)
(* Slot i of the array holds the tid of thread i.  The program hands each  *)
(* thread the address of main's loop variable idx, which main goes on      *)
(* changing; the book's version of the same program, in                    *)
(* tlpi-dist/threads/thread_multijoin.c, hands it the value.  The variable *)
(* arg, constant in every behaviour, says which program is running.        *)
(***************************************************************************)
EXTENDS Integers, FiniteSets

CONSTANTS N,            \* number of threads, argc - 1
          Args,         \* what the programs considered pass to a thread
          MaxSpurious   \* bound: spurious wakeups of pthread_cond_wait()

ASSUME NAssumption == N \in Nat \ {0}
ASSUME ArgsAssumption == Args \subseteq {"value", "address"}
ASSUME MaxSpuriousAssumption == MaxSpurious \in Nat

VARIABLES arg,          \* the program: "value" or "address" of idx
          mpc,          \* program counter of main
          idx,          \* main's loop variable
          state,        \* thread[i].state
          numUnjoined, numLive, totThreads,
          mutex,        \* holder of threadMutex
          tpc,          \* program counter of each thread
          tidx,         \* each thread's local idx
          joined,       \* the threads pthread_join() has returned for
          spurious      \* spurious wakeups so far

mainVars == <<arg, mpc, idx, numLive, totThreads, joined, spurious>>
vars == <<arg, mpc, idx, state, numUnjoined, numLive, totThreads, mutex, tpc,
          tidx, joined, spurious>>

Threads == 0 .. N - 1
Main == N
Free == N + 1

Running == mpc \notin {"exited", "failed"}

Init ==
    /\ arg \in Args
    /\ mpc = "for" /\ idx = 0
    /\ state = [i \in Threads |-> "TS_ALIVE"]       \* calloc
    /\ numUnjoined = 0 /\ numLive = 0 /\ totThreads = 0
    /\ mutex = Free
    /\ tpc = [t \in Threads |-> "unborn"]
    /\ tidx = [t \in Threads |-> 0]
    /\ joined = {} /\ spurious = 0

-----------------------------------------------------------------------------
(* main: the creation of the threads *)

(* The slot is initialised without the mutex. *)
For ==
    /\ mpc = "for"
    /\ IF idx < N
       THEN mpc' = "create" /\ state' = [state EXCEPT ![idx] = "TS_ALIVE"]
       ELSE mpc' = "counts" /\ state' = state
    /\ UNCHANGED <<arg, idx, numUnjoined, numLive, totThreads, mutex, tpc,
                   tidx, joined, spurious>>

Create ==
    /\ mpc = "create"
    /\ tpc' = [tpc EXCEPT ![idx] = "start"]
    /\ mpc' = "created"
    /\ UNCHANGED <<arg, idx, state, numUnjoined, numLive, totThreads, mutex,
                   tidx, joined, spurious>>

CreateFails ==
    /\ mpc = "create"
    /\ mpc' = "failed"
    /\ UNCHANGED <<arg, idx, state, numUnjoined, numLive, totThreads, mutex,
                   tpc, tidx, joined, spurious>>

(* idx++, which a thread just created may or may not see. *)
Advance ==
    /\ mpc = "created"
    /\ idx' = idx + 1
    /\ mpc' = "for"
    /\ UNCHANGED <<arg, state, numUnjoined, numLive, totThreads, mutex, tpc,
                   tidx, joined, spurious>>

Counts ==
    /\ mpc = "counts"
    /\ totThreads' = N
    /\ numLive' = N
    /\ mpc' = "test"
    /\ UNCHANGED <<arg, idx, state, numUnjoined, mutex, tpc, tidx, joined,
                   spurious>>

-----------------------------------------------------------------------------
(* main: the loop that joins *)

(* while (numLive > 0); exit() ends the process with all its threads. *)
Test ==
    /\ mpc = "test"
    /\ mpc' = IF numLive > 0 THEN "lock" ELSE "exited"
    /\ UNCHANGED <<arg, idx, state, numUnjoined, numLive, totThreads, mutex,
                   tpc, tidx, joined, spurious>>

(* pthread_mutex_lock(), or the end of pthread_cond_wait(), which returns  *)
(* with the mutex held.                                                    *)
Lock ==
    /\ mpc \in {"lock", "relock"}
    /\ mutex = Free
    /\ mutex' = Main
    /\ mpc' = "check"
    /\ UNCHANGED <<arg, idx, state, numUnjoined, numLive, totThreads, tpc,
                   tidx, joined, spurious>>

(* while (numUnjoined == 0) pthread_cond_wait(): the wait releases the     *)
(* mutex and blocks in one atomic step.                                    *)
Check ==
    /\ mpc = "check"
    /\ IF numUnjoined = 0
       THEN mpc' = "wait" /\ mutex' = Free /\ idx' = idx
       ELSE mpc' = "scan" /\ mutex' = mutex /\ idx' = 0
    /\ UNCHANGED <<arg, state, numUnjoined, numLive, totThreads, tpc, tidx,
                   joined, spurious>>

SpuriousWakeup ==
    /\ mpc = "wait"
    /\ spurious < MaxSpurious
    /\ spurious' = spurious + 1
    /\ mpc' = "relock"
    /\ UNCHANGED <<arg, idx, state, numUnjoined, numLive, totThreads, mutex,
                   tpc, tidx, joined>>

(* Mutant: a thread that is still alive is joined too. *)
ScanAlive ==
    /\ mpc = "scan"
    /\ \/ /\ idx < totThreads
          /\ state[idx] # "TS_JOINED"
          /\ mpc' = "join" /\ idx' = idx
       \/ /\ idx < totThreads
          /\ state[idx] = "TS_JOINED"
          /\ mpc' = mpc /\ idx' = idx + 1
       \/ /\ idx >= totThreads
          /\ mpc' = "unlock" /\ idx' = idx
    /\ UNCHANGED <<arg, state, numUnjoined, numLive, totThreads, mutex, tpc,
                   tidx, joined, spurious>>

(* One slot of the for loop over the array. *)
Scan ==
    /\ mpc = "scan"
    /\ \/ /\ idx < totThreads
          /\ state[idx] = "TS_TERMINATED"
          /\ mpc' = "join" /\ idx' = idx
       \/ /\ idx < totThreads
          /\ state[idx] # "TS_TERMINATED"
          /\ mpc' = mpc /\ idx' = idx + 1
       \/ /\ idx >= totThreads
          /\ mpc' = "unlock" /\ idx' = idx
    /\ UNCHANGED <<arg, state, numUnjoined, numLive, totThreads, mutex, tpc,
                   tidx, joined, spurious>>

(* Mutant: the count of ended threads is not taken back. *)
JoinKeepsCount ==
    /\ mpc = "join"
    /\ tpc[idx] = "done" /\ idx \notin joined
    /\ joined' = joined \cup {idx}
    /\ state' = [state EXCEPT ![idx] = "TS_JOINED"]
    /\ numLive' = numLive - 1
    /\ idx' = idx + 1
    /\ mpc' = "scan"
    /\ UNCHANGED <<arg, numUnjoined, totThreads, mutex, tpc, tidx,
                   spurious>>

(* Mutant: the slot is not marked as joined. *)
JoinKeepsState ==
    /\ mpc = "join"
    /\ tpc[idx] = "done"
    /\ joined' = joined \cup {idx}
    /\ numLive' = numLive - 1
    /\ numUnjoined' = numUnjoined - 1
    /\ idx' = idx + 1
    /\ mpc' = "scan"
    /\ UNCHANGED <<arg, state, totThreads, mutex, tpc, tidx, spurious>>

(* pthread_join() blocks, with the mutex held, until the thread has ended. *)
Join ==
    /\ mpc = "join"
    /\ tpc[idx] = "done" /\ idx \notin joined
    /\ joined' = joined \cup {idx}
    /\ state' = [state EXCEPT ![idx] = "TS_JOINED"]
    /\ numLive' = numLive - 1
    /\ numUnjoined' = numUnjoined - 1
    /\ idx' = idx + 1
    /\ mpc' = "scan"
    /\ UNCHANGED <<arg, totThreads, mutex, tpc, tidx, spurious>>

(* The slot of a thread that is already joined was marked again: the       *)
(* second pthread_join() fails and errExit() ends the process.             *)
JoinAgain ==
    /\ mpc = "join"
    /\ idx \in joined
    /\ mpc' = "failed"
    /\ UNCHANGED <<arg, idx, state, numUnjoined, numLive, totThreads, mutex,
                   tpc, tidx, joined, spurious>>

Unlock ==
    /\ mpc = "unlock"
    /\ mutex' = Free
    /\ mpc' = "test"
    /\ UNCHANGED <<arg, idx, state, numUnjoined, numLive, totThreads, tpc,
                   tidx, joined, spurious>>

-----------------------------------------------------------------------------
(* threadFunc *)

(* Where the thread reads its index, and the sleep that follows. *)
ThreadStart(t) ==
    /\ Running
    /\ tpc[t] = "start"
    /\ tpc' = [tpc EXCEPT ![t] = "lock"]
    /\ tidx' = [tidx EXCEPT ![t] = IF arg = "value" THEN t ELSE idx]
    /\ UNCHANGED <<mainVars, state, numUnjoined, mutex>>

ThreadLock(t) ==
    /\ Running
    /\ tpc[t] = "lock"
    /\ mutex = Free
    /\ mutex' = t
    /\ tpc' = [tpc EXCEPT ![t] = "update"]
    /\ UNCHANGED <<mainVars, state, numUnjoined, tidx>>

(* An index N, which idx has between main's loops, is outside the array:   *)
(* the write then leaves every slot as it was.                             *)
ThreadUpdate(t) ==
    /\ Running
    /\ tpc[t] = "update"
    /\ numUnjoined' = numUnjoined + 1
    /\ state' = IF tidx[t] \in Threads
                THEN [state EXCEPT ![tidx[t]] = "TS_TERMINATED"]
                ELSE state
    /\ tpc' = [tpc EXCEPT ![t] = "unlock"]
    /\ UNCHANGED <<mainVars, mutex, tidx>>

ThreadUnlock(t) ==
    /\ Running
    /\ tpc[t] = "unlock"
    /\ mutex' = Free
    /\ tpc' = [tpc EXCEPT ![t] = "signal"]
    /\ UNCHANGED <<mainVars, state, numUnjoined, tidx>>

(* Mutant: the signal is forgotten. *)
ThreadNoSignal(t) ==
    /\ Running
    /\ tpc[t] = "signal"
    /\ tpc' = [tpc EXCEPT ![t] = "done"]
    /\ UNCHANGED <<mainVars, state, numUnjoined, mutex, tidx>>

(* pthread_cond_signal(), which is lost unless main is waiting, and the    *)
(* return from the thread's start function.                                *)
ThreadSignal(t) ==
    /\ Running
    /\ tpc[t] = "signal"
    /\ mpc' = IF mpc = "wait" THEN "relock" ELSE mpc
    /\ tpc' = [tpc EXCEPT ![t] = "done"]
    /\ UNCHANGED <<arg, idx, state, numUnjoined, numLive, totThreads, mutex,
                   tidx, joined, spurious>>

-----------------------------------------------------------------------------
Terminated == ~Running /\ UNCHANGED vars

MainStep == For \/ Create \/ CreateFails \/ Advance \/ Counts \/ Test \/ Lock
            \/ Check \/ Scan \/ Join \/ JoinAgain \/ Unlock

ThreadStep(t) == ThreadStart(t) \/ ThreadLock(t) \/ ThreadUpdate(t)
                 \/ ThreadUnlock(t) \/ ThreadSignal(t)

Next ==
    \/ MainStep
    \/ SpuriousWakeup
    \/ \E t \in Threads : ThreadStep(t)
    \/ Terminated

(* Main and every thread run when they can: sleep() ends and a free mutex  *)
(* is not withheld for ever.  Spurious wakeups need not happen.            *)
Fairness == WF_vars(MainStep) /\ \A t \in Threads : WF_vars(ThreadStep(t))

Spec == Init /\ [][Next]_vars /\ Fairness

-----------------------------------------------------------------------------
(* Properties *)

MainPc == {"for", "create", "created", "counts", "test", "lock", "check",
           "wait", "relock", "scan", "join", "unlock", "exited", "failed"}
ThreadPc == {"unborn", "start", "lock", "update", "unlock", "signal", "done"}
TState == {"TS_ALIVE", "TS_TERMINATED", "TS_JOINED"}

TypeOK ==
    /\ arg \in {"value", "address"}
    /\ mpc \in MainPc
    /\ idx \in 0 .. N
    /\ state \in [Threads -> TState]
    /\ numUnjoined \in Nat
    /\ numLive \in Nat
    /\ totThreads \in {0, N}
    /\ mutex \in 0 .. N + 1
    /\ tpc \in [Threads -> ThreadPc]
    /\ tidx \in [Threads -> 0 .. N]
    /\ joined \subseteq Threads
    /\ spurious \in Nat

(* main holds threadMutex while it blocks in pthread_join() (lines 107-118)*)
(* and so must never join a thread that still needs the mutex: the two     *)
(* would wait for each other for ever.  This needs the index by value.     *)
JoinOnlyPastMutex ==
    arg = "value" /\ mpc = "join" => tpc[idx] \in {"signal", "done"}

(* The two counters agree with the array at every moment, although threads *)
(* and main update them at different places (lines 45-46 and 113-115),     *)
(* if each thread has its own index.                                       *)
InState(s) == {i \in Threads : state[i] = s}

CountersExact ==
    arg = "value" =>
        /\ numUnjoined = Cardinality(InState("TS_TERMINATED"))
        /\ totThreads = N =>
              numLive = N - Cardinality(InState("TS_JOINED"))

(* No lost wakeup, although threadDied is signalled after the mutex has    *)
(* been released (lines 48-54): while main waits with an ended thread to   *)
(* join, some thread has yet to send its signal.                           *)
SignalStillToCome ==
    mpc = "wait" /\ numUnjoined > 0 =>
        \E t \in Threads : tpc[t] \in {"unlock", "signal"}

(* What the loop promises (line 90): a thread is joined once and after its *)
(* end, and all of them before the program exits successfully; and if each *)
(* thread has its own index, every thread that ends is joined.             *)
Abstract == INSTANCE CollectAll WITH
    Workers <- Threads,
    ended <- {t \in Threads : tpc[t] = "done"},
    collected <- joined,
    outcome <- IF Running THEN "running" ELSE mpc

CollectsAll == Abstract!SafeSpec /\ (arg = "value" => Abstract!Fairness)

(* The comment of line 90, "wait for and join all threads": once main has  *)
(* entered its loop it comes to the successful end.                        *)
JoinsAll == mpc = "test" ~> mpc = "exited"
=============================================================================
