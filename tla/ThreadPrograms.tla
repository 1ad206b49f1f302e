--------------------------- MODULE ThreadPrograms ---------------------------
(***************************************************************************)
(* The programs of chapter29 to chapter32 and of tlpi-dist/threads and     *)
(* psem, each as a function from its threads to the calls they make.       *)
(* Module Pthreads gives the calls their meaning.  A call that returns an  *)
(* error ends the program in errExit() and is part of the call.  Output is *)
(* left out, but for a printf() that may be the cancellation point at      *)
(* which a thread ends.  Loops with a fixed number of rounds are unrolled, *)
(* with Loops rounds.                                                      *)
(***************************************************************************)
EXTENDS Naturals, Integers, Sequences

CONSTANT Loops          \* bound: rounds of a loop, units a producer makes

ASSUME LoopsAssumption == Loops \in Nat \ {0}

Call(op, x, n) == [op |-> op, x |-> x, n |-> n]

Create(t)      == Call("pthread_create", t, 0)
CreateDetached(t) == Call("create_detached", t, 0)
Join(t)        == Call("pthread_join", t, 0)
Exit           == Call("exit", "", 0)
PthreadExit    == Call("pthread_exit", "", 0)
Sleep          == Call("sleep", "", 0)          \* also pthread_testcancel()
Printf         == Call("printf", "", 0)
Arg(t)         == Call("arg", t, 0)             \* reads a local variable of t
Load(v)        == Call("load", v, 0)
Store(v, n)    == Call("store", v, n)           \* what was loaded, plus n
Set(v, n)      == Call("set", v, n)
Skip(v, k, n)  == Call("skip", v, <<k, n>>)     \* if v >= k, n calls on
Jump(n)        == Call("jump", "", n)
Lock(m)        == Call("lock", m, 0)
Unlock(m)      == Call("unlock", m, 0)
Wait(c, m)     == Call("cond_wait", m, c)
Signal(c)      == Call("cond_signal", "", c)
SemWait(s)     == Call("sem_wait", s, 0)
SemPost(s)     == Call("sem_post", s, 0)
Barrier(b, n)  == Call("barrier_wait", b, n)
Once(v, c)     == Call("pthread_once", v, c)
SkipSpecific(n) == Call("getspecific", "", n)   \* if there is a value, n on
SetSpecific(r) == Call("setspecific", r, 0)
Alloc(r)       == Call("malloc", r, 0)          \* also strdup()
Push(r, m)     == Call("cleanup_push", r, m)    \* frees r and unlocks m
Pop            == Call("cleanup_pop", "", 0)
Free(r)        == Call("free", r, 0)
Cancel(t)      == Call("pthread_cancel", t, 0)
CancelState(s) == Call("setcancelstate", s, 0)
CancelType(s)  == Call("setcanceltype", s, 0)
Block(S)       == Call("sigmask", S, 0)
Handle(sig)    == Call("sigaction", sig, 0)
Kill(t, sig)   == Call("pthread_kill", t, sig)
SigQueue(sig)  == Call("sigqueue", "", sig)
SigWait(S)     == Call("sigwait", S, 0)

Repeat(n, s) == [i \in 1..n * Len(s) |-> s[((i - 1) % Len(s)) + 1]]
Incr(v) == <<Load(v), Store(v, 1)>>
Two(f) == [main |-> <<Create("t1"), Create("t2"), Join("t1"), Join("t2"),
                      Exit>>, t1 |-> f, t2 |-> f]

-----------------------------------------------------------------------------
(* chapter29 *)

detached_attrib_threadFunc == <<Arg("main")>> \o Repeat(Loops, <<Sleep>>)
detached_attrib_main ==
    <<CreateDetached("t1"), CreateDetached("t2"), Sleep, Exit>>
detached_attrib == [main |-> detached_attrib_main,
                    t1 |-> detached_attrib_threadFunc,
                    t2 |-> detached_attrib_threadFunc]

exercise_1_main == <<Join("main"), Exit>>

simple_thread_main == <<Create("t1"), Join("t1"), Exit>>

thread_exit_threadFunc == <<Arg("main")>> \o Repeat(Loops, <<Sleep>>)
thread_exit_main == <<Create("t1"), Create("t2"), PthreadExit>>
thread_exit == [main |-> thread_exit_main,
                t1 |-> thread_exit_threadFunc, t2 |-> thread_exit_threadFunc]

(* tlpi-dist/threads/detached_attrib.c joins with a detached thread. *)
detached_join_main == <<CreateDetached("t1"), Join("t1"), Exit>>

-----------------------------------------------------------------------------
(* chapter30, the variants in tlpi-dist, and chapter31 *)

thread_incr_threadFunc == <<Arg("main")>> \o Repeat(Loops, Incr("glob"))
thread_incr_main == Two(thread_incr_threadFunc)

(* Mutant: the increment is done after the mutex is unlocked. *)
incr_mutex_threadFuncEarly ==
    <<Arg("main")>> \o
    Repeat(Loops, <<Lock("mtx")>> \o <<Load("glob")>> \o <<Unlock("mtx")>>
                  \o <<Store("glob", 1)>>)

incr_mutex_threadFunc ==
    <<Arg("main")>> \o
    Repeat(Loops, <<Lock("mtx")>> \o Incr("glob") \o <<Unlock("mtx")>>)
incr_mutex_main == Two(incr_mutex_threadFunc)

incr_rwlock_threadFunc ==
    <<Arg("main")>> \o
    Repeat(Loops, <<Lock("rwlock")>> \o Incr("glob") \o <<Unlock("rwlock")>>)
incr_rwlock_main == Two(incr_rwlock_threadFunc)

incr_spinlock_threadFunc ==
    <<Arg("main")>> \o
    Repeat(Loops, <<Lock("splock")>> \o Incr("glob") \o <<Unlock("splock")>>)
incr_spinlock_main == Two(incr_spinlock_threadFunc)

incr_psem_threadFunc ==
    <<Arg("main")>> \o
    Repeat(Loops, <<SemWait("sem")>> \o Incr("glob") \o <<SemPost("sem")>>)
incr_psem_main ==
    [Two(incr_psem_threadFunc) EXCEPT !.main = <<Set("sem", 1)>> \o @]

(* thread_lock_speed: the inner loop holds the lock for several rounds.    *)
lock_speed_threadFunc(lock) ==
    Repeat(Loops, <<Lock(lock)>> \o Incr("glob") \o Incr("glob")
                  \o <<Unlock(lock)>>)
lock_speed_main(useMutex) ==
    Two(lock_speed_threadFunc(IF useMutex THEN "mtx" ELSE "splock"))

(* tls: only what the threads share, the counter global_var.               *)
tls_threadFunc ==
    Repeat(Loops, <<Lock("mtx")>> \o Incr("glob") \o <<Unlock("mtx"), Sleep>>)
tls_main == [main |-> <<Create("t1"), Create("t2"), Create("t3"), Sleep,
                        Join("t1"), Join("t2"), Join("t3"), Exit>>,
             t1 |-> tls_threadFunc, t2 |-> tls_threadFunc,
             t3 |-> tls_threadFunc]

(* tsd: strerror_tsd() gives every thread a buffer at its first call.      *)
strerror_tsd == <<Once("called", "keys"), SkipSpecific(3), Alloc("buf"),
                  SetSpecific("buf")>>
tsd_threadFunc == Repeat(2, strerror_tsd)
tsd_main == [main |-> strerror_tsd \o
                      <<Create("t1"), Create("t2"), Create("t3"),
                        Join("t1"), Join("t2"), Join("t3")>>
                      \o strerror_tsd \o <<Exit>>,
             t1 |-> tsd_threadFunc, t2 |-> tsd_threadFunc,
             t3 |-> tsd_threadFunc]

(* strerror_test with strerror_tsd.c of tlpi-dist.                         *)
strerror == <<Once("called", "keys"), SkipSpecific(3), Alloc("buf"),
              SetSpecific("buf")>>
strerror_test_main ==
    [main |-> strerror \o <<Create("t1"), Join("t1"), Exit>>, t1 |-> strerror]

-----------------------------------------------------------------------------
(* chapter32 *)

(* pthread_cleanup_pop(1): the handler is off the stack when it is called, *)
(* and prints before it frees.                                             *)
cleanup_handler(r) == <<Printf, Free(r)>>
PopAndRun(r) == <<Pop>> \o cleanup_handler(r)

normalExitThread ==
    <<Alloc("r1"), Push("r1", ""), Alloc("r2"), Push("r2", ""), Sleep>>
    \o PopAndRun("r2") \o PopAndRun("r1")
canceledThread ==
    <<Alloc("r1"), Push("r1", ""), Alloc("r2"), Push("r2", ""),
      CancelState("enable"), CancelType("deferred"), Sleep, Jump(-1)>>
noCleanupThread ==
    <<Alloc("r1"), Push("r1", ""), Alloc("r2"), Push("r2", ""), Sleep,
      Pop, Pop>>
pthread_cleanup_main ==
    [main |-> <<Create("t1"), Join("t1"), Create("t2"), Sleep, Cancel("t2"),
                Join("t2"), Create("t3"), Join("t3"), Exit>>,
     t1 |-> normalExitThread, t2 |-> canceledThread, t3 |-> noCleanupThread]

asyncCancelThread ==
    <<Printf, CancelState("enable"), CancelType("async"), Alloc("r1"),
      Push("r1", ""), Sleep, Jump(-1)>>
deferredCancelThread ==
    <<Printf, CancelState("enable"), CancelType("deferred"), Alloc("r1"),
      Push("r1", "")>>
    \o Repeat(Loops, <<Sleep>>) \o PopAndRun("r1") \o <<Printf>>
disabledCancelThread ==
    <<Printf, CancelState("disable"), Alloc("r1"), Push("r1", "")>>
    \o Repeat(Loops, <<Sleep>>) \o <<CancelState("enable")>>
    \o Repeat(Loops, <<Sleep>>) \o PopAndRun("r1") \o <<Printf>>
thread_cancel_main ==
    [main |-> <<Create("t1"), Create("t2"), Create("t3"), Sleep,
                Cancel("t1"), Join("t1"), Sleep, Cancel("t2"), Join("t2"),
                Sleep, Cancel("t3"), Join("t3"), Exit>>,
     t1 |-> asyncCancelThread, t2 |-> deferredCancelThread,
     t3 |-> disabledCancelThread]

testCancelThread ==
    <<Printf, CancelState("enable"), CancelType("deferred"), Alloc("r1"),
      Push("r1", "")>>
    \o Repeat(Loops, <<Sleep>>) \o PopAndRun("r1") \o <<Printf>>
noTestCancelThread ==
    <<Printf, CancelState("enable"), CancelType("deferred"), Alloc("r1"),
      Push("r1", "")>>
    \o Repeat(Loops, <<Printf, Sleep>>) \o PopAndRun("r1") \o <<Printf>>

(* Mutant: the cleanup handler is pushed after the first testcancel. *)
criticalSectionThreadLate ==
    <<Printf, Alloc("r1"), Sleep, Push("r1", "")>>
    \o Repeat(Loops, <<Sleep, CancelState("disable"), Sleep,
                       CancelState("enable"), Sleep>>)
    \o PopAndRun("r1") \o <<Printf>>

criticalSectionThread ==
    <<Printf, Alloc("r1"), Push("r1", "")>>
    \o Repeat(Loops, <<Sleep, CancelState("disable"), Sleep,
                       CancelState("enable"), Sleep>>)
    \o PopAndRun("r1") \o <<Printf>>
testcancel_main ==
    [main |-> <<Create("t1"), Create("t2"), Create("t3"), Sleep,
                Cancel("t1"), Cancel("t2"), Cancel("t3"),
                Join("t1"), Join("t2"), Join("t3"), Exit>>,
     t1 |-> testCancelThread, t2 |-> noTestCancelThread,
     t3 |-> criticalSectionThread]

(* pthread_signal: the sender takes pthread_self() for the main thread.    *)
sigwaitThread == <<SigWait({"SIGUSR1", "SIGUSR2"}), Jump(-1)>>
signalSenderThread ==
    <<Sleep, Kill("t2", "SIGUSR1"), Sleep, Kill("t2", "SIGUSR2"), Sleep,
      SigQueue("SIGINT"), Sleep>>
pthread_signal_main ==
    [main |-> <<Block({"SIGUSR1", "SIGUSR2"}), Handle("SIGINT"),
                Create("t1"), Create("t2"), Join("t2"),
                Kill("t1", "SIGTERM"), Join("t1"), Exit>>,
     t1 |-> sigwaitThread, t2 |-> signalSenderThread]

-----------------------------------------------------------------------------
(* tlpi-dist/threads *)

one_time_init ==
    <<Lock("once"), Skip("called", 1, 4)>> \o Incr("inits")
    \o <<Set("called", 1), Unlock("once")>>
one_time_init_main == Two(one_time_init \o one_time_init)

producer == Repeat(Loops, <<Sleep, Lock("mtx")>> \o Incr("avail")
                          \o <<Unlock("mtx"), Signal("cond")>>)

(* Mutant: if instead of while around pthread_cond_wait(). *)
prod_condvar_mainIf ==
    [main |-> <<Create("t1"), Create("t2"), Lock("mtx"),
                Skip("avail", 1, 3), Wait("cond", "mtx"), Jump(1),
                Load("avail"), Store("avail", -1)>> \o Incr("numConsumed")
              \o <<Skip("avail", 1, -4), Unlock("mtx"),
                   Skip("numConsumed", 2 * Loops, 2), Jump(-11), Exit>>,
     t1 |-> producer, t2 |-> producer]

prod_condvar_main ==
    [main |-> <<Create("t1"), Create("t2"), Lock("mtx"),
                Skip("avail", 1, 3), Wait("cond", "mtx"), Jump(-2),
                Load("avail"), Store("avail", -1)>> \o Incr("numConsumed")
              \o <<Skip("avail", 1, -4), Unlock("mtx"),
                   Skip("numConsumed", 2 * Loops, 2), Jump(-11), Exit>>,
     t1 |-> producer, t2 |-> producer]

polled_producer == Repeat(Loops, <<Sleep, Lock("mtx")>> \o Incr("avail")
                                 \o <<Unlock("mtx")>>)
prod_no_condvar_main ==
    [main |-> <<Create("t1"), Create("t2"), Lock("mtx"),
                Skip("avail", 1, 2), Jump(6),
                Load("avail"), Store("avail", -1)>> \o Incr("numConsumed")
              \o <<Jump(-6), Unlock("mtx"),
                   Skip("numConsumed", 2 * Loops, 2), Jump(-10), Exit>>,
     t1 |-> polled_producer, t2 |-> polled_producer]

(* thread_cleanup: a thread that can be canceled (argc = 1) never leaves   *)
(* the loop, so the printf() calls after it are no cancellation points.    *)
thread_cleanup_threadFunc ==
    <<Alloc("buf"), Printf, Lock("mtx"), Push("buf", "mtx"),
      Skip("glob", 1, 3), Wait("cond", "mtx"), Jump(-2),
      Pop, Free("buf"), Unlock("mtx")>>
thread_cleanup_main(argc) ==
    [main |-> <<Create("t1"), Sleep>>
              \o (IF argc = 1 THEN <<Cancel("t1")>>
                  ELSE <<Lock("mtx"), Set("glob", 1), Unlock("mtx"),
                         Signal("cond")>>)
              \o <<Join("t1"), Exit>>,
     t1 |-> thread_cleanup_threadFunc]

cancel_loop_threadFunc == <<Printf, Sleep, Jump(-1)>>
cancel_loop_main ==
    [main |-> <<Create("t1"), Sleep, Cancel("t1"), Join("t1"), Exit>>,
     t1 |-> cancel_loop_threadFunc]

(* Mutant: the barrier waits for main as well. *)
barrier_threadFuncFour == Repeat(Loops, <<Sleep, Barrier("barrier", 4)>>)

barrier_threadFunc == Repeat(Loops, <<Sleep, Barrier("barrier", 3)>>)
barrier_main ==
    [main |-> <<Create("t1"), Create("t2"), Create("t3"),
                Join("t1"), Join("t2"), Join("t3"), Exit>>,
     t1 |-> barrier_threadFunc, t2 |-> barrier_threadFunc,
     t3 |-> barrier_threadFunc]

-----------------------------------------------------------------------------
(* All programs.                                                           *)
AllPrograms ==
    [detached_attrib |-> detached_attrib,
     exercise_1 |-> [main |-> exercise_1_main],
     simple_thread |-> [main |-> simple_thread_main, t1 |-> <<>>],
     thread_exit |-> thread_exit,
     detached_join |-> [main |-> detached_join_main, t1 |-> <<>>],
     thread_incr |-> thread_incr_main,
     thread_incr_mutex |-> incr_mutex_main,
     thread_incr_rwlock |-> incr_rwlock_main,
     thread_incr_spinlock |-> incr_spinlock_main,
     thread_incr_psem |-> incr_psem_main,
     thread_lock_speed |-> lock_speed_main(TRUE),
     thread_spin_speed |-> lock_speed_main(FALSE),
     tls |-> tls_main, tsd |-> tsd_main, strerror_test |-> strerror_test_main,
     pthread_cleanup |-> pthread_cleanup_main,
     thread_cancel |-> thread_cancel_main,
     pthread_testcancel |-> testcancel_main,
     pthread_signal |-> pthread_signal_main,
     one_time_init |-> one_time_init_main,
     prod_condvar |-> prod_condvar_main,
     prod_no_condvar |-> prod_no_condvar_main,
     thread_cleanup |-> thread_cleanup_main(1),
     thread_cleanup_signal |-> thread_cleanup_main(2),
     cancel_loop |-> cancel_loop_main,
     barrier |-> barrier_main]

(* What the programs leave in their shared variables.  Of the increments   *)
(* of thread_incr all but two may be lost.                                 *)
Increments(n) == [glob |-> {n * Loops}]
Results ==
    [thread_incr |-> [glob |-> 2..2 * Loops],
     thread_incr_mutex |-> Increments(2), thread_incr_rwlock |-> Increments(2),
     thread_incr_spinlock |-> Increments(2), thread_incr_psem |-> Increments(2),
     thread_lock_speed |-> Increments(4), thread_spin_speed |-> Increments(4),
     tls |-> Increments(3),
     tsd |-> [keys |-> {1}], strerror_test |-> [keys |-> {1}],
     one_time_init |-> [inits |-> {1}],
     prod_condvar |-> [avail |-> {0}, numConsumed |-> {2 * Loops}],
     barrier |-> [barrier |-> {0}]]
=============================================================================
