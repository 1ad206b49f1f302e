# TLA+ models of the exercise programs for "The Linux Programming Interface"

The repository holds one reader's programs for the chapters of the book, under
`src/chapterNN/`, a small library, `src/lib/` (error exits, argument parsing,
signal printing), and the book's own programs in two editions,
`src/tlpi-dist/` and `src/tlpi-book/`, most of which differ little.  There is
no single system: every program has its own state, and programs interact
through the kernel (signals, pipes, FIFOs, sockets, message queues, process
groups, the process table) or, in one process, through shared memory.  What can
go wrong in them is what is hard to test: the interleaving of a handler with
the code it interrupts, of threads around a mutex, of processes around a pipe.
These modules model the programs in which that matters.

## Inventory

| Programs | State | Operations | Interaction | What is hard, what makes it correct |
|---|---|---|---|---|
| `chapter26/multi_SIGCHLD.c` | `numLiveChildren`, `sigCnt`, signal mask, pending set, children | fork loop, `sigsuspend()` loop, `SIGCHLD` handler | signals, process table | signals do not queue; no child's end is missed, the counter is exact |
| `chapter30/thread_multijoin.c` | array of slots, `numUnjoined`, `numLive`, mutex, condition | create, wait, scan and join; thread end | shared memory, `pthread_join()` under a mutex | lost signals, deadlock, an index read through a pointer; all threads are joined |
| `chapter35/pipe_cpu_affinity.c` | two non-blocking pipes, offsets, rounds, CPU masks | write a buffer, read a buffer, wait | pipes in both directions | both write first; partial transfers; end of file |
| `chapter44/fifo_seqnum_server.c`, `_client.c` | counter, the server's FIFO, one FIFO per client | request, response, clean-up at exit | FIFOs, rendezvous in `open()` | killed clients, restarts, overflow; numbers are unique, responses not mixed up |
| `chapter44/mkfifo.c` | one FIFO, children of four demonstrations | fork, open, read, write, close, wait, clean-up handler | FIFO, signals, `waitpid()` | end of file between writers, one FIFO in both directions |
| `tlpi-dist/inotify/inotify_dtree.c`, `rand_dtree.c` | cache of pathnames, watches, event queue, read buffer | events, tree walk, rename over two reads, rebuild, commands | inotify, file system | directories change while earlier events are processed; cache and watches agree |
| `chapter29`-`32`, `tlpi-dist/threads`, `psem` | threads, cleanup stacks, keys, locks, conditions | create, join, cancel, push and pop, lock, wait | cancellation, shared memory | no lost update or wakeup, nothing leaked however a thread ends |
| pipes: `chapter44`, `tlpi-dist/pipes`, `mmap`, `svshm`, `svsem` | pipe ends, shared memory, semaphores | fork, close, read, wait, reserve and release | pipes, memory | end of file only when every copy of the write end is closed; initialisation of semaphores |
| `chapter27/system.c` | mask, dispositions | block, ignore, fork, wait, restore | signals, `waitpid()` | a caller's handler must not reap the child; everything is restored |
| signals and waits: `chapter20`-`26`, `tlpi-dist/signals`, `procexec`, `timers` | mask, pending set, dispositions, children | block, suspend, kill, alarm, wait | signals | a signal that comes before the wait for it |
| job control: `chapter34`, `37`, `tlpi-dist/pgsjc`, `daemons`, `pty` | groups, sessions, foreground group | setpgid, setsid, tcsetpgrp, fork | terminal signals | stops nobody waits for, order of `setpgid()` and exec |
| servers: `tlpi-dist/sockets`, `svmsg`, `pmsg`, `altio` | connections, queues, notification | accept, send, receive, notify, shutdown | sockets, queues | dead clients, notification given once, who closes last |
| `tlpi-dist/namespaces`, `seccomp`, `filelock` | children, pipes, descriptors passed | clone, wait, notify, lock | pipes, signals, supervisor and target | who goes first; a partner that dies |
| `chapter4`, `chapter5` | offsets, files | read, write, seek | file system | appends and exclusive creation by two processes |
| the rest | none to speak of | single system calls, lookups, printing | - | not modelled |

`PROJECT.json` lists every program with its status, and the hazards at the line
where they bite.

## Modules

| Module | Models | State and actions |
|---|---|---|
| `CollectAll` | the promise of a parent that starts workers and waits for them | `ended`, `collected`, `outcome`; `End`, `Collect`, `Finish`, `GiveUp` |
| `MultiSigchld` | `multi_SIGCHLD.c` | `pc` is where the process executes, `intr` the place a running handler returns to; `mask` and `pending` are sets, since standard signals do not queue.  `Setup`, `Block`, `Fork`, `Check`, `Suspend`, `Woken` are main; `Deliver`, `HandlerReap`, `HandlerNoMore`, `HandlerReturn` the handler; `ChildExit`, `ChildStop`, `ChildContinue` the children, the last two because `SA_NOCLDSTOP` is not set |
| `ThreadMultijoin` | `thread_multijoin.c` | `mpc`, `idx`, `state`, `numUnjoined`, `numLive`, `mutex` as in the program; `tidx` is each thread's own copy of the index.  `arg`, constant in a behaviour, tells the program as it is (`"address"`) from the book's (`"value"`).  The call `pthread_cond_wait()` is `Check` (atomic release and wait) and `Lock`, with `SpuriousWakeup` |
| `CpuPipe` | `pipe_cpu_affinity.c` | `round`, `phase`, `total` are the variables of `transfer_data`, `data` the pages in each pipe, `readers` and `writers` who holds which end.  A page is the unit in which a pipe keeps data, so that every partial transfer is some number of pages |
| `FifoSeqnum` | server and clients | the rendezvous in `open()` is one step of the process that comes second; a request is one atomic write; kills at any step.  `sigpipe` is the server's disposition of `SIGPIPE`, which `ServerSetup` changes: `ServerWrite` to a FIFO without a reader ends the server unless the signal is ignored, and `ended` says how its last run ended.  `handed` and `granted` are history |
| `InotifyDtree` | `inotify_dtree.c`, `rand_dtree.c` and the kernel's side of inotify | `tree`, `watches`, `queue` are the kernel's, `cache`, `rootDirPaths`, `buf`, `walk` the monitor's.  One action per kind of event (`Created`, `DeleteSelf`, `MovedWithin`, `MovedOut`, `Hanging`, `QueueOverflow`, ...), `Visit` and `ReadDir` for `nftw()`, which goes on or returns -1 and gives the traversal up (`Abandoned`) when a directory has vanished, `WatchFails` for the exit when a watch cannot be added, `SecondRead` (any number of the queued events) and `Alarm` for the rename whose second event is not there yet, the commands, and the `mkdir()`, `rmdir()`, `rename()` of `rand_dtree` and of a user |
| `Pthreads` | the calls of the threads library | `thr` is the threads with their stacks of cleanup handlers, keys and allocated blocks, `mem` the shared variables, `owner` the locks.  One action per kind of call; `cleanup_pop` only takes the handler off the stack, and the handler's `printf()` and `free()` follow as calls of their own, at the first of which the thread may still be cancelled; `ActOnCancel` and `Unwind` end a cancelled thread, `SpuriousWakeup` returns from a wait |
| `ThreadPrograms` | 26 programs of chapters 29 to 32, `tlpi-dist/threads` and `psem` | per thread, the sequence of its calls |
| `ThreadDiscipline` | rules on the text of a thread program | every position of a thread's code has a mark: the locks and units of semaphores held there, the cleanup handlers, the blocks only local variables know, the threads created.  `Disciplined` says that the marks agree along every path, that nothing is given back that is not held, that conflicting uses of a variable share a lock, and that what is held wherever a thread may end has a handler.  No state: the hypothesis of the theorems about `Pthreads` |
| `Processes` | the system calls of processes, with signals, pipes, sockets, queues, semaphores, sessions | `ps` is the process table (state, program counter, mask, pending signals, dispositions, group, session, descriptors).  One action per kind of call; `Deliver` runs a handler or the default, `AlarmRings`, `UserTypes` and `Crash` are the outside |
| `ProcessDiscipline` | rules on the text of a program of processes | every place that a process can reach has a mark: in a call of `system()`, the signals blocked in addition to those of its caller, what became of each disposition, which saved values are the caller's and which child was not waited for; and who has the token of the binary semaphores.  `Disciplined` says that the marks agree along every path, that arguments are of their kind, that `system()` leaves and executes the command only with everything restored, that nothing else waits for its child, and that only who has the token releases a semaphore.  No state: the hypothesis of the theorems about `Processes` |
| `ProcessPrograms`, `IpcPrograms` | 98 programs of the chapters and of `tlpi-dist` | per process, the sequence of its calls |
| `FifoDemo` | `mkfifo.c` | a process's calls on the FIFO are its `Script`; main goes through the demonstrations with `mkfifo`, `fork`, its own i/o and `waitpid`; `cleanup_handler` runs in whichever process a signal reaches |

`MultiSigchld` and `ThreadMultijoin` are shown to implement `CollectAll` by a
refinement mapping (`Abstract`, property `CollectsAll`).  `MC...` modules and
`.cfg` files are the instances for TLC, `...Proofs` modules hold the theorems
(eight of them, one for each component).
`MCThreadDiscipline` evaluates the rules of `ThreadDiscipline` on the programs
of `ThreadPrograms`, and `MCProcessDiscipline` those of `ProcessDiscipline` on
the programs of `ProcessPrograms` and `IpcPrograms`, with the marks that it
computes from the text.  They are extended by `MCThreadMultijoin` and
`MCMultiSigchld`, so that the runs `pthreads` and `processes` themselves owe
nothing to the rules and are as good for programs that break them.

A program of `ThreadPrograms`, `ProcessPrograms` or `IpcPrograms` is data: for
each process the sequence of its calls, as `op` (the call), `x` and `n` (its
arguments) and `k` (where it goes on when the call fails, 0 for an error exit).
`prog`, chosen in the initial state and constant, says which one runs.  Every
loop and branch of the source is a branch of the sequence; what is between two
calls and touches only a process's own variables is part of the call after it.
Contents of messages are numbers of messages.  `claim`, `unreachable`,
`daemon`, `enter` and `leave` mark the places where `ClaimsHold` and
`SystemTransparent` have something to say.  Every message that takes the work
of another process for granted is a `claim`: it names variables that the other
process has set by then, or processes that must have ended.

An operator whose comment begins with "Mutant:" is no part of a model: it is a
plausible mistake in the definition that follows it, with which the property
named for it in `PROJECT.json` fails.

Error exits (`errExit`, `perror` and `exit`) are actions of their own where a
later state depends on them (failed forks, creations and opens).  Failures of
calls that cannot fail with the arguments given (locking an initialised mutex,
`sigprocmask()`) are left out, and so are output, the lengths of sleeps, and
time measurement: a sleep takes any time.  In `Processes` any call that may
fail for want of a resource may do so, up to `MaxFaults` times.  In `CpuPipe`
the `malloc()` and the `clock_gettime()` of `transfer_data` are taken to
succeed.

## Runs

| Run | Result | Shows |
|---|---|---|
| `multi_sigchld` | pass | three children: `CounterExact`, `NoLostWakeup`, `HandlerOnlyInSigsuspend`, `ReportExact`, and `CollectsAll` with liveness; before it starts, TLC evaluates `ProcessesAreDisciplined`: the 98 programs of `ProcessPrograms` and `IpcPrograms` keep the rules of `ProcessDiscipline` with one, two and three rounds of every loop |
| `thread_multijoin` | pass | three threads, both programs: `JoinOnlyPastMutex`, `CountersExact`, `SignalStillToCome`, `CollectsAll`; before it starts, TLC evaluates `ProgramsAreDisciplined`: the 26 programs of `ThreadPrograms` keep the rules of `ThreadDiscipline` with one, two and three rounds of every loop |
| `thread_multijoin_byref` | violation | with the address of `idx`, `JoinsAll` fails: two threads mark one slot, main spins |
| `cpu_pipe` | pass | buffers of three pages, three rounds, 1, 2, 10 or 11 CPUs: `NoMutualWait`, `PagesInPipe`, `NoStrayEnd`, `NoFalseReport`, `Completes` |
| `cpu_pipe_two_cpus` | violation | with two CPUs the child asks for CPU 10, exits, and the parent spins on end of file (`EndsWithTwoCpus`) |
| `fifo_seqnum` | pass | two clients, kills, three runs of the server, a counter of six values: `UniqueNumbers`, `OwnResponse`, `ServerSurvives`, `AnsweredIfUndisturbed` |
| `fifo_seqnum_killed` | violation | one killed client blocks the server in `open()`; `Answered` fails |
| `fifo_demo` | pass | all four demonstrations, two signals: `CleanedUp`, `NoLeftovers`, `NoCrossTalk`, `NoLossBeforeEof`, `Completes` |
| `fifo_demo_hang` | violation | the reader quits between the writers; `AllDemosRun` fails |
| `inotify_dtree` | pass | two mutators, all commands: `CacheMatchesWatches` at every step, `TracksChanges` when all is processed, `Drains` |
| `pthreads` | pass | 26 programs: `SafeAccess`, `NothingLeaked`, `Completes` with the results the programs are to show |
| `processes` | pass | 98 programs: `ClaimsHold`, `SystemTransparent`, `Completes`, with one failed call or one process killed |

The four violations are disagreements between the code and its own comments;
`PROJECT.json` quotes the lines.

### Bounds

- `MaxSignals` (`MultiSigchld`): children stop only while fewer than three
  `SIGCHLD`s were generated.  Exits are never bounded.  Three children are
  enough for two of them to end behind one pending signal while the handler
  deals with a third.
- `N = 3`, `MaxSpurious = 2` (`ThreadMultijoin`): two threads that share an
  index, and one that ends while main scans.
- `BUFFER_SIZE = PIPE_BUF_SIZE = 3`, three rounds (`CpuPipe`): partial transfers
  of one and two pages, first, middle and last round.
- `INT_MAX = 2`, lengths 0 to 2 (`FifoSeqnum`): two clients are enough to pass
  `INT_MAX` inside a sequence.  `MaxKills` and `MaxServerRuns` bound the deaths
  of clients and restarts of the server.  A pid is used once.
- `MaxSignals = 2` (`FifoDemo`), each for one process or for all.
- `InotifyDtree`: two names, root directories `r` and `s` (a mount point), one
  directory outside, paths of three names, a buffer of two events (so that a
  pair is split over two reads), a queue of four (so that it overflows), and
  `MaxOps = 2` operations, commands or failures of `inotify_add_watch()`
  besides.
- `Loops = 2` (`Pthreads`, `Processes`): every loop over rounds, blocks or
  children runs twice, which is a first and a last time.  `MaxSpurious = 1`.
- `MaxFaults = 1` (`Processes`): one failed call or one kill; queues hold two
  messages or one, so that they are full.

Deadlock is checked except where a program may really stop: `ThreadMultijoin`
with the address of `idx`, `FifoDemo` after a signal or a failed fork,
`InotifyDtree` when nobody changes the tree any more, and the modules of many
programs, which end and whose servers wait for a next client; there
`Completes` says how they may stop.

### Exceptions that the runs name

`Completes` of `Processes` does not hold of every program, and the
configuration names those of which it says less; each is a fact about the code.

- `MayHang`: a signal may come before the call that waits for it, or nobody is
  obliged to send one.  `timed_read` (23, with and without restart: the alarm
  rings before `read()`), `t_sigsuspend` (22: `origMask` is never set, so
  `sigsuspend()` may block the very signals it waits for), the variant of the
  book with `pause()`, `sigpending` and `block_sig_set` (20), `simple_init`
  (`SIGCHLD` before `pause()`), `catch_rtsigs`, and `orphaned_pgrp_SIGHUP` (34),
  whose child may be stopped after the group was orphaned.
- `Stops`: `tcsetpgrp` (34) always leaves a background process stopped by
  `SIGTTOU`.
- `Fragile`: a process is never told that its partner failed: `svmsg_file`, the
  three supervisors of `seccomp`, the datagram servers' clients `ud_ucase` and
  `i6d_ucase`, `scm_rights`, `select_mq` and `select_mq_empty`.
- `MayFail`: a process may end in an error exit though no call failed for want
  of a resource: the second child of `setpgrp` (34), whose group may not exist,
  the delayed supervisor of `seccomp`, the sender of `sig_pair`, the second
  daemon at `create_pid_file`, the child of `script` and `unbuffer`, main of
  `select_mq_empty`, which takes an empty message for the end of the pipe, and
  the client of `is_seqnum_bad`, which asks for no number and gets none.
- `Timed`: `ClaimsHold` does not speak of messages that rest on a `sleep()`
  alone: those of main and of the grandchild in `exercise_2` of chapter 26
  (lines 37 and 56), of main in `make_zombie` (line 52), of main and of the
  child in `exercise_2` of chapter 34, and of main in `setsid` (line 53).  Since
  a sleep takes any time they may be wrong, and the run fails if one of the six
  is taken off the list.
- `Racy`, `Dangling`, `Polling` (`Pthreads`): `thread_incr` shows a race; the
  argument of `thread_exit` (29) is in the frame of a main thread that may be
  gone; `prod_no_condvar` waits by polling.
- `Leaky` (`Pthreads`): eight threads do lose a block, each named with the call
  at which it ends; `NothingLeaked` holds of them at every other call, and
  fails if one of the eight is taken off the list.  The third thread of
  `pthread_cleanup` (32) returns without running its handler; the first of
  `thread_cancel` (32) may be cancelled asynchronously between `strdup()` and
  the push of the handler; the second and third of `thread_cancel` and all
  three of `pthread_testcancel` (32) may be cancelled in the `printf()` of a
  handler that was popped already and has not yet reached its `free()`; the
  thread of `thread_cleanup` (`tlpi-dist`) in the `printf()` of line 46,
  between `malloc()` and the push.
- `raced` (`InotifyDtree`): `TracksChanges` does not speak of behaviours in
  which a directory is removed or renamed while earlier events are still to be
  processed (see the observations below), nor, until the cache is rebuilt, of
  those in which a root directory was moved into another one, a file system
  was unmounted, or a command dropped entries or added a directory outside the
  root directories.  `Drains` accepts the monitor blocked in its second
  `read()` with an `IN_MOVED_FROM` in the buffer: an alarm that rings before
  the `read()` is lost, and only the next event ends the wait.

### Fairness

Weak fairness of every process and thread: the scheduler runs what can run, a
`sleep()` ends, a free mutex is not withheld for ever, a pending signal that is
not blocked is delivered.  Nothing is assumed of what the program does not
control: children of `MultiSigchld` may sleep or stay stopped for ever, nobody
has to start the server of `FifoSeqnum`, send a signal or wake a thread
spuriously.  `InotifyDtree` has weak fairness of the monitor alone; the
processes that change the tree may stop anywhere.  In `Processes` an alarm that
was set rings, the user need not type, and nobody has to be killed.

### Observations

What was met in the code while it was modelled, apart from the findings:

- `inotify_dtree.c`: a directory that is created and renamed before its
  `IN_CREATE` is processed is not watched from then on, though lines 23 to 25
  speak of a representation "that remains consistent"; line 1127 tests
  `errno != -1` where `nr != -1` is meant, so an interrupted read takes one
  from `numRead`; the commands `a` and `z` ignore the -1 of `zapSubtree()`; `0`
  with events pending makes the next `read()` block.  `rand_dtree.c` in mode
  `c` divides by a count of zero when its directory is gone.
- `t_sigsuspend` (22): `origMask` is read without having been set.
- `select_mq.c:145-149` (`tlpi-dist/altio`): the text of a message is read from
  the pipe apart from its length, and 0 from that `read()` is taken for the end
  of the pipe; a message of length 0, which `svmsg_send` sends when it is given
  no text, ends the program with "EOF on pipe".
- `timer` (23): notification threads test `count == 50000` and `100000` without
  a lock, so that both may miss it.
- `pthread_signal` (32): without a handler in time `SIGTERM` ends the process.
- `rlimit` (36): entries of `fds` after the last `open()` are 0, and line 74
  closes descriptor 0 for each.
- `test_become_daemon` (37) ignores the -1 of `becomeDaemon()` (line 19).
- `tlpi-dist`: `userns_child_exec.c:393`: the end of file that means "mappings
  are written" also comes when the parent has died; `seccomp_functions.c:154`
  tests `resp` where `*resp` is meant; a `seccomp` supervisor waits for ever in
  `recvfd()` when the target dies before `SIGCHLD` is caught; `unshare.c:94`
  takes a failed `fork()` for a child; `svsem_bad_init` loses an increment,
  which `svsem_good_init` avoids but gives up after `MAX_TRIES`; `prod_condvar`
  without arguments waits for ever; `script` killed by a signal leaves the
  terminal raw.

## Proofs

TLAPS checks the theorems for every value of the constants, from the `ASSUME`s
of the modules, which TLC evaluates in the runs.  Each proof module gives an
inductive invariant `IInv`, proves it of the initial states and preserved by
each action, and derives the properties.

- `MultiSigchldProofs`: type correctness, `CounterExact`, `NoLostWakeup`,
  `HandlerOnlyInSigsuspend`, `ReportExact`, and that the program implements
  the safety part of `CollectAll`.  The invariant adds where the signal may be
  blocked (from `Block` on it is in `mask`), that no child exists before, and the
  balance of signals generated, pending and caught with the count of
  `sigsuspend()` returns.
- `ThreadMultijoinProofs`: type correctness, `CountersExact`,
  `JoinOnlyPastMutex`, `SignalStillToCome`, implementation of the safety part of
  `CollectAll`.  The invariant ties each thread's program counter to the state
  of its slot and to the mutex, and main's counter to the sets of slots.
- `CpuPipeProofs`: type correctness, `NoMutualWait`, `PagesInPipe`,
  `NoStrayEnd`, `NoFalseReport`.  The invariant says that rounds differ by at
  most one, which phases may then meet, and who holds which ends; the
  assumption `PIPE_BUF_SIZE >= BUFFER_SIZE` is what excludes a mutual wait.
- `FifoSeqnumProofs`: type correctness, `OwnResponse`, `ServerSurvives`,
  `UniqueNumbers`.  The invariant says that `SIGPIPE` is ignored from
  `ServerSetup` to the end of the run, hence in every state in which a response
  can be written, that every queued request is its
  client's own, that a response in a FIFO was granted to its owner, that the
  counter is the number of ints handed out taken modulo the size of int, and
  that the sequences granted in one run are disjoint intervals of the
  naturals; that no two of their numbers coincide as ints follows since fewer
  than 2 * (INT_MAX + 1) were handed out.

- `FifoDemoProofs`: type correctness, `CleanedUp`, `NoLeftovers`, `NoCrossTalk`,
  `NoLossBeforeEof`, for any number of signals (`SignalAssumption`).  The
  invariant says who has an end of the FIFO open, by the place in its `Script`,
  and that only an open FIFO holds data (`EndsInv`); who has been forked and not
  waited for, and which pids main has (`CastInv`, `MainInv`); and how far two
  partners are (`BasicInv`, `MultiInv`, `ClisrvInv`): an `open()` that returns
  lets both go on in one step, so that their places stay tied to each other.
  Without the last part a client could read its own request as the response.
- `InotifyDtreeProofs`: type correctness, `CacheMatchesWatches` and
  `TracksChanges`, for every set of names, mutators and limits of queue and
  buffer, and every finite set of first directories that has the parent of each
  directory in it (`DtreeAssumption`).
  An entry of the cache is without a watch only while the event that tells so is
  to be processed; that the event, once processed, takes away no entry that is
  in use needs more: such an event, in the queue or in the buffer, is of a
  watch descriptor that is not in use (`GoneInv`, true since
  descriptors are not used again), that an i-node has one watch (`WatchInv`),
  that only the overflow event exceeds the limit of the queue (`QueueInv`), and
  that a mutator has the pathnames its next call needs (`JobInv`).

  `TracksChanges` is about the states where everything is processed, and says
  nothing of the steps between two of them; its invariant `TrackInv` does.
  While no event was lost and no change was made too early (`Sure`), an entry is
  below a root directory and its watch asks for `IN_MOVE_SELF` only at one
  (`Rooted`); `nftw()` has the pathnames the directories have (`WalkInv`), and
  the names it has still to visit exist, unless one was the last of them, so
  that no traversal is given up with something left to visit (`ListInv`); and
  at most one removal or rename is not processed yet (`Phase`).  Either every
  entry has the pathname of its watch's directory (`Steady`), or the next event
  is the `IN_DELETE_SELF` of the one entry without a directory (`Deleting`), or
  the entries have the pathnames from before a `rename()` whose `IN_MOVED_FROM`
  is next (`Renaming`) or whose `IN_MOVE_SELF` is pending or still to come
  (`RootMoving`).  What makes the race of creations harmless is `Covered`: a
  monitored directory without a watch has a parent without one, or is still to
  be visited by `nftw()`, or is told of by an `IN_CREATE` or `IN_MOVED_TO` that
  is pending or that the second half of a `rename()` will queue.  When all is
  processed nothing is left to visit and nothing is announced, so a shortest
  directory without a watch contradicts `Covered`, and the cache is exact.
  Beside it stands that the directories are a tree (`TreeInv`), also between the
  halves of a `rename()`, which is why the parents of the first directories
  have to be among them.  TLC checked `TrackInv` on the run's instance before
  it was proved.
- `PthreadsProofs`: type correctness, `SafeAccess` and `NothingLeaked`, for
  every program with `Disciplined`, whatever the interleaving, the cancellations
  and the spurious wakeups.  The invariant `IInv` says that each thread's record
  agrees with the mark of its position (handlers, blocks, locks, `ThreadsInv`);
  that the owner of a lock is the thread whose mark holds it (`LockInv`); that
  the one unit of a binary semaphore is in the semaphore or with one thread
  (`SemInv`); that a thread runs only when its creator is past its
  `pthread_create()` (`MadeInv`), without which initialisation by main could
  collide with a thread; and that what a thread is about to take from a
  variable is there (`SpendInv`), without which a counter could fall below
  zero.  Two threads in a conflict would hold one lock together, which
  `LockInv` excludes.  The rules are a hypothesis of the theorems since
  the marks are defined by recursion over the code, and induction over data is
  beyond the prover; TLC evaluates the hypothesis on the 26 programs.  It fails
  on the programs' mutants for the three invariants (a handler pushed late, an
  access outside the mutex, `if` around `pthread_cond_wait()`).  A block that
  only a popped handler knows is like one that only a local variable knows:
  `NothingLeaked` needs that no thread may end there, or that it is named in
  `Leaky` with the call.  The exceptions `Racy`, `Dangling` and `Leaky` are the
  ones of the run.
- `ProcessesProofs`: type correctness, `SystemTransparent` and `OneTurn` (of
  the semaphores with which `svshm_xfr_writer` and `svshm_xfr_reader` take
  turns at most one is available), for every program with `Disciplined`, any
  signals, pipes and queues and any number of failed calls and killed
  processes.  The invariant `IInv` says that each process is at a place that
  its text can bring it to and agrees with the mark of that place (`Local`,
  `Knows`): its mask is that of the call of `system()` and the signals blocked
  since, and each disposition, now and saved, is the caller's or what the code
  made of it; that the child of `system()` is a child of the caller, alive or a
  zombie (`Tracks`), without which the wait could fail and the code go on where
  the marks do not lead; that the token is in one semaphore or with one process
  (`TokenInv`), without which a release could take a semaphore to 2; and what is
  in the queues (`QueueInv`).  `Tracks` needs that no handler of `SIGCHLD` waits
  for the child, since the signal is blocked or has no such handler, that no
  other process forks the same child, and that a signal stops or ends a child
  without making it disappear.  As with the threads, the rules are a hypothesis,
  which TLC evaluates on the 98 programs, and which fails on the programs'
  mutants for both invariants (a semaphore made available twice, a `system()`
  that returns early when `fork()` fails).

Only model-checked: everything about liveness (`Completes`,
`AnsweredIfUndisturbed`, `Drains`, the fairness part of `CollectsAll`), which
this prover does not reach; and `ClaimsHold` of `Processes`: why the work of another process is done at a claim differs from
program to program (a message read, an end of file, a child waited for), so
that no rule on the text short of a proof for each program implies it.

## Not modelled

Programs of one process that make a few system calls, look something up, parse
or print: `PROJECT.json` gives the reason for each group.  They are most of the
lines of the repository, and have no order of steps that could go wrong: a
model of them would be the text of the program once more.  `tlpi-book` repeats
the programs of `tlpi-dist` and is not modelled a second time, except that
where a chapter's program differs from the book's both are.  The definitions
therefore cover about one line in seven of all the sources.

Of the modelled programs, option parsing, output, logging and the contents of
messages are left out, and in particular: the consistency check of
`inotify_dtree` (option `-x`) and its commands that list; what a namespace
isolates and what a `seccomp` filter matches; addresses and names of sockets;
terminal modes other than the fact that they were changed.  A pipe of
`Processes` has no capacity, so that `write()` never blocks there: the programs
write less than a pipe holds before it is read.  Reuse of pids is
not modelled, nor what a negative length means to the sequence number server:
`UniqueNumbers` is stated for lengths that are not negative.

## Plan

1. The file copies of chapter 4 (holes, last block) as pure algorithms against a
   reference definition.
2. Notification by threads (`timer` of chapter 23, `mq_notify_thread`), which
   needs threads that the kernel creates.
