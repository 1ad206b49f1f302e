------------------------------ MODULE FifoDemo ------------------------------
(***************************************************************************)
(* chapter44/mkfifo.c: four demonstrations, one after the other, that all  *)
(* use the FIFO "myfifo": a parent writes to its child, two writers and a  *)
(* reader, a non-blocking open, and a server and a client that talk over   *)
(* the FIFO in both directions.  SIGINT and SIGTERM run cleanup_handler,   *)
(* in the children too, which inherit it.                                  *)
(*                                                                         *)
(* The calls a process makes on the FIFO are its Script.  An open() blocks *)
(* until the other end is opened, a read() returns all there is (the       *)
(* messages are far shorter than BUFFER_SIZE) or end of file, and what is  *)
(* in the FIFO is lost when its last end is closed.  Every delay of sleep()*)
(* is possible; a signal is handled before the process does anything else. *)
(***************************************************************************)
EXTENDS Naturals, Sequences

CONSTANT MaxSignals     \* bound: signals sent to the processes

ASSUME SignalAssumption == MaxSignals \in Nat

VARIABLES demo,       \* the demonstration main is in
          mpc,        \* and where in it
          i,          \* the next process to fork
          pids,       \* the processes to wait for, "-1" for a failed fork
          st,         \* state of each process
          at,         \* position of each process in its Script
          blocked,    \* the processes blocked in open()
          exists,     \* whether the name myfifo exists
          readers, writers,   \* the processes that have an end open
          data,       \* messages in the FIFO
          got,        \* messages each process has read
          wrote,      \* history: the processes whose write() succeeded
          pend,       \* processes with a SIGINT or SIGTERM to handle
          signals     \* number of signals sent

ends == <<readers, writers>>
vars == <<demo, mpc, i, pids, st, at, blocked, exists, ends, data, got, wrote,
          pend, signals>>
mainVars == <<demo, mpc, i, pids>>
sigVars == <<pend, signals>>

Writers == <<"writer1", "writer2">>
WriterSet == {Writers[k] : k \in DOMAIN Writers}
Procs == {"main", "child", "reader", "server", "client"} \cup WriterSet

(* Mutant: the client keeps its write end when it opens the FIFO to read. *)
ScriptClientKeeps(p) ==
    CASE p = "client" -> <<"openW", "write", "openR", "readOne", "close">>
      [] p = "server" -> <<"openR", "readOne", "close",
                           "openW", "write", "close">>
      [] p = "reader" -> <<"openR", "readAll", "close">>
      [] p = "child"  -> <<"openR", "readOne", "close">>
      [] OTHER        -> <<"openW", "write", "close">>

(* The calls of each process on the FIFO; main's are those of the first    *)
(* demonstration.                                                          *)
Script(p) ==
    CASE p = "client" -> <<"openW", "write", "close",
                           "openR", "readOne", "close">>
      [] p = "server" -> <<"openR", "readOne", "close",
                           "openW", "write", "close">>
      [] p = "reader" -> <<"openR", "readAll", "close">>
      [] p = "child"  -> <<"openR", "readOne", "close">>
      [] OTHER        -> <<"openW", "write", "close">>

Op(p) == IF at[p] <= Len(Script(p)) THEN Script(p)[at[p]] ELSE "end"

(* The processes a demonstration forks, in order. *)
Forks(d) ==
    CASE d = "basic" -> <<"child">>
      [] d = "multi" -> <<"reader", Writers[1], Writers[2]>>
      [] OTHER       -> <<"server", "client">>

NextDemo == [basic |-> "multi", multi |-> "nonblock", nonblock |-> "clisrv",
             clisrv |-> "end"]

Able(p) == st[p] = "running" /\ p \notin pend
MainAt(l) == Able("main") /\ mpc = l
Active(p) == Able(p) /\ p \notin blocked /\ (p = "main" => mpc = "io")

Init ==
    /\ demo = "basic" /\ mpc = "mkfifo"
    /\ i = 1 /\ pids = <<>>
    /\ st = [p \in Procs |-> IF p = "main" THEN "running" ELSE "unborn"]
    /\ at = [p \in Procs |-> 1]
    /\ blocked = {} /\ exists \in BOOLEAN
    /\ readers = {} /\ writers = {} /\ data = <<>>
    /\ got = [p \in Procs |-> <<>>]
    /\ wrote = {} /\ pend = {} /\ signals = 0

-----------------------------------------------------------------------------
(* What becomes of the FIFO *)

(* p gives up its end, by close() or by its own end. *)
Release(p) ==
    /\ readers' = readers \ {p}
    /\ writers' = writers \ {p}
    /\ data' = IF (readers \cup writers) \subseteq {p} THEN <<>> ELSE data

Die(p) ==
    /\ st' = [st EXCEPT ![p] = "zombie"]
    /\ blocked' = blocked \ {p}
    /\ Release(p)

(* Main leaves the demonstration for the next one. *)
Leave ==
    /\ demo' = NextDemo[demo]
    /\ mpc' = IF demo = "clisrv" THEN "unlink" ELSE "mkfifo"
    /\ i' = 1 /\ pids' = <<>>

-----------------------------------------------------------------------------
(* main *)

(* mkfifo(); that the name exists is no error. *)
Mkfifo ==
    /\ MainAt("mkfifo")
    /\ exists' = TRUE
    /\ mpc' = IF demo = "nonblock" THEN "open" ELSE "fork"
    /\ UNCHANGED <<demo, i, pids, st, at, blocked, ends, data, got, wrote,
                   sigVars>>

MkfifoFails ==
    /\ MainAt("mkfifo")
    /\ ~exists
    /\ Leave
    /\ UNCHANGED <<st, at, blocked, exists, ends, data, got, wrote, sigVars>>

(* fork() of the next process; after the last one main plays its own part  *)
(* in the first demonstration, or waits.                                   *)
Fork ==
    /\ MainAt("fork")
    /\ st' = [st EXCEPT ![Forks(demo)[i]] = "running"]
    /\ pids' = Append(pids, Forks(demo)[i])
    /\ i' = IF i < Len(Forks(demo)) THEN i + 1 ELSE 1
    /\ mpc' = IF i < Len(Forks(demo)) THEN "fork"
              ELSE IF demo = "basic" THEN "io" ELSE "wait"
    /\ UNCHANGED <<demo, at, blocked, exists, ends, data, got, wrote,
                   sigVars>>

(* Without its first process a demonstration is given up. *)
ForkFirstFails ==
    /\ MainAt("fork") /\ i = 1
    /\ Leave
    /\ exists' = IF demo = "basic" THEN FALSE ELSE exists
    /\ UNCHANGED <<st, at, blocked, ends, data, got, wrote, sigVars>>

(* A writer that could not be forked leaves -1 in pids; without the client *)
(* main still waits for the server.                                        *)
ForkLaterFails ==
    /\ MainAt("fork") /\ i > 1
    /\ pids' = IF demo = "multi" THEN Append(pids, "-1") ELSE pids
    /\ i' = IF demo = "multi" /\ i < Len(Forks(demo)) THEN i + 1 ELSE 1
    /\ mpc' = IF demo = "multi" /\ i < Len(Forks(demo)) THEN "fork"
              ELSE "wait"
    /\ UNCHANGED <<demo, st, at, blocked, exists, ends, data, got, wrote,
                   sigVars>>

(* Main is through with the writing of the first demonstration. *)
IoDone ==
    /\ MainAt("io")
    /\ Op("main") = "end"
    /\ mpc' = "wait"
    /\ UNCHANGED <<demo, i, pids, st, at, blocked, exists, ends, data, got,
                   wrote, sigVars>>

(* The pid main waits for next: pids has them in the order of the forks,   *)
(* the reader first, which is waited for last.                             *)
WaitedFor ==
    IF demo = "multi" THEN pids[IF i = Len(pids) THEN 1 ELSE i + 1]
    ELSE pids[i]

(* Mutant: after the writers the reader is not waited for. *)
LastWaitWriters == i = Len(pids) \/ (demo = "multi" /\ i = Len(Writers))

LastWait == i = Len(pids)

(* The last waitpid() of a demonstration; a failed open() in the first one *)
(* left the name to be removed now.                                        *)
AfterWait ==
    IF LastWait
    THEN /\ Leave
         /\ exists' = IF mpc = "waitErr" THEN FALSE ELSE exists
    ELSE i' = i + 1 /\ UNCHANGED <<demo, mpc, pids, exists>>

(* waitpid() of a process, or of any one for a pid of -1. *)
WaitPid(p) ==
    /\ MainAt("wait") \/ MainAt("waitErr")
    /\ WaitedFor \in {p, "-1"}
    /\ st[p] = "zombie"
    /\ st' = [st EXCEPT ![p] = "reaped"]
    /\ AfterWait
    /\ UNCHANGED <<at, blocked, ends, data, got, wrote, sigVars>>

(* waitpid() fails with ECHILD: an earlier one, for a pid of -1, has taken *)
(* the process, or there is no process left.                               *)
WaitNoChild ==
    /\ MainAt("wait")
    /\ \A p \in Procs \ {"main"} :
          WaitedFor \in {p, "-1"} => st[p] \in {"unborn", "reaped"}
    /\ AfterWait
    /\ UNCHANGED <<st, at, blocked, ends, data, got, wrote, sigVars>>

(* open(O_WRONLY | O_NONBLOCK), which fails with ENXIO without a reader.   *)
OpenNonblock ==
    /\ MainAt("open")
    /\ IF readers = {} \/ ~exists
       THEN Leave
       ELSE mpc' = "nonblocking" /\ UNCHANGED <<demo, i, pids>>
    /\ UNCHANGED <<st, at, blocked, exists, ends, data, got, wrote, sigVars>>

(* The last unlink() and the end of main. *)
Unlink ==
    /\ MainAt("unlink")
    /\ exists' = FALSE
    /\ mpc' = "exited"
    /\ st' = [st EXCEPT !["main"] = "zombie"]
    /\ UNCHANGED <<demo, i, pids, at, blocked, ends, data, got, wrote,
                   sigVars>>

-----------------------------------------------------------------------------
(* The calls on the FIFO *)

Advance(S) == at' = [q \in Procs |-> IF q \in S THEN at[q] + 1 ELSE at[q]]

(* open(): the first process at one end waits for one at the other, which  *)
(* lets all that wait go on.                                               *)
OpenEnd(p, others) ==
    IF others = {}
    THEN blocked' = blocked \cup {p} /\ at' = at
    ELSE blocked' = {} /\ Advance(blocked \cup {p})

Open(p) ==
    /\ Active(p) /\ exists
    /\ \/ /\ Op(p) = "openR"
          /\ readers' = readers \cup {p} /\ writers' = writers
          /\ OpenEnd(p, writers)
       \/ /\ Op(p) = "openW"
          /\ writers' = writers \cup {p} /\ readers' = readers
          /\ OpenEnd(p, readers)
    /\ UNCHANGED <<mainVars, st, exists, data, got, wrote, sigVars>>

(* The name is gone: a child exits, main waits for its child and leaves.   *)
OpenFails(p) ==
    /\ Active(p) /\ ~exists
    /\ Op(p) \in {"openR", "openW"}
    /\ IF p = "main"
       THEN mpc' = "waitErr" /\ UNCHANGED <<st, blocked, ends, data>>
       ELSE mpc' = mpc /\ Die(p)
    /\ UNCHANGED <<demo, i, pids, at, exists, got, wrote, sigVars>>

(* write() of the process's message, named after its writer. *)
Write(p) ==
    /\ Active(p) /\ Op(p) = "write"
    /\ readers # {}
    /\ data' = Append(data, p)
    /\ wrote' = wrote \cup {p}
    /\ Advance({p})
    /\ UNCHANGED <<mainVars, st, blocked, exists, ends, got, sigVars>>

(* write() to a FIFO that nobody reads: SIGPIPE kills the process. *)
WriteBroken(p) ==
    /\ Active(p) /\ Op(p) = "write"
    /\ readers = {}
    /\ Die(p)
    /\ UNCHANGED <<mainVars, at, exists, got, wrote, sigVars>>

(* Mutant: only the first message of what was read is kept. *)
ReadHead(p) ==
    /\ Active(p) /\ Op(p) \in {"readOne", "readAll"}
    /\ data # <<>>
    /\ got' = [got EXCEPT ![p] = Append(@, Head(data))]
    /\ data' = <<>>
    /\ Advance(IF Op(p) = "readOne" THEN {p} ELSE {})
    /\ UNCHANGED <<mainVars, st, blocked, exists, ends, wrote, sigVars>>

Read(p) ==
    /\ Active(p) /\ Op(p) \in {"readOne", "readAll"}
    /\ data # <<>>
    /\ got' = [got EXCEPT ![p] = @ \o data]
    /\ data' = <<>>
    /\ Advance(IF Op(p) = "readOne" THEN {p} ELSE {})
    /\ UNCHANGED <<mainVars, st, blocked, exists, ends, wrote, sigVars>>

(* read() returns 0: every loop and every single read() ends there. *)
ReadEof(p) ==
    /\ Active(p) /\ Op(p) \in {"readOne", "readAll"}
    /\ data = <<>> /\ writers = {}
    /\ Advance({p})
    /\ UNCHANGED <<mainVars, st, blocked, exists, ends, data, got, wrote,
                   sigVars>>

Close(p) ==
    /\ Active(p) /\ Op(p) = "close"
    /\ Release(p)
    /\ Advance({p})
    /\ UNCHANGED <<mainVars, st, blocked, exists, got, wrote, sigVars>>

(* Mutant: _exit() is forgotten, the child goes on. *)
ExitForgotten(p) ==
    /\ Active(p) /\ p # "main" /\ Op(p) = "end"
    /\ Advance({p})
    /\ UNCHANGED <<mainVars, st, blocked, exists, ends, data, got, wrote,
                   sigVars>>

Exit(p) ==
    /\ Active(p) /\ p # "main" /\ Op(p) = "end"
    /\ Die(p)
    /\ UNCHANGED <<mainVars, at, exists, got, wrote, sigVars>>

-----------------------------------------------------------------------------
(* Signals *)

Live == {p \in Procs : st[p] = "running"}

(* A signal for one process, or for all of them from the terminal. *)
Signal ==
    /\ signals < MaxSignals
    /\ signals' = signals + 1
    /\ Live # {}
    /\ \E S \in {{p} : p \in Live} \cup {Live} : pend' = pend \cup S
    /\ UNCHANGED <<mainVars, st, at, blocked, exists, ends, data, got,
                   wrote>>

(* Mutant: the handler exits without removing the FIFO. *)
HandlerKeepsFifo(p) ==
    /\ p \in pend
    /\ pend' = pend \ {p}
    /\ Die(p)
    /\ UNCHANGED <<mainVars, at, exists, got, wrote, signals>>

cleanup_handler(p) ==
    /\ p \in pend
    /\ pend' = pend \ {p}
    /\ exists' = FALSE
    /\ Die(p)
    /\ UNCHANGED <<mainVars, at, got, wrote, signals>>

-----------------------------------------------------------------------------
FifoStep(p) ==
    Open(p) \/ OpenFails(p) \/ Write(p) \/ WriteBroken(p) \/ Read(p)
    \/ ReadEof(p) \/ Close(p) \/ Exit(p) \/ cleanup_handler(p)

MainStep ==
    \/ Mkfifo \/ MkfifoFails \/ Fork \/ ForkFirstFails \/ ForkLaterFails
    \/ IoDone \/ WaitNoChild \/ OpenNonblock \/ Unlink
    \/ \E p \in Procs : WaitPid(p)

Next == MainStep \/ (\E p \in Procs : FifoStep(p)) \/ Signal

(* Every process runs when it can; nobody has to send a signal. *)
Fairness == WF_vars(MainStep) /\ \A p \in Procs : WF_vars(FifoStep(p))

Spec == Init /\ [][Next]_vars /\ Fairness

-----------------------------------------------------------------------------
(* Properties *)

Demos == {"basic", "multi", "nonblock", "clisrv", "end"}
MainPc == {"mkfifo", "fork", "io", "wait", "waitErr", "open", "unlink",
           "exited"}

(* Type correctness.  "nonblocking", the part of the non-blocking          *)
(* demonstration after its first open() (lines 229-263), is no place main  *)
(* gets to: nobody else has the FIFO open then.                            *)
TypeOK ==
    /\ demo \in Demos /\ mpc \in MainPc
    /\ i \in 1 .. 3
    /\ pids \in Seq(Procs \cup {"-1"})
    /\ st \in [Procs -> {"unborn", "running", "zombie", "reaped"}]
    /\ at \in [Procs -> 1 .. 7]
    /\ blocked \subseteq Procs
    /\ exists \in BOOLEAN
    /\ readers \subseteq Procs /\ writers \subseteq Procs
    /\ data \in Seq(Procs)
    /\ got \in [Procs -> Seq(Procs)]
    /\ wrote \subseteq Procs
    /\ pend \subseteq Procs
    /\ signals \in Nat

(* However main ends (at its end, by a signal, which may also hit any of   *)
(* its children, or by SIGPIPE), it leaves no myfifo behind: the handlers  *)
(* of lines 16-20 and the unlink() calls of lines 47, 88 and 406.          *)
CleanedUp == st["main"] # "running" => ~exists

(* A demonstration starts with the processes of the earlier ones collected *)
(* and nothing left in the FIFO, although after a failed fork() main waits *)
(* for pid -1 and so for a process it also waits for by its pid (lines     *)
(* 159-161 and 190-196).                                                   *)
NoLeftovers ==
    mpc = "mkfifo" =>
        /\ \A p \in Procs \ {"main"} : st[p] \in {"unborn", "reaped"}
        /\ readers \cup writers = {} /\ data = <<>>

(* The server and the client use one FIFO in both directions (lines        *)
(* 292-381): neither ever reads what it wrote itself, nor anything but the *)
(* other's one message.                                                    *)
NoCrossTalk ==
    /\ got["server"] \in {<<>>, <<"client">>}
    /\ got["client"] \in {<<>>, <<"server">>}

(* The reader's loop (lines 146-149) loses nothing: when it meets end of   *)
(* file it has every message that was written, once and in some order.     *)
GotAll(msgs) ==
    /\ \A k \in DOMAIN msgs : msgs[k] \in wrote
    /\ \A w \in WriterSet \cap wrote :
          \E k \in DOMAIN msgs :
              msgs[k] = w /\ \A l \in DOMAIN msgs : msgs[l] = w => l = k

NoLossBeforeEof ==
    [][at["reader"] = 2 /\ at'["reader"] = 3 => GotAll(got["reader"])]_vars

(* The reader met end of file while a writer had yet to write. *)
ReaderQuitsEarly ==
    at["reader"] >= 3 /\ \E w \in WriterSet : at[w] < 4

ForkFailed ==
    \/ \E k \in DOMAIN pids : pids[k] = "-1"
    \/ demo = "clisrv" /\ mpc = "wait" /\ Len(pids) < 2

(* Without signals and failed forks main comes to its end if the reader    *)
(* does not quit before the last writer has come: nobody stays blocked in  *)
(* an open() (lines 56, 84, 138, 172, 297, 315, 349 and 365).              *)
Completes ==
    [](signals = 0 /\ ~ForkFailed /\ ~ReaderQuitsEarly)
        => <>(mpc = "exited")

(* The comments of lines 144, 189 and 399: the reader goes on until there  *)
(* are no more writers, main waits for the children to finish, and all the *)
(* demonstrations are run.                                                 *)
AllDemosRun == [](signals = 0 /\ ~ForkFailed) => <>(mpc = "exited")
=============================================================================
