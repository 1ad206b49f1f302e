------------------------------ MODULE CpuPipe ------------------------------
(***************************************************************************)
(* chapter35/pipe_cpu_affinity.c: a parent and its child, each bound to a  *)
(* CPU, exchange TRANSFER_COUNT buffers over two non-blocking pipes.  In   *)
(* every round BOTH processes first write a whole buffer to the other and  *)
(* then read a whole buffer, retrying on EAGAIN and on partial transfers.  *)
(*                                                                         *)
(* Pipe contents are counted in pages, the unit in which a pipe holds      *)
(* them; what the buffers contain, the clock and the output are left out.  *)
(* A retry after EAGAIN changes nothing and is no action.                  *)
(* malloc() and clock_gettime() in transfer_data are taken to succeed.     *)
(***************************************************************************)
EXTENDS Integers

CONSTANTS BUFFER_SIZE,      \* pages per buffer
          TRANSFER_COUNT,   \* rounds
          PIPE_BUF_SIZE,    \* capacity given to the pipes, in pages
          CpuCounts         \* the machines considered, by number of CPUs

ASSUME SizeAssumption ==
    /\ BUFFER_SIZE \in Nat \ {0}
    /\ TRANSFER_COUNT \in Nat \ {0}
    /\ PIPE_BUF_SIZE \in Nat
    /\ PIPE_BUF_SIZE >= BUFFER_SIZE     \* both are 1 MB in the program
ASSUME CpuAssumption == CpuCounts \subseteq Nat \ {0}

VARIABLES mode,         \* the argument, "same" or "diff"
          num_cpus,
          pc,           \* where each process is
          round,        \* transfer_data's i
          phase,        \* the half of the round: "write" or "read"
          total,        \* transfer_data's total_written or total_read
          data,         \* pages in each pipe
          readers,      \* processes that hold the read end of each pipe
          writers       \* processes that hold its write end

ioVars == <<round, phase, total, data>>
endVars == <<readers, writers>>
vars == <<mode, num_cpus, pc, ioVars, endVars>>

Proc == {"parent", "child"}
Pipe == {"pipe1", "pipe2"}

(* The parent writes pipe1 and reads pipe2, the child the reverse. *)
Out(p) == IF p = "parent" THEN "pipe1" ELSE "pipe2"
In(p) == IF p = "parent" THEN "pipe2" ELSE "pipe1"
Peer(p) == IF p = "parent" THEN "child" ELSE "parent"

(* Mutant: F_SETPIPE_SZ is forgotten, the pipes keep a smaller default. *)
CapacityDefault == 1

(* F_SETPIPE_SZ, which the two ends of each pipe are given. *)
Capacity == PIPE_BUF_SIZE

(* The CPU each process asks for, and whether the machine has it. *)
Cpu(p) == IF p = "parent" \/ mode = "same" THEN 0 ELSE 10
HasCpu(p) == Cpu(p) < num_cpus

(* No end of the pipes is left open by a process that is gone. *)
Drop(ends, p) == [q \in Pipe |-> ends[q] \ {p}]

Gone(p) == pc[p] \in {"exited", "failed", "killed"}

Init ==
    /\ mode \in {"same", "diff"}
    /\ num_cpus \in CpuCounts
    /\ pc = [p \in Proc |-> IF p = "parent" THEN "setup" ELSE "unborn"]
    /\ round = [p \in Proc |-> 0]
    /\ phase = [p \in Proc |-> "write"]
    /\ total = [p \in Proc |-> 0]
    /\ data = [q \in Pipe |-> 0]
    /\ readers = [q \in Pipe |-> {}]
    /\ writers = [q \in Pipe |-> {}]

-----------------------------------------------------------------------------
(* main: set-up and fork() *)

(* pipe(), F_SETPIPE_SZ and O_NONBLOCK on both pipes. *)
Setup ==
    /\ pc["parent"] = "setup"
    /\ num_cpus >= 2 \/ mode = "same"
    /\ pc' = [pc EXCEPT !["parent"] = "fork"]
    /\ readers' = [q \in Pipe |-> {"parent"}]
    /\ writers' = [q \in Pipe |-> {"parent"}]
    /\ UNCHANGED <<mode, num_cpus, ioVars>>

(* "diff" on a single CPU is refused, and a failed call is fatal. *)
SetupFails ==
    /\ pc["parent"] \in {"setup", "fork"}
    /\ pc' = [pc EXCEPT !["parent"] = "failed"]
    /\ readers' = Drop(readers, "parent")
    /\ writers' = Drop(writers, "parent")
    /\ UNCHANGED <<mode, num_cpus, ioVars>>

Fork ==
    /\ pc["parent"] = "fork"
    /\ pc' = [p \in Proc |-> "close"]
    /\ readers' = [q \in Pipe |-> Proc]
    /\ writers' = [q \in Pipe |-> Proc]
    /\ UNCHANGED <<mode, num_cpus, ioVars>>

-----------------------------------------------------------------------------
(* Both processes, before the transfer *)

(* The read end of the pipe it writes and the write end of the other. *)
CloseUnused(p) ==
    /\ pc[p] = "close"
    /\ pc' = [pc EXCEPT ![p] = "affinity"]
    /\ readers' = [readers EXCEPT ![Out(p)] = @ \ {p}]
    /\ writers' = [writers EXCEPT ![In(p)] = @ \ {p}]
    /\ UNCHANGED <<mode, num_cpus, ioVars>>

SetAffinity(p) ==
    /\ pc[p] = "affinity"
    /\ HasCpu(p)
    /\ pc' = [pc EXCEPT ![p] = "transfer"]
    /\ UNCHANGED <<mode, num_cpus, ioVars, endVars>>

(* sched_setaffinity() fails with EINVAL: errExit. *)
SetAffinityFails(p) ==
    /\ pc[p] = "affinity"
    /\ ~HasCpu(p)
    /\ pc' = [pc EXCEPT ![p] = "failed"]
    /\ readers' = Drop(readers, p)
    /\ writers' = Drop(writers, p)
    /\ UNCHANGED <<mode, num_cpus, ioVars>>

-----------------------------------------------------------------------------
(* transfer_data *)

Writing(p) == pc[p] = "transfer" /\ phase[p] = "write"
Reading(p) == pc[p] = "transfer" /\ phase[p] = "read"

(* Mutant: the room left in the pipe is off by one. *)
WritePagesOver(p, n) ==
    n >= 1 /\ n <= BUFFER_SIZE - total[p] /\ n <= Capacity + 1 - data[Out(p)]

(* How many pages a write() may take, a partial write included. *)
WritePages(p, n) ==
    n >= 1 /\ n <= BUFFER_SIZE - total[p] /\ n <= Capacity - data[Out(p)]

(* write() of n pages; the loop ends when the buffer is written. *)
Write(p, n) ==
    /\ Writing(p)
    /\ readers[Out(p)] # {}
    /\ WritePages(p, n)
    /\ data' = [data EXCEPT ![Out(p)] = @ + n]
    /\ IF total[p] + n = BUFFER_SIZE
       THEN /\ phase' = [phase EXCEPT ![p] = "read"]
            /\ total' = [total EXCEPT ![p] = 0]
       ELSE /\ total' = [total EXCEPT ![p] = @ + n]
            /\ phase' = phase
    /\ UNCHANGED <<mode, num_cpus, pc, round, endVars>>

(* write() to a pipe nobody can read: SIGPIPE kills the process. *)
WriteBroken(p) ==
    /\ Writing(p)
    /\ readers[Out(p)] = {}
    /\ pc' = [pc EXCEPT ![p] = "killed"]
    /\ readers' = Drop(readers, p)
    /\ writers' = Drop(writers, p)
    /\ UNCHANGED <<mode, num_cpus, ioVars>>

(* Mutant: the child stops one round early. *)
RoundsShort(p) == IF p = "child" THEN TRANSFER_COUNT - 1 ELSE TRANSFER_COUNT

Rounds(p) == TRANSFER_COUNT

(* Mutant: a short read() is taken for the whole buffer. *)
BufferReadShort(p, n) == n >= 1

BufferRead(p, n) == total[p] + n = BUFFER_SIZE

(* read() of n pages; with the buffer complete the next round begins, and  *)
(* after the last one transfer_data returns.                               *)
Read(p, n) ==
    /\ Reading(p)
    /\ n >= 1 /\ n <= BUFFER_SIZE - total[p] /\ n <= data[In(p)]
    /\ data' = [data EXCEPT ![In(p)] = @ - n]
    /\ IF BufferRead(p, n)
       THEN /\ round' = [round EXCEPT ![p] = @ + 1]
            /\ total' = [total EXCEPT ![p] = 0]
            /\ IF round[p] + 1 < Rounds(p)
               THEN phase' = [phase EXCEPT ![p] = "write"] /\ pc' = pc
               ELSE /\ pc' = [pc EXCEPT ![p] = IF p = "parent"
                                               THEN "wait" ELSE "closing"]
                    /\ phase' = phase
       ELSE /\ total' = [total EXCEPT ![p] = @ + n]
            /\ UNCHANGED <<round, phase, pc>>
    /\ UNCHANGED <<mode, num_cpus, endVars>>

AtEof(p) == Reading(p) /\ data[In(p)] = 0 /\ writers[In(p)] = {}

(* Mutant: end of file ends the transfer. *)
ReadEofBreaks(p) ==
    /\ AtEof(p)
    /\ pc' = [pc EXCEPT ![p] = IF p = "parent" THEN "wait" ELSE "closing"]
    /\ UNCHANGED <<mode, num_cpus, ioVars, endVars>>

(* read() returns 0: total_read += 0 and the loop tries again, for ever. *)
ReadEof(p) == AtEof(p) /\ UNCHANGED vars

-----------------------------------------------------------------------------
(* After the transfer *)

(* wait(NULL) in the parent. *)
Wait ==
    /\ pc["parent"] = "wait"
    /\ Gone("child")
    /\ pc' = [pc EXCEPT !["parent"] = "closing"]
    /\ UNCHANGED <<mode, num_cpus, ioVars, endVars>>

CloseAndExit(p) ==
    /\ pc[p] = "closing"
    /\ pc' = [pc EXCEPT ![p] = "exited"]
    /\ readers' = Drop(readers, p)
    /\ writers' = Drop(writers, p)
    /\ UNCHANGED <<mode, num_cpus, ioVars>>

-----------------------------------------------------------------------------
Step(p) ==
    \/ CloseUnused(p) \/ SetAffinity(p) \/ SetAffinityFails(p)
    \/ \E n \in 1 .. BUFFER_SIZE : Write(p, n) \/ Read(p, n)
    \/ WriteBroken(p) \/ ReadEof(p) \/ CloseAndExit(p)

Main == Setup \/ SetupFails \/ Fork \/ Wait

Terminated ==
    /\ Gone("parent") /\ (Gone("child") \/ pc["child"] = "unborn")
    /\ UNCHANGED vars

Next == Main \/ (\E p \in Proc : Step(p)) \/ Terminated

(* Each process runs when it can; nanosleep() delays a retry, it does not  *)
(* put it off for ever.                                                    *)
Fairness == WF_vars(Main) /\ \A p \in Proc : WF_vars(Step(p))

Spec == Init /\ [][Next]_vars /\ Fairness

-----------------------------------------------------------------------------
(* Properties *)

PC == {"unborn", "setup", "fork", "close", "affinity", "transfer", "wait",
       "closing", "exited", "failed", "killed"}

TypeOK ==
    /\ mode \in {"same", "diff"}
    /\ num_cpus \in CpuCounts
    /\ pc \in [Proc -> PC]
    /\ round \in [Proc -> 0 .. TRANSFER_COUNT]
    /\ phase \in [Proc -> {"write", "read"}]
    /\ total \in [Proc -> 0 .. BUFFER_SIZE - 1]
    /\ data \in [Pipe -> 0 .. Capacity]
    /\ readers \in [Pipe -> SUBSET Proc]
    /\ writers \in [Pipe -> SUBSET Proc]

(* A process that can only wait for the other: the pipe it writes is full  *)
(* or the pipe it reads is empty (EAGAIN, lines 71-74 and 86-89).          *)
Blocked(p) ==
    \/ Writing(p) /\ data[Out(p)] = Capacity
    \/ Reading(p) /\ data[In(p)] = 0

(* The two processes, both of which write before they read, never wait for *)
(* each other.  This is what PIPE_BUF_SIZE >= BUFFER_SIZE is needed for,   *)
(* which the program sets "to improve performance" (line 159).             *)
NoMutualWait == ~(Blocked("parent") /\ Blocked("child"))

(* The processes stay within one round of each other and no page is lost:  *)
(* what one has written and the other has not read is in the pipe (the     *)
(* loops over partial transfers, lines 66-94).                             *)
PageOf(p) == round[p] * BUFFER_SIZE
Written(p) == IF phase[p] = "write" THEN PageOf(p) + total[p]
              ELSE IF round[p] = TRANSFER_COUNT THEN PageOf(p)
              ELSE PageOf(p) + BUFFER_SIZE
Received(p) == IF phase[p] = "write" THEN PageOf(p) ELSE PageOf(p) + total[p]

PagesInPipe ==
    \A p \in Proc :
        /\ data[Out(p)] = Written(p) - Received(Peer(p))
        /\ round[p] <= round[Peer(p)] + 1

(* A machine on which both processes get the CPU they ask for: then no     *)
(* write meets a pipe without a reader and no read meets end of file, not  *)
(* even when the child has exited while the parent still reads.            *)
CpusThere == \A p \in Proc : HasCpu(p)

NoStrayEnd ==
    CpusThere => \A p \in Proc : pc[p] # "killed" /\ ~AtEof(p)

(* The parent reports "test completed" (line 232) only after all the data  *)
(* went both ways and the child has ended: nothing is left in the pipes.   *)
NoFalseReport ==
    pc["parent"] \in {"closing", "exited"} =>
        /\ \A p \in Proc : round[p] = TRANSFER_COUNT
        /\ \A q \in Pipe : data[q] = 0
        /\ pc["child"] = "exited"

(* On such a machine the test comes to its end. *)
Completes ==
    CpusThere /\ pc["parent"] = "close" ~> pc["parent"] = "exited"

(* The comment of line 177 says that "diff" uses CPUs 0 and 1, and line    *)
(* 135 lets any machine with two CPUs pass: on one, the program ends.      *)
EndsWithTwoCpus == num_cpus >= 2 => <>Gone("parent")
=============================================================================
