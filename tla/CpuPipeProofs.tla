---------------------------- MODULE CpuPipeProofs ----------------------------
(***************************************************************************)
(* Proofs about CpuPipe for every buffer size, number of rounds and set of *)
(* machines, and every capacity of the pipes that holds a buffer.          *)
(***************************************************************************)
EXTENDS CpuPipe, TLAPS

(* Where a process may be, and what it has transferred there. *)
LifeInv ==
    /\ pc["parent"] # "unborn"
    /\ pc["child"] \notin {"setup", "fork", "wait"}
    /\ pc["parent"] \in {"setup", "fork", "failed"} <=> pc["child"] = "unborn"
    /\ \A p \in Proc :
           /\ pc[p] \in {"unborn", "setup", "fork", "close", "affinity",
                         "failed"} =>
                  round[p] = 0 /\ phase[p] = "write" /\ total[p] = 0
           /\ pc[p] \in {"wait", "closing", "exited"} =>
                  /\ round[p] = TRANSFER_COUNT
                  /\ phase[p] = "read" /\ total[p] = 0
           /\ pc[p] \in {"transfer", "killed"} => round[p] < TRANSFER_COUNT
           /\ pc[p] = "killed" => Gone(Peer(p))
           /\ CpusThere /\ pc["child"] # "unborn" =>
                  pc[p] \notin {"failed", "killed"}
    /\ pc["parent"] \in {"closing", "exited"} => pc["child"] = "exited"

(* A process holds the ends it uses from fork() until it is gone. *)
EndsInv ==
    \A p \in Proc :
        pc[p] \in {"close", "affinity", "transfer", "wait", "closing"} =>
            p \in readers[In(p)] /\ p \in writers[Out(p)]

(* The pages of the current round, written and received. *)
WrittenNow(p) == IF phase[p] = "write" THEN total[p]
                 ELSE IF round[p] = TRANSFER_COUNT THEN 0 ELSE BUFFER_SIZE
ReceivedNow(p) == IF phase[p] = "write" THEN 0 ELSE total[p]

(* PagesInPipe without a product: the rounds differ by at most one. *)
PipeInv ==
    \A p \in Proc :
        \/ /\ round[p] = round[Peer(p)]
           /\ data[Out(p)] = WrittenNow(p) - ReceivedNow(Peer(p))
        \/ /\ round[p] = round[Peer(p)] + 1
           /\ data[Out(p)] = BUFFER_SIZE + WrittenNow(p)
                               - ReceivedNow(Peer(p))
        \/ /\ round[Peer(p)] = round[p] + 1
           /\ data[Out(p)] = WrittenNow(p) - BUFFER_SIZE
                               - ReceivedNow(Peer(p))

IInv == TypeOK /\ LifeInv /\ EndsInv /\ PipeInv

-----------------------------------------------------------------------------
LEMMA InitIInv == Init => IInv
  BY SizeAssumption
     DEF Init, IInv, TypeOK, LifeInv, EndsInv, PipeInv, WrittenNow,
         ReceivedNow, Proc, Pipe, Out, In, Peer, PC, Gone, Capacity, CpusThere

(* The steps of main. *)
LEMMA MainSteps == ASSUME IInv, Main PROVE IInv'
<1> USE SizeAssumption DEF IInv, ioVars, endVars
<1>1. CASE Setup
  BY <1>1 DEF Setup, TypeOK, LifeInv, EndsInv, PipeInv, WrittenNow,
     ReceivedNow, Proc, Pipe, Out, In, Peer, PC, Gone, CpusThere, HasCpu, Cpu
<1>2. CASE SetupFails
  BY <1>2 DEF SetupFails, TypeOK, LifeInv, EndsInv, PipeInv, WrittenNow,
     ReceivedNow, Proc, Pipe, Out, In, Peer, PC, Gone, CpusThere, HasCpu,
     Cpu, Drop
<1>3. CASE Fork
  BY <1>3 DEF Fork, TypeOK, LifeInv, EndsInv, PipeInv, WrittenNow,
     ReceivedNow, Proc, Pipe, Out, In, Peer, PC, Gone, CpusThere, HasCpu, Cpu
<1>4. CASE Wait
  <2>1. pc["child"] = "exited"
    BY <1>4 DEF Wait, TypeOK, LifeInv, PipeInv, WrittenNow, ReceivedNow,
       Proc, Pipe, Out, In, Peer, Gone
  <2>2. TypeOK' /\ EndsInv' /\ PipeInv'
    BY <1>4 DEF Wait, TypeOK, LifeInv, EndsInv, PipeInv, WrittenNow,
       ReceivedNow, Proc, Pipe, Out, In, Peer, PC
  <2>3. LifeInv'
    BY <1>4, <2>1 DEF Wait, TypeOK, LifeInv, Proc, Peer, Gone, CpusThere,
       HasCpu, Cpu
  <2> QED BY <2>2, <2>3
<1> QED BY <1>1, <1>2, <1>3, <1>4 DEF Main

(* The steps of a process outside transfer_data. *)
LEMMA OuterSteps ==
  ASSUME IInv, NEW p \in Proc,
         CloseUnused(p) \/ SetAffinity(p) \/ SetAffinityFails(p)
           \/ CloseAndExit(p) \/ WriteBroken(p) \/ ReadEof(p)
  PROVE  IInv'
<1> USE SizeAssumption DEF IInv, ioVars, endVars, Proc, Pipe, Out, In, Peer
<1>1. CASE CloseUnused(p)
  BY <1>1 DEF CloseUnused, TypeOK, LifeInv, EndsInv, PipeInv, WrittenNow,
     ReceivedNow, PC, Gone, CpusThere, HasCpu, Cpu
<1>2. CASE SetAffinity(p)
  BY <1>2 DEF SetAffinity, TypeOK, LifeInv, EndsInv, PipeInv, WrittenNow,
     ReceivedNow, PC, Gone, CpusThere, HasCpu, Cpu
<1>3. CASE SetAffinityFails(p)
  <2>1. p = "child" /\ ~CpusThere
    BY <1>3, CpuAssumption DEF SetAffinityFails, TypeOK, CpusThere, HasCpu,
       Cpu
  <2> QED
    BY <1>3, <2>1 DEF SetAffinityFails, Drop, TypeOK, LifeInv, EndsInv,
       PipeInv, WrittenNow, ReceivedNow, PC, Gone, CpusThere, HasCpu, Cpu
<1>4. CASE CloseAndExit(p)
  BY <1>4 DEF CloseAndExit, Drop, TypeOK, LifeInv, EndsInv, PipeInv,
     WrittenNow, ReceivedNow, PC, Gone, CpusThere, HasCpu, Cpu
<1>5. CASE WriteBroken(p)
  <2>1. Gone(Peer(p))
    BY <1>5 DEF WriteBroken, Writing, TypeOK, LifeInv, EndsInv, Gone, PC
  <2>2. ~CpusThere
    BY <1>5, <2>1 DEF WriteBroken, Writing, TypeOK, LifeInv, PipeInv,
       WrittenNow, ReceivedNow, Gone
  <2> QED
    BY <1>5, <2>1, <2>2 DEF WriteBroken, Writing, Drop, TypeOK, LifeInv,
       EndsInv, PipeInv, WrittenNow, ReceivedNow, PC, Gone, CpusThere,
       HasCpu, Cpu
<1>6. CASE ReadEof(p)
  BY <1>6 DEF ReadEof, vars, TypeOK, LifeInv, EndsInv, PipeInv, WrittenNow,
     ReceivedNow, Gone, CpusThere, HasCpu, Cpu
<1> QED BY <1>1, <1>2, <1>3, <1>4, <1>5, <1>6

(* The steps of transfer_data that move pages. *)
LEMMA TransferSteps ==
  ASSUME IInv, NEW p \in Proc, NEW n \in 1 .. BUFFER_SIZE,
         Write(p, n) \/ Read(p, n)
  PROVE  IInv'
<1> USE SizeAssumption DEF IInv, endVars, Proc, Pipe, Out, In, Peer
<1>1. CASE Write(p, n)
  <2>1. TypeOK'
    BY <1>1 DEF Write, WritePages, Writing, TypeOK, Capacity
  <2>2. LifeInv' /\ EndsInv'
    BY <1>1 DEF Write, Writing, TypeOK, LifeInv, EndsInv, Gone, CpusThere,
       HasCpu, Cpu
  <2>3. PipeInv'
    BY <1>1 DEF Write, WritePages, Writing, TypeOK, LifeInv, PipeInv,
       WrittenNow, ReceivedNow
  <2> QED BY <2>1, <2>2, <2>3
<1>2. CASE Read(p, n)
  <2>1. TypeOK'
    BY <1>2 DEF Read, BufferRead, Rounds, Reading, TypeOK, LifeInv, PC,
       Capacity
  <2>2. EndsInv'
    BY <1>2 DEF Read, BufferRead, Rounds, Reading, TypeOK, EndsInv
  <2>3. PipeInv'
    <3> DEFINE q == Peer(p)
    <3>1. /\ q \in Proc /\ q # p /\ Peer(q) = p /\ Proc = {p, q}
          /\ Out(q) = In(p) /\ Out(p) # In(p)
          /\ Out(p) \in Pipe /\ In(p) \in Pipe
      OBVIOUS
    <3>2. /\ round[p] < TRANSFER_COUNT /\ phase[p] = "read"
          /\ total[p] + n <= BUFFER_SIZE /\ n <= data[In(p)]
          /\ data' = [data EXCEPT ![In(p)] = @ - n]
      BY <1>2 DEF Read, Reading, TypeOK, LifeInv
    <3>3. /\ WrittenNow(p) = BUFFER_SIZE /\ ReceivedNow(p) = total[p]
          /\ WrittenNow(q) \in 0 .. BUFFER_SIZE /\ ReceivedNow(q) \in Nat
      BY <3>1, <3>2 DEF TypeOK, WrittenNow, ReceivedNow
    (* The other process has not fallen behind, or there were no pages. *)
    <3>4. \/ /\ round[p] = round[q]
             /\ data[Out(p)] = BUFFER_SIZE - ReceivedNow(q)
             /\ data[In(p)] = WrittenNow(q) - total[p]
          \/ /\ round[q] = round[p] + 1
             /\ data[Out(p)] = BUFFER_SIZE - BUFFER_SIZE - ReceivedNow(q)
             /\ data[In(p)] = BUFFER_SIZE + WrittenNow(q) - total[p]
      <4>1. round[p] # round[q] + 1
        BY <3>1, <3>2, <3>3 DEF PipeInv, TypeOK
      <4> QED BY <3>1, <3>3, <4>1 DEF PipeInv, TypeOK
    <3>5. /\ data'[In(p)] = data[In(p)] - n /\ data'[Out(p)] = data[Out(p)]
          /\ UNCHANGED <<round[q], WrittenNow(q), ReceivedNow(q)>>
      BY <1>2, <3>1, <3>2 DEF Read, TypeOK, WrittenNow, ReceivedNow
    <3>6. CASE total[p] + n # BUFFER_SIZE
      <4>1. /\ round'[p] = round[p] /\ WrittenNow(p)' = BUFFER_SIZE
            /\ ReceivedNow(p)' = total[p] + n
        BY <1>2, <3>2, <3>6 DEF Read, BufferRead, TypeOK, WrittenNow,
           ReceivedNow
      <4> QED BY <3>1, <3>3, <3>4, <3>5, <4>1 DEF PipeInv, TypeOK
    <3>7. CASE total[p] + n = BUFFER_SIZE
      <4>1. /\ round'[p] = round[p] + 1 /\ total'[p] = 0
            /\ \/ phase'[p] = "write"
               \/ phase'[p] = "read" /\ round[p] + 1 = TRANSFER_COUNT
        <5>1. BufferRead(p, n)
          BY <3>7 DEF BufferRead
        <5>2. /\ round' = [round EXCEPT ![p] = @ + 1]
              /\ total' = [total EXCEPT ![p] = 0]
          BY <1>2, <5>1 DEF Read
        <5>3. \/ phase' = [phase EXCEPT ![p] = "write"]
              \/ phase' = phase /\ ~(round[p] + 1 < TRANSFER_COUNT)
          BY <1>2, <5>1 DEF Read, Rounds
        <5>4. round[p] \in Nat
          BY DEF TypeOK
        <5> QED BY <3>2, <5>2, <5>3, <5>4 DEF TypeOK
      <4>2. WrittenNow(p)' = 0 /\ ReceivedNow(p)' = 0
        BY <4>1 DEF WrittenNow, ReceivedNow
      <4> QED
        BY <3>1, <3>3, <3>4, <3>5, <3>7, <4>1, <4>2 DEF PipeInv, TypeOK
    <3> QED BY <3>6, <3>7
  <2>4. LifeInv'
    BY <1>2 DEF Read, BufferRead, Rounds, Reading, TypeOK, LifeInv, Gone,
       CpusThere, HasCpu, Cpu
  <2> QED BY <2>1, <2>2, <2>3, <2>4
<1> QED BY <1>1, <1>2

(* The inductive invariant holds of every behaviour. *)
THEOREM Invariance == Spec => []IInv
<1>1. IInv /\ [Next]_vars => IInv'
  <2> SUFFICES ASSUME IInv, [Next]_vars PROVE IInv'
    OBVIOUS
  <2>1. CASE UNCHANGED vars
    BY <2>1 DEF vars, ioVars, endVars, IInv, TypeOK, LifeInv, EndsInv,
       PipeInv, WrittenNow, ReceivedNow, Gone, CpusThere, HasCpu, Cpu
  <2> QED
    BY <2>1, MainSteps, OuterSteps, TransferSteps DEF Next, Step, Terminated
<1> QED BY <1>1, InitIInv, PTL DEF Spec

(* Every variable keeps its type: in particular no pipe overflows. *)
THEOREM TypeCorrect == Spec => []TypeOK
  BY Invariance, PTL DEF IInv

(* The two writers never wait for each other, provided a pipe holds a      *)
(* whole buffer.                                                           *)
THEOREM NeverMutualWait == Spec => []NoMutualWait
<1>1. IInv => NoMutualWait
  <2> SUFFICES ASSUME IInv, Blocked("parent"), Blocked("child") PROVE FALSE
    BY DEF NoMutualWait
  <2> QED
    BY SizeAssumption
       DEF IInv, TypeOK, LifeInv, PipeInv, WrittenNow, ReceivedNow, Blocked,
           Writing, Reading, Proc, Pipe, Out, In, Peer, Capacity
<1> QED BY <1>1, Invariance, PTL

(* One round more is one buffer more. *)
LEMMA NextPage ==
  ASSUME NEW r \in Nat, NEW b \in Nat PROVE (r + 1) * b = r * b + b
  OBVIOUS

(* What was written and not received is in the pipe, and the processes     *)
(* stay within a round of each other.                                      *)
THEOREM PagesAreInPipe == Spec => []PagesInPipe
<1>1. IInv => PagesInPipe
  <2> SUFFICES ASSUME IInv, NEW p \in Proc
               PROVE  /\ data[Out(p)] = Written(p) - Received(Peer(p))
                      /\ round[p] <= round[Peer(p)] + 1
    BY DEF PagesInPipe
  <2> DEFINE q == Peer(p)
  <2>1. /\ round[p] \in Nat /\ round[q] \in Nat /\ q \in Proc
        /\ total[p] \in Nat /\ total[q] \in Nat /\ BUFFER_SIZE \in Nat
        /\ PageOf(p) \in Nat /\ PageOf(q) \in Nat
    BY SizeAssumption DEF IInv, TypeOK, Proc, Peer, PageOf
  <2>2. /\ Written(p) = PageOf(p) + WrittenNow(p)
        /\ Received(q) = PageOf(q) + ReceivedNow(q)
        /\ WrittenNow(p) \in Nat /\ ReceivedNow(q) \in Nat
    BY <2>1 DEF Written, Received, WrittenNow, ReceivedNow
  <2>3. /\ round[p] = round[q] + 1 => PageOf(p) = PageOf(q) + BUFFER_SIZE
        /\ round[q] = round[p] + 1 => PageOf(q) = PageOf(p) + BUFFER_SIZE
        /\ round[p] = round[q] => PageOf(p) = PageOf(q)
    BY <2>1, NextPage DEF PageOf
  <2> HIDE DEF q
  <2>4. PipeInv /\ q = Peer(p)
    BY DEF IInv, q
  <2> QED BY <2>1, <2>2, <2>3, <2>4 DEF PipeInv
<1> QED BY <1>1, Invariance, PTL

(* With the CPUs there, no SIGPIPE and no end of file. *)
THEOREM NoStrayEnds == Spec => []NoStrayEnd
<1>1. IInv => NoStrayEnd
  <2> SUFFICES ASSUME IInv, CpusThere, NEW p \in Proc
               PROVE  pc[p] # "killed" /\ ~AtEof(p)
    BY DEF NoStrayEnd
  <2>1. pc[p] # "killed"
    BY DEF IInv, LifeInv, Gone, Proc, Peer
  <2>2. ASSUME AtEof(p) PROVE FALSE
    <3>1. pc[Peer(p)] = "exited"
      BY <2>2 DEF IInv, TypeOK, LifeInv, EndsInv, AtEof, Reading, Proc, Pipe,
         Out, In, Peer, PC
    <3> QED
      BY <2>2, <3>1, SizeAssumption
         DEF IInv, TypeOK, LifeInv, PipeInv, AtEof, Reading, WrittenNow,
             ReceivedNow, Proc, Pipe, Out, In, Peer
  <2> QED BY <2>1, <2>2
<1> QED BY <1>1, Invariance, PTL

(* Completion is reported only when all the data has gone both ways. *)
THEOREM ReportIsTrue == Spec => []NoFalseReport
<1>1. IInv => NoFalseReport
  BY SizeAssumption
     DEF IInv, TypeOK, LifeInv, PipeInv, WrittenNow, ReceivedNow,
         NoFalseReport, Proc, Pipe, Out, In, Peer
<1> QED BY <1>1, Invariance, PTL
=============================================================================
