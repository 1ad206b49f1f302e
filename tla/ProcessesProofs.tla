--------------------------- MODULE ProcessesProofs ---------------------------
(***************************************************************************)
(* Every program that keeps the rules of module ProcessDiscipline keeps    *)
(* TypeOK and SystemTransparent of module Processes, for any signals,      *)
(* pipes and queues, however its processes are interleaved, signaled and   *)
(* killed and whichever of their calls fail.                               *)
(***************************************************************************)
EXTENDS Processes, TLAPS

CONSTANT Marks          \* program -> process -> place -> mark

INSTANCE ProcessDiscipline

-----------------------------------------------------------------------------
(* The inductive invariant.                                                *)

Dispositions == [Signals -> Handlings]
Entries == (SUBSET Signals) \X Dispositions
Descriptors == Pipes \X {"r", "w", "l"} \X {"pfd", "std"}
Groups(g) == ProcsOf(g) \cup {"shell"}

Process(g) ==
    [st : Live \cup {"none", "zombie", "reaped"}, pc : Nat,
     how : {"", "exit", "failed", "killed"},
     ppid : ProcsOf(g) \cup {"shell", "init"}, pgid : Groups(g),
     sid : Groups(g), mask : SUBSET Signals, smask : SUBSET Signals,
     bmask : SUBSET Signals, disp : Dispositions, sdisp : Dispositions,
     pend : SUBSET Signals, fds : SUBSET Descriptors, execed : BOOLEAN,
     alarm : BOOLEAN, entry : {<<>>} \cup Entries]

(* What has become of a disposition since the call of system(). *)
Became(d, now, before) ==
    /\ d = "same" => now = before
    /\ d = "ign" => now = "ign"
    /\ d = "reset" => now = IF before = "ign" THEN "ign" ELSE "dfl"

(* The process w is as the mark k says. *)
Knows(w, k) ==
    /\ k.phase = "none" => w.entry = <<>>
    /\ k.phase = "in" =>
         /\ w.entry \in Entries
         /\ w.mask = w.entry[1] \cup k.blocked
         /\ k.saved => w.smask = w.entry[1]
         /\ \A s \in Signals :
              /\ Became(k.disp[s], w.disp[s], w.entry[2][s])
              /\ s \in k.kept => w.sdisp[s] = w.entry[2][s]

(* The process p of the program g may be w: it is at a place that can be   *)
(* reached, and as the mark of the place says while it lives.              *)
Local(g, p, w) ==
    /\ w \in Process(g) /\ w.pc \in Reached(g, p)
    /\ \A s \in Signals : /\ MayHave(g, s, w.disp[s])
                          /\ MayHave(g, s, w.sdisp[s])
    /\ w.st \in {"block", "eintr"} =>
         w.pc <= Len(Code[g][p]) /\ CallAt(g, p, w.pc).op \in Waits
    /\ w.st \in Live => Knows(w, MarkAt(g, p, w.pc))

(* The child of system() is there to be waited for. *)
Tracks(g, T, p) ==
    LET c == MarkAt(g, p, T[p].pc).child
    IN  T[p].st \in Live /\ c # "" =>
          T[c].ppid = p /\ T[c].st \in Live \cup {"zombie"}

TableInv(g, T) ==
    /\ T \in [ProcsOf(g) -> Process(g)]
    /\ \A p \in ProcsOf(g) : Local(g, p, T[p]) /\ Tracks(g, T, p)

(* One semaphore or one process has the token, if it was made. *)
HasToken(g, T, p) == MarkAt(g, p, T[p].pc).token
HasMade(g, T, p) == MarkAt(g, p, T[p].pc).made

TokenInv(g, T, m) ==
    /\ \A s \in BinarySems : m[s] \in {0, 1}
    /\ \A s, r \in BinarySems : m[s] = 1 /\ m[r] = 1 => s = r
    /\ \A p, q \in ProcsOf(g) : HasToken(g, T, p) /\ HasToken(g, T, q) => p = q
    /\ \A s \in BinarySems, p \in ProcsOf(g) : ~(m[s] = 1 /\ HasToken(g, T, p))
    /\ (\A p \in ProcsOf(g) : ~HasMade(g, T, p)) =>
         /\ \A s \in BinarySems : m[s] = 0
         /\ \A p \in ProcsOf(g) : ~HasToken(g, T, p)

QueueInv(g, Q) ==
    /\ Q \in [Queues -> [up : BOOLEAN, msgs : Seq(Int),
                         notify : SUBSET ProcsOf(g)]]
    /\ \A q \in Queues : Len(Q[q].msgs) <= QueueSize[q]

IInv ==
    /\ prog \in DOMAIN Code /\ code = Code[prog]
    /\ TableInv(prog, ps)
    /\ TokenInv(prog, ps, mem)
    /\ QueueInv(prog, queues)
    /\ pipes \in [Pipes -> Nat] /\ mem \in [Vars -> Int]
    /\ tty \in Groups(prog) /\ faults \in 0..MaxFaults

-----------------------------------------------------------------------------
(* What the rules say of one process, one place and one call.              *)

(* The rules, one by one, for a process of a program. *)
LEMMA ProcRules ==
    ASSUME Disciplined, NEW g \in DOMAIN Code, NEW p \in ProcsOf(g)
    PROVE  /\ Len(Code[g][p]) \in Nat /\ 1 \in Reached(g, p)
           /\ DOMAIN Code[g][p] = 1..Len(Code[g][p])
           /\ Reached(g, p) \subseteq 1..Len(Code[g][p]) + 1
           /\ \A i \in Reached(g, p) : MarkAt(g, p, i) \in MarkSet(g)
           /\ ~MarkAt(g, p, 1).token /\ ~MarkAt(g, p, 1).made
           /\ (\A q \in ProcsOf(g) : ~Forks(g, q, p)) =>
                MarkAt(g, p, 1) = Fresh("none")
           /\ \A i \in Reached(g, p) :
                /\ MarkAt(g, p, i).made => Makes(g, p)
                /\ ChildOK(g, p, MarkAt(g, p, i))
                /\ i <= Len(Code[g][p]) => CallOK(g, p, i)
           /\ \A q \in ProcsOf(g) : Makes(g, p) /\ Makes(g, q) => p = q
<1>1. ProcOK(g, p)
  BY DEF Disciplined
<1>2. \A i \in Reached(g, p) : MarkAt(g, p, i) \in MarkSet(g)
  BY <1>1 DEF ProcOK, MarkAt
<1> QED BY <1>1, <1>2 DEF ProcOK

(* Names of processes, and the signals that the kernel sends. *)
LEMMA Names ==
    ASSUME Disciplined, NEW g \in DOMAIN Code
    PROVE  /\ KernelSignals \subseteq Signals /\ "main" \in ProcsOf(g)
           /\ "" \notin ProcsOf(g) /\ "shell" \notin ProcsOf(g)
           /\ "init" \notin ProcsOf(g)
  BY DEF Disciplined

(* Places are numbers. *)
LEMMA PlaceNat ==
    ASSUME Disciplined, NEW g \in DOMAIN Code, NEW p \in ProcsOf(g),
           NEW j \in Reached(g, p)
    PROVE  j \in Nat
<1>1. Len(Code[g][p]) \in Nat /\ Reached(g, p) \subseteq 1..Len(Code[g][p]) + 1
  BY ProcRules
<1> QED BY <1>1

(* Where a call that succeeds leads. *)
LEMMA NextPlace ==
    ASSUME Disciplined, NEW g \in DOMAIN Code, NEW p \in ProcsOf(g),
           NEW i \in Reached(g, p), i <= Len(Code[g][p]),
           CallAt(g, p, i).op \notin Ending, CallAt(g, p, i).op # "jump"
    PROVE  LET l == MarkAfter(CallAt(g, p, i), MarkAt(g, p, i))
           IN  i + 1 \in Reached(g, p) /\ MarkAt(g, p, i + 1) \in {l, Forget(l)}
<1> DEFINE call == CallAt(g, p, i)
           k == MarkAt(g, p, i)
           e == <<i + 1, MarkAfter(call, k)>>
<1>1. FlowOK(g, p, i)
  BY ProcRules DEF CallOK
<1>2. e \in Edges(call, i, k)
  BY DEF Edges, Succeeds
<1>3. e[1] \in Reached(g, p) /\ MarkAt(g, p, e[1]) \in {e[2], Forget(e[2])}
  BY <1>1, <1>2 DEF FlowOK
<1> QED BY <1>3

(* Where a call that fails, or a branch, leads. *)
LEMMA BranchPlace ==
    ASSUME Disciplined, NEW g \in DOMAIN Code, NEW p \in ProcsOf(g),
           NEW i \in Reached(g, p), i <= Len(Code[g][p]),
           CallAt(g, p, i).op \notin Ending,
           CallAt(g, p, i).op \notin {"jump", "raise"},
           CallAt(g, p, i).op # "wait" \/ MarkAt(g, p, i).child = ""
    PROVE  LET k == MarkAt(g, p, i)
               j == i + CallAt(g, p, i).k
           IN  j \in Reached(g, p) /\ MarkAt(g, p, j) \in {k, Forget(k)}
<1> DEFINE call == CallAt(g, p, i)
           k == MarkAt(g, p, i)
           e == <<i + call.k, k>>
<1>1. FlowOK(g, p, i)
  BY ProcRules DEF CallOK
<1>2. e \in Edges(call, i, k)
  BY DEF Edges, Branches
<1>3. e[1] \in Reached(g, p) /\ MarkAt(g, p, e[1]) \in {e[2], Forget(e[2])}
  BY <1>1, <1>2 DEF FlowOK
<1> QED BY <1>3

(* Where a jump leads. *)
LEMMA JumpPlace ==
    ASSUME Disciplined, NEW g \in DOMAIN Code, NEW p \in ProcsOf(g),
           NEW i \in Reached(g, p), i <= Len(Code[g][p]),
           CallAt(g, p, i).op = "jump"
    PROVE  LET k == MarkAt(g, p, i)
               j == i + CallAt(g, p, i).n
           IN  j \in Reached(g, p) /\ MarkAt(g, p, j) \in {k, Forget(k)}
<1> DEFINE call == CallAt(g, p, i)
           k == MarkAt(g, p, i)
           e == <<i + call.n, k>>
<1>1. FlowOK(g, p, i)
  BY ProcRules DEF CallOK
<1>2. e \in Edges(call, i, k)
  BY DEF Edges, Succeeds, Ending
<1>3. e[1] \in Reached(g, p) /\ MarkAt(g, p, e[1]) \in {e[2], Forget(e[2])}
  BY <1>1, <1>2 DEF FlowOK
<1> QED BY <1>3

(* The calls that change the mark. *)
Marking == {"enter", "semctl", "semop", "leave", "exec", "block",
            "restore_mask", "uninitialized", "sigaction", "restore_action",
            "default_unless_ignored", "fork", "wait"}

(* The other ones do not. *)
LEMMA PlainPlace ==
    ASSUME Disciplined, NEW g \in DOMAIN Code, NEW p \in ProcsOf(g),
           NEW i \in Reached(g, p), i <= Len(Code[g][p]),
           CallAt(g, p, i).op \notin Ending, CallAt(g, p, i).op # "jump",
           CallAt(g, p, i).op \notin Marking
    PROVE  /\ i + 1 \in Reached(g, p)
           /\ MarkAt(g, p, i + 1) \in {MarkAt(g, p, i), Forget(MarkAt(g, p, i))}
<1>1. MarkAfter(CallAt(g, p, i), MarkAt(g, p, i)) = MarkAt(g, p, i)
  BY DEF MarkAfter, SystemAfter, Marking
<1> QED BY <1>1, NextPlace

-----------------------------------------------------------------------------
(* Changes of the process table.                                           *)

Good(g, T, m) == TableInv(g, T) /\ TokenInv(g, T, m)

(* v is the process w at the same place, with the same parent, mask and    *)
(* dispositions, and alive if w is: signaled, say, or with other           *)
(* descriptors.                                                            *)
Alike(v, w) ==
    /\ v.pc = w.pc /\ v.ppid = w.ppid
    /\ v.mask = w.mask /\ v.smask = w.smask /\ v.disp = w.disp
    /\ v.sdisp = w.sdisp /\ v.entry = w.entry
    /\ \/ v.st = w.st
       \/ w.st \in Live /\ v.st \in {"run", "stop"}
       \/ w.st = "block" /\ v.st = "eintr"

(* What a mark says of a process depends on few of its parts. *)
LEMMA KnowsSame ==
    ASSUME NEW v, NEW w, NEW k, Knows(w, k), v.entry = w.entry,
           v.mask = w.mask, v.smask = w.smask, v.disp = w.disp,
           v.sdisp = w.sdisp
    PROVE  Knows(v, k)
  BY DEF Knows

(* A mark that has forgotten says nothing. *)
LEMMA KnowsForget ==
    ASSUME NEW w, NEW k PROVE Knows(w, Forget(k))
  BY DEF Knows, Forget, Fresh

(* What a mark keeps when it forgets. *)
LEMMA ForgetMark ==
    ASSUME NEW k PROVE /\ Forget(k).child = "" /\ Forget(k).token = k.token
                       /\ Forget(k).made = k.made /\ Forget(k).phase = "out"
  BY DEF Forget, Fresh

(* A process may be what is like it. *)
LEMMA AlikeLocal ==
    ASSUME NEW g, NEW p, NEW v, NEW w, Local(g, p, w), v \in Process(g),
           Alike(v, w)
    PROVE  Local(g, p, v)
<1>1. /\ v.pc \in Reached(g, p)
      /\ \A s \in Signals : /\ MayHave(g, s, v.disp[s])
                            /\ MayHave(g, s, v.sdisp[s])
  BY DEF Local, Alike
<1>2. v.st \in {"block", "eintr"} =>
        v.pc <= Len(Code[g][p]) /\ CallAt(g, p, v.pc).op \in Waits
  BY DEF Local, Alike
<1>3. ASSUME v.st \in Live PROVE Knows(v, MarkAt(g, p, v.pc))
  <2>1. w.st \in Live
    BY <1>3 DEF Alike, Live
  <2>2. Knows(w, MarkAt(g, p, v.pc))
    BY <2>1 DEF Local, Alike
  <2> QED BY <2>2, KnowsSame DEF Alike
<1> QED BY <1>1, <1>2, <1>3 DEF Local

(* A token stays where it is when nobody moves. *)
LEMMA TokenSame ==
    ASSUME NEW g, NEW T, NEW U, NEW m, NEW n, TokenInv(g, T, m),
           \A q \in ProcsOf(g) : U[q].pc = T[q].pc,
           \A s \in BinarySems : n[s] = m[s]
    PROVE  TokenInv(g, U, n)
<1>1. \A q \in ProcsOf(g) : /\ HasToken(g, U, q) <=> HasToken(g, T, q)
                            /\ HasMade(g, U, q) <=> HasMade(g, T, q)
  BY DEF HasToken, HasMade
<1> QED BY <1>1 DEF TokenInv

(* A table of processes that are like those of a good one is good. *)
LEMMA AlikeGood ==
    ASSUME Disciplined, NEW g \in DOMAIN Code, NEW T, NEW U, NEW m,
           Good(g, T, m), U \in [ProcsOf(g) -> Process(g)],
           \A q \in ProcsOf(g) : Alike(U[q], T[q])
    PROVE  Good(g, U, m)
<1>1. \A q \in ProcsOf(g) : Local(g, q, U[q])
  BY AlikeLocal DEF Good, TableInv
<1>2. ASSUME NEW q \in ProcsOf(g) PROVE Tracks(g, U, q)
  <2> DEFINE c == MarkAt(g, q, U[q].pc).child
  <2> SUFFICES ASSUME U[q].st \in Live, c # ""
               PROVE  U[c].ppid = q /\ U[c].st \in Live \cup {"zombie"}
    BY DEF Tracks
  <2>1. Alike(U[q], T[q])
    OBVIOUS
  <2>2. T[q].st \in Live /\ U[q].pc = T[q].pc
    BY <2>1 DEF Alike, Live
  <2>3. Tracks(g, T, q) /\ Local(g, q, T[q])
    BY DEF Good, TableInv
  <2>4. T[c].ppid = q /\ T[c].st \in Live \cup {"zombie"}
    BY <2>2, <2>3 DEF Tracks
  <2>5. c \in ProcsOf(g)
    <3>1. MarkAt(g, q, T[q].pc) \in MarkSet(g)
      BY <2>3, ProcRules DEF Local
    <3> QED BY <3>1, <2>2 DEF MarkSet
  <2>6. Alike(U[c], T[c])
    BY <2>5
  <2> QED BY <2>4, <2>6 DEF Alike, Live
<1>3. TokenInv(g, U, m)
  BY TokenSame DEF Good, Alike
<1> QED BY <1>1, <1>2, <1>3 DEF Good, TableInv

(* Parts of a process that the marks do not speak of. *)
LEMMA Parts ==
    ASSUME NEW g, NEW w \in Process(g)
    PROVE  /\ \A x \in SUBSET Descriptors : LET v == [w EXCEPT !.fds = x]
                IN  v \in Process(g) /\ Alike(v, w)
           /\ \A x \in SUBSET Signals : LET v == [w EXCEPT !.pend = x]
                IN  v \in Process(g) /\ Alike(v, w)
           /\ \A x \in BOOLEAN : LET v == [w EXCEPT !.alarm = x]
                IN  v \in Process(g) /\ Alike(v, w)
           /\ \A x \in Groups(g) : LET v == [w EXCEPT !.pgid = x]
                IN  v \in Process(g) /\ Alike(v, w)
           /\ \A x \in Groups(g) : LET v == [w EXCEPT !.sid = x]
                IN  v \in Process(g) /\ Alike(v, w)
<1>1. ASSUME NEW x \in SUBSET Descriptors
      PROVE  LET v == [w EXCEPT !.fds = x]
             IN  v \in Process(g) /\ Alike(v, w)
  BY DEF Process, Alike
<1>2. ASSUME NEW x \in SUBSET Signals
      PROVE  LET v == [w EXCEPT !.pend = x]
             IN  v \in Process(g) /\ Alike(v, w)
  BY DEF Process, Alike
<1>3. ASSUME NEW x \in BOOLEAN
      PROVE  LET v == [w EXCEPT !.alarm = x]
             IN  v \in Process(g) /\ Alike(v, w)
  BY DEF Process, Alike
<1>4. ASSUME NEW x \in Groups(g)
      PROVE  LET v == [w EXCEPT !.pgid = x]
             IN  v \in Process(g) /\ Alike(v, w)
  BY DEF Process, Alike
<1>5. ASSUME NEW x \in Groups(g)
      PROVE  LET v == [w EXCEPT !.sid = x]
             IN  v \in Process(g) /\ Alike(v, w)
  BY DEF Process, Alike
<1> QED BY <1>1, <1>2, <1>3, <1>4, <1>5

(* One process is exchanged for one that is like it. *)
LEMMA ChangeOne ==
    ASSUME Disciplined, NEW g \in DOMAIN Code, NEW T, NEW m, Good(g, T, m),
           NEW p \in ProcsOf(g), NEW v \in Process(g), Alike(v, T[p])
    PROVE  /\ Good(g, [T EXCEPT ![p] = v], m)
           /\ [T EXCEPT ![p] = v][p] = v
<1> DEFINE U == [T EXCEPT ![p] = v]
<1>1. T \in [ProcsOf(g) -> Process(g)]
  BY DEF Good, TableInv
<1>2. U \in [ProcsOf(g) -> Process(g)] /\ U[p] = v
  BY <1>1
<1>3. ASSUME NEW q \in ProcsOf(g) PROVE Alike(U[q], T[q])
  <2>1. CASE q = p
    BY <1>2, <2>1
  <2>2. CASE q # p
    <3>1. U[q] = T[q]
      BY <1>1, <2>2
    <3> QED BY <3>1 DEF Alike
  <2> QED BY <2>1, <2>2
<1> QED BY <1>2, <1>3, AlikeGood

(* A signal to a set of processes. *)
LEMMA SignaledGood ==
    ASSUME Disciplined, NEW g \in DOMAIN Code, code = Code[g], NEW T, NEW m,
           Good(g, T, m), NEW Q, NEW s \in Signals
    PROVE  /\ Good(g, Signaled(T, Q, s), m)
           /\ \A q \in ProcsOf(g) : Alike(Signaled(T, Q, s)[q], T[q])
<1> DEFINE U == Signaled(T, Q, s)
<1>1. /\ T \in [ProcsOf(g) -> Process(g)] /\ Procs = ProcsOf(g)
      /\ DOMAIN U = ProcsOf(g) /\ U = [q \in ProcsOf(g) |-> U[q]]
  BY DEF Good, TableInv, Procs, ProcsOf, Signaled
<1>2. ASSUME NEW q \in ProcsOf(g)
      PROVE  U[q] \in Process(g) /\ Alike(U[q], T[q])
  <2>1. T[q] \in Process(g)
    BY <1>1
  <2>2. CASE q \notin Q \/ T[q].st \notin Live
    <3>1. U[q] = T[q]
      BY <1>1, <2>2 DEF Signaled
    <3> QED BY <2>1, <3>1 DEF Alike
  <2>3. CASE q \in Q /\ T[q].st \in Live
    <3> DEFINE w == T[q]
               a == IF s \in {"CONT", "KILL"} /\ w.st = "stop" THEN "run"
                    ELSE w.st
               b == IF Ignores(w, s) /\ s \notin w.mask THEN w.pend
                    ELSE IF s = "CONT" THEN (w.pend \ {"STOP", "TTOU"}) \cup {s}
                    ELSE w.pend \cup {s}
    <3>1. U[q] = [w EXCEPT !.st = a, !.pend = b]
      BY <1>1, <2>3 DEF Signaled
    <3>2. w.pend \in SUBSET Signals /\ w.st \in Live
      BY <2>1, <2>3 DEF Process
    <3>3. b \in SUBSET Signals
      BY <3>2
    <3>4. a \in Live /\ (a = w.st \/ a = "run")
      BY <3>2 DEF Live
    <3> HIDE DEF a, b
    <3>5. U[q] \in Process(g)
      BY <3>1, <3>3, <3>4, <2>1 DEF Process
    <3>6. Alike(U[q], w)
      BY <3>1, <3>2, <3>4, <2>1 DEF Process, Alike
    <3> QED BY <3>5, <3>6
  <2> QED BY <2>2, <2>3
<1>3. U \in [ProcsOf(g) -> Process(g)]
  BY <1>1, <1>2
<1> QED BY <1>2, <1>3, AlikeGood

(* A process ends: it is a zombie if its parent is there to wait for it.   *)
LEMMA ExitedGood ==
    ASSUME Disciplined, NEW g \in DOMAIN Code, code = Code[g], NEW T, NEW m,
           Good(g, T, m), NEW p \in ProcsOf(g),
           NEW how \in {"exit", "failed", "killed"}
    PROVE  /\ Good(g, Exited(T, p, how), m)
           /\ \A q \in ProcsOf(g) : Exited(T, p, how)[q].pc = T[q].pc
<1> DEFINE U == Exited(T, p, how)
<1>1. /\ T \in [ProcsOf(g) -> Process(g)] /\ Procs = ProcsOf(g)
      /\ DOMAIN U = ProcsOf(g) /\ U = [q \in ProcsOf(g) |-> U[q]]
  BY DEF Good, TableInv, Procs, ProcsOf, Exited
<1>2. /\ U[p] = [T[p] EXCEPT
                   !.st = IF T[p].ppid \in ProcsOf(g) THEN "zombie" ELSE "reaped",
                   !.how = how, !.fds = {}, !.pend = {}]
      /\ \A q \in ProcsOf(g) \ {p} :
           /\ T[q].ppid # p => U[q] = T[q]
           /\ T[q].ppid = p =>
                U[q] = [T[q] EXCEPT !.ppid = "init",
                          !.st = IF T[q].st = "zombie" THEN "reaped" ELSE T[q].st]
  BY <1>1 DEF Exited
<1>3. /\ U[p] \in Process(g) /\ U[p].pc = T[p].pc /\ U[p].ppid = T[p].ppid
      /\ U[p].st = IF T[p].ppid \in ProcsOf(g) THEN "zombie" ELSE "reaped"
      /\ U[p].disp = T[p].disp /\ U[p].sdisp = T[p].sdisp
  <2>1. T[p] \in Process(g)
    BY <1>1
  <2> QED BY <2>1, <1>2 DEF Process
<1>4. ASSUME NEW q \in ProcsOf(g) \ {p}, T[q].ppid = p
      PROVE  /\ U[q] \in Process(g) /\ U[q].pc = T[q].pc
             /\ U[q].st = IF T[q].st = "zombie" THEN "reaped" ELSE T[q].st
             /\ U[q].mask = T[q].mask /\ U[q].smask = T[q].smask
             /\ U[q].disp = T[q].disp /\ U[q].sdisp = T[q].sdisp
             /\ U[q].entry = T[q].entry
  <2> DEFINE a == IF T[q].st = "zombie" THEN "reaped" ELSE T[q].st
  <2>1. T[q] \in Process(g)
    BY <1>1
  <2>2. a \in Live \cup {"none", "zombie", "reaped"}
    BY <2>1 DEF Process
  <2>3. U[q] = [T[q] EXCEPT !.ppid = "init", !.st = a]
    BY <1>2, <1>4
  <2>4. a = IF T[q].st = "zombie" THEN "reaped" ELSE T[q].st
    OBVIOUS
  <2> HIDE DEF a
  <2>5. U[q] \in Process(g)
    BY <2>1, <2>2, <2>3 DEF Process
  <2>6. /\ U[q].pc = T[q].pc /\ U[q].st = a
        /\ U[q].mask = T[q].mask /\ U[q].smask = T[q].smask
        /\ U[q].disp = T[q].disp /\ U[q].sdisp = T[q].sdisp
        /\ U[q].entry = T[q].entry
    BY <2>1, <2>3 DEF Process
  <2> QED BY <2>4, <2>5, <2>6
<1>5. U \in [ProcsOf(g) -> Process(g)]
  <2>1. \A q \in ProcsOf(g) : U[q] \in Process(g)
    BY <1>1, <1>2, <1>3, <1>4
  <2> QED BY <2>1, <1>1
<1>6. ASSUME NEW q \in ProcsOf(g) PROVE Local(g, q, U[q]) /\ U[q].pc = T[q].pc
  <2>1. Local(g, q, T[q])
    BY DEF Good, TableInv
  <2>2. CASE q = p
    BY <2>1, <2>2, <1>3 DEF Local, Live
  <2>3. CASE q # p /\ T[q].ppid # p
    BY <2>1, <2>3, <1>2
  <2>4. CASE q # p /\ T[q].ppid = p
    <3>1. /\ U[q].pc \in Reached(g, q)
          /\ \A s \in Signals : /\ MayHave(g, s, U[q].disp[s])
                                /\ MayHave(g, s, U[q].sdisp[s])
      BY <2>1, <2>4, <1>4 DEF Local
    <3>2. U[q].st \in {"block", "eintr"} =>
            U[q].pc <= Len(Code[g][q]) /\ CallAt(g, q, U[q].pc).op \in Waits
      BY <2>1, <2>4, <1>4 DEF Local
    <3>3. ASSUME U[q].st \in Live PROVE Knows(U[q], MarkAt(g, q, U[q].pc))
      <4>1. Knows(T[q], MarkAt(g, q, U[q].pc))
        BY <2>1, <2>4, <3>3, <1>4 DEF Local, Live
      <4> QED BY <4>1, <2>4, <1>4, KnowsSame
    <3> QED BY <3>1, <3>2, <3>3, <2>4, <1>4 DEF Local
  <2> QED BY <2>2, <2>3, <2>4
<1>7. ASSUME NEW q \in ProcsOf(g) PROVE Tracks(g, U, q)
  <2> DEFINE c == MarkAt(g, q, U[q].pc).child
  <2> SUFFICES ASSUME U[q].st \in Live, c # ""
               PROVE  U[c].ppid = q /\ U[c].st \in Live \cup {"zombie"}
    BY DEF Tracks
  <2>1. q # p
    BY <1>3 DEF Live
  <2>2. T[q].st \in Live
    BY <2>1, <1>2, <1>4 DEF Live
  <2>3. Tracks(g, T, q) /\ Local(g, q, T[q]) /\ U[q].pc = T[q].pc
    BY <1>6 DEF Good, TableInv
  <2>4. T[c].ppid = q /\ T[c].st \in Live \cup {"zombie"}
    BY <2>2, <2>3 DEF Tracks
  <2>5. c \in ProcsOf(g)
    <3>1. MarkAt(g, q, T[q].pc) \in MarkSet(g)
      BY <2>3, ProcRules DEF Local
    <3> QED BY <3>1, <2>3 DEF MarkSet
  <2>6. CASE c = p
    BY <2>4, <2>6, <1>3
  <2>7. CASE c # p
    <3>1. U[c] = T[c]
      BY <2>1, <2>4, <2>5, <2>7, <1>2
    <3> QED BY <3>1, <2>4
  <2> QED BY <2>6, <2>7
<1>8. TokenInv(g, U, m)
  BY <1>6, TokenSame DEF Good
<1> QED BY <1>5, <1>6, <1>7, <1>8 DEF Good, TableInv

(* The same with the signals that the end of a process brings. *)
LEMMA EndsGood ==
    ASSUME Disciplined, NEW g \in DOMAIN Code, code = Code[g], NEW T, NEW m,
           Good(g, T, m), NEW p \in ProcsOf(g),
           NEW how \in {"exit", "failed", "killed"}
    PROVE  Good(g, Ends(T, p, how), m)
<1> DEFINE U == Exited(T, p, how)
           G == {T[q].pgid : q \in {p} \cup {r \in Procs : T[r].ppid = p}}
           V == Hangup(T, U, G)
           H == {h \in G : /\ ~Orphaned(T, h) /\ Orphaned(U, h)
                           /\ \E q \in Members(U, h) : U[q].st = "stop"}
           Q == UNION {Members(U, h) : h \in H}
<1>1. {"HUP", "CONT", "CHLD"} \subseteq Signals
  BY Names DEF KernelSignals
<1>2. Good(g, U, m)
  BY ExitedGood
<1>3. V = Signaled(Signaled(U, Q, "HUP"), Q, "CONT")
  BY DEF Hangup
<1>4. Ends(T, p, how) = Signaled(V, {T[p].ppid} \cap Procs, "CHLD")
  BY DEF Ends
<1> HIDE DEF U, G, V, Q
<1>5. Good(g, Signaled(U, Q, "HUP"), m)
  BY <1>1, <1>2, SignaledGood
<1>6. Good(g, V, m)
  BY <1>1, <1>3, <1>5, SignaledGood
<1>7. Good(g, Signaled(V, {T[p].ppid} \cap Procs, "CHLD"), m)
  BY <1>1, <1>6, SignaledGood
<1> QED BY <1>4, <1>7

(* A process goes on to the place j, with the mark it had or none. *)
LEMMA MoveGood ==
    ASSUME Disciplined, NEW g \in DOMAIN Code, NEW T, NEW m, Good(g, T, m),
           NEW p \in ProcsOf(g), T[p].st \in Live, NEW j \in Reached(g, p),
           MarkAt(g, p, j) \in {MarkAt(g, p, T[p].pc),
                                Forget(MarkAt(g, p, T[p].pc))},
           NEW w \in Process(g), w.pc = j, w.st = "run", w.ppid = T[p].ppid,
           w.mask = T[p].mask, w.smask = T[p].smask, w.disp = T[p].disp,
           w.sdisp = T[p].sdisp, w.entry = T[p].entry
    PROVE  Good(g, [T EXCEPT ![p] = w], m)
<1> DEFINE U == [T EXCEPT ![p] = w]
           k == MarkAt(g, p, T[p].pc)
           l == MarkAt(g, p, j)
<1>1. /\ T \in [ProcsOf(g) -> Process(g)]
      /\ \A q \in ProcsOf(g) : Local(g, q, T[q]) /\ Tracks(g, T, q)
      /\ TokenInv(g, T, m)
  BY DEF Good, TableInv
<1>2. /\ U \in [ProcsOf(g) -> Process(g)] /\ U[p] = w
      /\ \A q \in ProcsOf(g) \ {p} : U[q] = T[q]
  BY <1>1
<1>3. l.child \in {"", k.child} /\ l.token = k.token /\ l.made = k.made
  BY ForgetMark
<1>4. Local(g, p, w)
  <2>1. Knows(T[p], k)
    BY <1>1 DEF Local
  <2>2. Knows(w, l)
    BY <2>1, KnowsSame, KnowsForget
  <2>3. \A s \in Signals : /\ MayHave(g, s, w.disp[s])
                           /\ MayHave(g, s, w.sdisp[s])
    BY <1>1 DEF Local
  <2> QED BY <2>2, <2>3 DEF Local
<1>5. ASSUME NEW q \in ProcsOf(g) PROVE Tracks(g, U, q)
  <2> DEFINE c == MarkAt(g, q, U[q].pc).child
  <2> SUFFICES ASSUME U[q].st \in Live, c # ""
               PROVE  U[c].ppid = q /\ U[c].st \in Live \cup {"zombie"}
    BY DEF Tracks
  <2>1. c = MarkAt(g, q, T[q].pc).child /\ T[q].st \in Live
    BY <1>2, <1>3
  <2>2. T[c].ppid = q /\ T[c].st \in Live \cup {"zombie"}
    BY <2>1, <1>1 DEF Tracks
  <2>3. c \in ProcsOf(g)
    <3>1. MarkAt(g, q, T[q].pc) \in MarkSet(g)
      BY <1>1, ProcRules DEF Local
    <3> QED BY <3>1, <2>1 DEF MarkSet
  <2> QED BY <2>2, <2>3, <1>2 DEF Live
<1>6. \A q \in ProcsOf(g) : /\ HasToken(g, U, q) <=> HasToken(g, T, q)
                            /\ HasMade(g, U, q) <=> HasMade(g, T, q)
  BY <1>2, <1>3 DEF HasToken, HasMade
<1>7. TokenInv(g, U, m)
  BY <1>1, <1>6 DEF TokenInv
<1> QED BY <1>1, <1>2, <1>4, <1>5, <1>7 DEF Good, TableInv

(* A process goes on as w, at a place with another mark: the child that it *)
(* has to wait for is the same, or there is none any more.                 *)
LEMMA StepTable ==
    ASSUME Disciplined, NEW g \in DOMAIN Code, NEW T, TableInv(g, T),
           NEW p \in ProcsOf(g), T[p].st \in Live, NEW w, Local(g, p, w),
           w.st \in Live, w.ppid = T[p].ppid,
           MarkAt(g, p, w.pc).child \in {"", MarkAt(g, p, T[p].pc).child}
    PROVE  TableInv(g, [T EXCEPT ![p] = w])
<1> DEFINE U == [T EXCEPT ![p] = w]
<1>1. /\ T \in [ProcsOf(g) -> Process(g)]
      /\ \A q \in ProcsOf(g) : Local(g, q, T[q]) /\ Tracks(g, T, q)
  BY DEF TableInv
<1>2. /\ U \in [ProcsOf(g) -> Process(g)] /\ U[p] = w
      /\ \A q \in ProcsOf(g) \ {p} : U[q] = T[q]
  BY <1>1 DEF Local
<1>3. ASSUME NEW q \in ProcsOf(g) PROVE Tracks(g, U, q)
  <2> DEFINE c == MarkAt(g, q, U[q].pc).child
  <2> SUFFICES ASSUME U[q].st \in Live, c # ""
               PROVE  U[c].ppid = q /\ U[c].st \in Live \cup {"zombie"}
    BY DEF Tracks
  <2>1. c = MarkAt(g, q, T[q].pc).child /\ T[q].st \in Live
    BY <1>2
  <2>2. T[c].ppid = q /\ T[c].st \in Live \cup {"zombie"}
    BY <2>1, <1>1 DEF Tracks
  <2>3. c \in ProcsOf(g)
    <3>1. MarkAt(g, q, T[q].pc) \in MarkSet(g)
      BY <1>1, ProcRules DEF Local
    <3> QED BY <3>1, <2>1 DEF MarkSet
  <2> QED BY <2>2, <2>3, <1>2
<1> QED BY <1>1, <1>2, <1>3 DEF TableInv

(* The same, when it neither gets nor gives the token. *)
LEMMA StepGood ==
    ASSUME Disciplined, NEW g \in DOMAIN Code, NEW T, NEW m, Good(g, T, m),
           NEW p \in ProcsOf(g), T[p].st \in Live, NEW w, Local(g, p, w),
           w.st \in Live, w.ppid = T[p].ppid,
           LET k == MarkAt(g, p, T[p].pc)
               l == MarkAt(g, p, w.pc)
           IN  l.child \in {"", k.child} /\ l.token = k.token /\ l.made = k.made
    PROVE  Good(g, [T EXCEPT ![p] = w], m)
<1> DEFINE U == [T EXCEPT ![p] = w]
<1>1. TableInv(g, U)
  BY StepTable DEF Good
<1>2. U[p] = w /\ \A q \in ProcsOf(g) \ {p} : U[q] = T[q]
  BY DEF Good, TableInv
<1>3. \A q \in ProcsOf(g) : /\ HasToken(g, U, q) <=> HasToken(g, T, q)
                            /\ HasMade(g, U, q) <=> HasMade(g, T, q)
  BY <1>2 DEF HasToken, HasMade
<1>4. TokenInv(g, U, m)
  BY <1>3 DEF TokenInv, Good
<1> QED BY <1>1, <1>4 DEF Good

(* Memory other than the semaphores changes nothing. *)
LEMMA MemGood ==
    ASSUME NEW g, NEW T, NEW m, NEW n, Good(g, T, m),
           \A s \in BinarySems : n[s] = m[s]
    PROVE  Good(g, T, n)
  BY TokenSame DEF Good

-----------------------------------------------------------------------------
(* Where a process is.                                                     *)

(* What the invariant says of one process. *)
LEMMA Here ==
    ASSUME Disciplined, IInv, NEW p \in Procs
    PROVE  LET i == ps[p].pc IN
           /\ prog \in DOMAIN Code /\ code = Code[prog]
           /\ Procs = ProcsOf(prog) /\ p \in ProcsOf(prog)
           /\ Good(prog, ps, mem) /\ ps \in [ProcsOf(prog) -> Process(prog)]
           /\ ps[p] \in Process(prog) /\ Local(prog, p, ps[p])
           /\ i \in Reached(prog, p) /\ i \in Nat
           /\ MarkAt(prog, p, i) \in MarkSet(prog)
           /\ NextCall(p) = CallAt(prog, p, i)
           /\ Len(Code[prog][p]) \in Nat
           /\ i <= Len(Code[prog][p]) => CallOK(prog, p, i)
           /\ ps[p].st \in Live => Knows(ps[p], MarkAt(prog, p, i))
<1>1. /\ prog \in DOMAIN Code /\ code = Code[prog]
      /\ TableInv(prog, ps) /\ TokenInv(prog, ps, mem)
  BY DEF IInv
<1>2. Procs = ProcsOf(prog)
  BY <1>1 DEF Procs, ProcsOf
<1>3. ps \in [ProcsOf(prog) -> Process(prog)] /\ Local(prog, p, ps[p])
  BY <1>1, <1>2 DEF TableInv
<1>4. /\ ps[p] \in Process(prog) /\ ps[p].pc \in Reached(prog, p)
      /\ ps[p].st \in Live => Knows(ps[p], MarkAt(prog, p, ps[p].pc))
  BY <1>3 DEF Local
<1>5. ps[p].pc \in Nat
  BY <1>4 DEF Process
<1>6. NextCall(p) = CallAt(prog, p, ps[p].pc)
  BY <1>1 DEF NextCall, CallAt
<1> QED BY <1>1, <1>2, <1>3, <1>4, <1>5, <1>6, ProcRules DEF Good

(* A process that makes a call. *)
LEMMA AtCall ==
    ASSUME Disciplined, IInv, NEW p \in Procs, NEW op, Calls(p, op)
    PROVE  /\ ps[p].st = "run" /\ ps[p].st \in Live
           /\ ps[p].pc <= Len(Code[prog][p])
           /\ CallOK(prog, p, ps[p].pc)
           /\ CallAt(prog, p, ps[p].pc).op = op /\ NextCall(p).op = op
<1>1. ps[p].st = "run" /\ NextCall(p).op = op /\ ~(ps[p].pc > Len(code[p]))
  BY DEF Calls, Runs, Returns
<1>2. ps[p].pc <= Len(Code[prog][p])
  BY <1>1, Here
<1> QED BY <1>1, <1>2, Here DEF Live

(* It goes on to another place with the mark it has, or with none. *)
LEMMA OnGood ==
    ASSUME Disciplined, IInv, NEW p \in Procs, ps[p].st = "run",
           NEW n, ps[p].pc + n \in Reached(prog, p),
           MarkAt(prog, p, ps[p].pc + n) \in
             {MarkAt(prog, p, ps[p].pc), Forget(MarkAt(prog, p, ps[p].pc))}
    PROVE  Good(prog, On(ps, p, n), mem)
<1> DEFINE w == [ps[p] EXCEPT !.pc = ps[p].pc + n]
<1>1. On(ps, p, n) = [ps EXCEPT ![p] = w]
  BY DEF On
<1>2. ps[p].pc + n \in Nat
  BY Here, ProcRules
<1>3. ps[p] \in Process(prog)
  BY Here
<1>4. /\ w \in Process(prog) /\ w.pc = ps[p].pc + n /\ w.st = "run"
      /\ w.ppid = ps[p].ppid /\ w.mask = ps[p].mask /\ w.smask = ps[p].smask
      /\ w.disp = ps[p].disp /\ w.sdisp = ps[p].sdisp /\ w.entry = ps[p].entry
  BY <1>2, <1>3 DEF Process
<1>5. ps[p].st \in Live
  BY DEF Live
<1> HIDE DEF w
<1>6. Good(prog, [ps EXCEPT ![p] = w], mem)
  BY <1>4, <1>5, Here, MoveGood
<1> QED BY <1>1, <1>6

(* The call succeeds, and changes neither mask nor dispositions. *)
LEMMA PlainGood ==
    ASSUME Disciplined, IInv, NEW p \in Procs, NEW op, Calls(p, op),
           op \notin Ending, op # "jump", op \notin Marking
    PROVE  Good(prog, On(ps, p, 1), mem)
<1>1. /\ ps[p].pc + 1 \in Reached(prog, p)
      /\ MarkAt(prog, p, ps[p].pc + 1) \in
           {MarkAt(prog, p, ps[p].pc), Forget(MarkAt(prog, p, ps[p].pc))}
  BY AtCall, Here, PlainPlace
<1> QED BY <1>1, AtCall, OnGood

(* A branch is taken. *)
LEMMA BranchGood ==
    ASSUME Disciplined, IInv, NEW p \in Procs, NEW op, Calls(p, op),
           op \notin Ending, op \notin {"jump", "raise", "wait"}
    PROVE  Good(prog, On(ps, p, NextCall(p).k), mem)
<1>1. LET j == ps[p].pc + NextCall(p).k
      IN  /\ j \in Reached(prog, p)
          /\ MarkAt(prog, p, j) \in
               {MarkAt(prog, p, ps[p].pc), Forget(MarkAt(prog, p, ps[p].pc))}
  BY AtCall, Here, BranchPlace
<1> QED BY <1>1, AtCall, OnGood

(* The call fails: the process ends, or goes on. *)
LEMMA FailsGood ==
    ASSUME Disciplined, IInv, NEW p \in Procs,
           ps[p].pc <= Len(Code[prog][p]), NextCall(p).op \notin Ending,
           NextCall(p).op \notin {"jump", "raise"},
           NextCall(p).op # "wait" \/ MarkAt(prog, p, ps[p].pc).child = "",
           NEW T, Good(prog, T, mem), T[p].pc = ps[p].pc, T[p].st = "run"
    PROVE  Good(prog, Fails(T, p), mem)
<1> DEFINE n == NextCall(p).k
           w == [T[p] EXCEPT !.pc = T[p].pc + n]
<1>1. CASE NextCall(p).k = 0
  <2>1. Good(prog, Ends(T, p, "failed"), mem)
    BY Here, EndsGood
  <2> QED BY <1>1, <2>1 DEF Fails
<1>2. CASE NextCall(p).k # 0
  <2>1. Fails(T, p) = [T EXCEPT ![p] = w]
    BY <1>2 DEF Fails, On
  <2>2. LET j == ps[p].pc + n
        IN  /\ j \in Reached(prog, p)
            /\ MarkAt(prog, p, j) \in
                 {MarkAt(prog, p, ps[p].pc), Forget(MarkAt(prog, p, ps[p].pc))}
    BY Here, BranchPlace
  <2> HIDE DEF n
  <2>3. T[p].pc + n \in Nat
    <3>1. ps[p].pc + n \in Nat
      BY <2>2, Here, PlaceNat
    <3> QED BY <3>1
  <2>4. T[p] \in Process(prog)
    BY Here DEF Good, TableInv
  <2>5. /\ w \in Process(prog) /\ w.pc = T[p].pc + n /\ w.st = "run"
        /\ w.ppid = T[p].ppid /\ w.mask = T[p].mask /\ w.smask = T[p].smask
        /\ w.disp = T[p].disp /\ w.sdisp = T[p].sdisp /\ w.entry = T[p].entry
    BY <2>3, <2>4 DEF Process
  <2>6. T[p].st \in Live
    BY DEF Live
  <2> HIDE DEF w
  <2>7. Good(prog, [T EXCEPT ![p] = w], mem)
    BY <2>2, <2>5, <2>6, Here, MoveGood
  <2> QED BY <2>1, <2>7
<1> QED BY <1>1, <1>2

(* The same for a process that makes the call. *)
LEMMA CallFails ==
    ASSUME Disciplined, IInv, NEW p \in Procs, NEW op, Calls(p, op),
           op \notin Ending, op \notin {"jump", "raise", "wait"}
    PROVE  Good(prog, Fails(ps, p), mem)
  BY AtCall, Here, FailsGood

-----------------------------------------------------------------------------
(* The invariant after a step.                                             *)

(* The parts of the invariant make it up. *)
LEMMA Together ==
    ASSUME IInv, UNCHANGED program, Good(prog, ps', mem'),
           QueueInv(prog, queues'), pipes' \in [Pipes -> Nat],
           mem' \in [Vars -> Int], tty' \in Groups(prog),
           faults' \in 0..MaxFaults
    PROVE  IInv'
<1>1. prog' = prog /\ code' = code
  BY DEF program
<1> QED BY <1>1 DEF IInv, Good

(* A step of the process table alone. *)
LEMMA TableOnly ==
    ASSUME IInv, UNCHANGED Rest, Good(prog, ps', mem)
    PROVE  IInv'
<1>1. /\ UNCHANGED program /\ pipes' = pipes /\ queues' = queues
      /\ mem' = mem /\ tty' = tty /\ faults' = faults
  BY DEF Rest
<1>2. prog' = prog /\ code' = code
  BY <1>1 DEF program
<1> QED BY <1>1, <1>2 DEF IInv, Good

-----------------------------------------------------------------------------
(* One lemma per action: first the calls that leave the masks, the         *)
(* dispositions and the semaphores alone.                                  *)

(* A part of a process that the marks do not speak of is changed. *)
LEMMA PartGood ==
    ASSUME Disciplined, NEW g \in DOMAIN Code, NEW T, NEW m, Good(g, T, m),
           NEW p \in ProcsOf(g)
    PROVE  /\ T[p].fds \in SUBSET Descriptors /\ T[p].pend \in SUBSET Signals
           /\ \A x \in SUBSET Descriptors : Good(g, [T EXCEPT ![p].fds = x], m)
           /\ \A x \in SUBSET Signals : Good(g, [T EXCEPT ![p].pend = x], m)
           /\ \A x \in BOOLEAN : Good(g, [T EXCEPT ![p].alarm = x], m)
           /\ \A x \in Groups(g) : Good(g, [T EXCEPT ![p].pgid = x], m)
           /\ \A x \in Groups(g) : Good(g, [T EXCEPT ![p].sid = x], m)
<1>1. T[p] \in Process(g)
  BY DEF Good, TableInv
<1>2. T[p].fds \in SUBSET Descriptors /\ T[p].pend \in SUBSET Signals
  BY <1>1 DEF Process
<1>3. ASSUME NEW x \in SUBSET Descriptors
      PROVE  Good(g, [T EXCEPT ![p].fds = x], m)
  <2> DEFINE v == [T[p] EXCEPT !.fds = x]
  <2>1. v \in Process(g) /\ Alike(v, T[p])
    BY <1>1, Parts
  <2>2. [T EXCEPT ![p].fds = x] = [T EXCEPT ![p] = v]
    OBVIOUS
  <2> HIDE DEF v
  <2>3. Good(g, [T EXCEPT ![p] = v], m)
    BY <2>1, ChangeOne
  <2> QED BY <2>2, <2>3
<1>4. ASSUME NEW x \in SUBSET Signals
      PROVE  Good(g, [T EXCEPT ![p].pend = x], m)
  <2> DEFINE v == [T[p] EXCEPT !.pend = x]
  <2>1. v \in Process(g) /\ Alike(v, T[p])
    BY <1>1, Parts
  <2>2. [T EXCEPT ![p].pend = x] = [T EXCEPT ![p] = v]
    OBVIOUS
  <2> HIDE DEF v
  <2>3. Good(g, [T EXCEPT ![p] = v], m)
    BY <2>1, ChangeOne
  <2> QED BY <2>2, <2>3
<1>5. ASSUME NEW x \in BOOLEAN PROVE Good(g, [T EXCEPT ![p].alarm = x], m)
  <2> DEFINE v == [T[p] EXCEPT !.alarm = x]
  <2>1. v \in Process(g) /\ Alike(v, T[p])
    BY <1>1, Parts
  <2>2. [T EXCEPT ![p].alarm = x] = [T EXCEPT ![p] = v]
    OBVIOUS
  <2> HIDE DEF v
  <2>3. Good(g, [T EXCEPT ![p] = v], m)
    BY <2>1, ChangeOne
  <2> QED BY <2>2, <2>3
<1>6. ASSUME NEW x \in Groups(g) PROVE Good(g, [T EXCEPT ![p].pgid = x], m)
  <2> DEFINE v == [T[p] EXCEPT !.pgid = x]
  <2>1. v \in Process(g) /\ Alike(v, T[p])
    BY <1>1, Parts
  <2>2. [T EXCEPT ![p].pgid = x] = [T EXCEPT ![p] = v]
    OBVIOUS
  <2> HIDE DEF v
  <2>3. Good(g, [T EXCEPT ![p] = v], m)
    BY <2>1, ChangeOne
  <2> QED BY <2>2, <2>3
<1>7. ASSUME NEW x \in Groups(g) PROVE Good(g, [T EXCEPT ![p].sid = x], m)
  <2> DEFINE v == [T[p] EXCEPT !.sid = x]
  <2>1. v \in Process(g) /\ Alike(v, T[p])
    BY <1>1, Parts
  <2>2. [T EXCEPT ![p].sid = x] = [T EXCEPT ![p] = v]
    OBVIOUS
  <2> HIDE DEF v
  <2>3. Good(g, [T EXCEPT ![p] = v], m)
    BY <2>1, ChangeOne
  <2> QED BY <2>2, <2>3
<1> QED BY <1>2, <1>3, <1>4, <1>5, <1>6, <1>7

(* The process after a call that succeeded. *)
LEMMA OnPart ==
    ASSUME Disciplined, IInv, NEW p \in Procs, NEW n
    PROVE  /\ On(ps, p, n)[p].fds = ps[p].fds
           /\ On(ps, p, n)[p].pend = ps[p].pend
           /\ \A q \in Procs \ {p} : On(ps, p, n)[q] = ps[q]
<1>1. ps[p] \in Process(prog) /\ ps \in [ProcsOf(prog) -> Process(prog)]
  BY Here
<1>2. On(ps, p, n)[p] = [ps[p] EXCEPT !.pc = ps[p].pc + n]
  BY <1>1, Here DEF On
<1>3. \A q \in Procs \ {p} : On(ps, p, n)[q] = ps[q]
  BY <1>1, Here DEF On
<1> QED BY <1>1, <1>2, <1>3 DEF Process

(* exit(), the return from main() and errExit(). *)
LEMMA ExitInv ==
    ASSUME Disciplined, IInv, NEW p \in Procs, exit(p) PROVE IInv'
<1>1. UNCHANGED Rest
  BY DEF exit
<1>2. ps' = Ends(ps, p, "exit") \/ ps' = Ends(ps, p, "failed")
  BY DEF exit
<1>3. Good(prog, ps', mem)
  <2>1. CASE ps' = Ends(ps, p, "exit")
    BY <2>1, Here, EndsGood
  <2>2. CASE ps' = Ends(ps, p, "failed")
    BY <2>2, Here, EndsGood
  <2> QED BY <1>2, <2>1, <2>2
<1> QED BY <1>1, <1>3, TableOnly

(* Somebody kills a process. *)
LEMMA CrashInv ==
    ASSUME Disciplined, IInv, NEW p \in Procs, Crash(p) PROVE IInv'
<1>1. /\ ps' = Ends(ps, p, "killed") /\ faults < MaxFaults
      /\ faults' = faults + 1 /\ mem' = mem
      /\ UNCHANGED <<program, pipes, queues, tty>>
  BY DEF Crash
<1>2. Good(prog, ps', mem)
  BY <1>1, Here, EndsGood
<1>3. faults' \in 0..MaxFaults
  BY <1>1, ProcessAssumption DEF IInv
<1> QED BY <1>1, <1>2, <1>3, Together DEF IInv

(* alarm(). *)
LEMMA AlarmInv ==
    ASSUME Disciplined, IInv, NEW p \in Procs, alarm(p) PROVE IInv'
<1> DEFINE V == On(ps, p, 1)
<1>1. Calls(p, "alarm") /\ UNCHANGED Rest /\ ps' = [V EXCEPT ![p].alarm = N(p)]
  BY DEF alarm
<1>2. Good(prog, V, mem)
  BY <1>1, PlainGood DEF Ending, Marking
<1>3. N(p) \in BOOLEAN
  BY <1>1, AtCall, Here DEF N, CallOK, ArgsOK
<1> HIDE DEF V
<1>4. Good(prog, ps', mem)
  BY <1>1, <1>2, <1>3, Here, PartGood
<1> QED BY <1>1, <1>4, TableOnly

(* An alarm rings. *)
LEMMA AlarmRingsInv ==
    ASSUME Disciplined, IInv, NEW p \in Procs, AlarmRings(p) PROVE IInv'
<1> DEFINE V == [ps EXCEPT ![p].alarm = FALSE]
<1>1. UNCHANGED Rest /\ ps' = Signaled(V, {p}, "ALRM")
  BY DEF AlarmRings
<1>2. Good(prog, V, mem)
  BY Here, PartGood
<1>3. "ALRM" \in Signals
  BY Here, Names DEF KernelSignals
<1> HIDE DEF V
<1>4. Good(prog, ps', mem)
  BY <1>1, <1>2, <1>3, Here, SignaledGood
<1> QED BY <1>1, <1>4, TableOnly

(* pipe(), dup2(), close() and the closing of all descriptors. *)
LEMMA PipeInv ==
    ASSUME Disciplined, IInv, NEW p \in Procs, pipe(p) PROVE IInv'
<1> DEFINE V == On(ps, p, 1)
<1>1. /\ Calls(p, "pipe") /\ UNCHANGED Rest
      /\ ps' = [V EXCEPT ![p].fds =
                  V[p].fds \cup {<<X(p), "r", "pfd">>, <<X(p), "w", "pfd">>}]
  BY DEF pipe
<1>2. Good(prog, V, mem)
  BY <1>1, PlainGood DEF Ending, Marking
<1>3. X(p) \in Pipes
  BY <1>1, AtCall, Here DEF X, CallOK, ArgsOK
<1> HIDE DEF V
<1>4. V[p].fds \in SUBSET Descriptors
  BY <1>2, Here, PartGood
<1>5. V[p].fds \cup {<<X(p), "r", "pfd">>, <<X(p), "w", "pfd">>}
        \in SUBSET Descriptors
  BY <1>3, <1>4 DEF Descriptors
<1>6. Good(prog, ps', mem)
  BY <1>1, <1>2, <1>5, Here, PartGood
<1> QED BY <1>1, <1>6, TableOnly

(* dup2(). *)
LEMMA Dup2Inv ==
    ASSUME Disciplined, IInv, NEW p \in Procs, dup2(p) PROVE IInv'
<1> DEFINE V == On(ps, p, 1)
<1>1. /\ Calls(p, "dup2") /\ UNCHANGED Rest
      /\ ps' = [V EXCEPT ![p].fds = V[p].fds \cup {<<X(p), N(p), "std">>}]
  BY DEF dup2
<1>2. Good(prog, V, mem)
  BY <1>1, PlainGood DEF Ending, Marking
<1>3. X(p) \in Pipes /\ N(p) \in {"r", "w"}
  BY <1>1, AtCall, Here DEF X, N, CallOK, ArgsOK
<1> HIDE DEF V
<1>4. V[p].fds \in SUBSET Descriptors
  BY <1>2, Here, PartGood
<1>5. V[p].fds \cup {<<X(p), N(p), "std">>} \in SUBSET Descriptors
  BY <1>3, <1>4 DEF Descriptors
<1>6. Good(prog, ps', mem)
  BY <1>1, <1>2, <1>5, Here, PartGood
<1> QED BY <1>1, <1>6, TableOnly

(* close(). *)
LEMMA CloseInv ==
    ASSUME Disciplined, IInv, NEW p \in Procs, close(p) PROVE IInv'
<1> DEFINE V == On(ps, p, 1)
<1>1. /\ Calls(p, "close") /\ UNCHANGED Rest
      /\ ps' = [V EXCEPT ![p].fds = V[p].fds \ {<<X(p), N(p), "pfd">>}]
  BY DEF close
<1>2. Good(prog, V, mem)
  BY <1>1, PlainGood DEF Ending, Marking
<1> HIDE DEF V
<1>3. V[p].fds \in SUBSET Descriptors
  BY <1>2, Here, PartGood
<1>4. V[p].fds \ {<<X(p), N(p), "pfd">>} \in SUBSET Descriptors
  BY <1>3
<1>5. Good(prog, ps', mem)
  BY <1>1, <1>2, <1>4, Here, PartGood
<1> QED BY <1>1, <1>5, TableOnly

(* The closing of all descriptors. *)
LEMMA CloseAllInv ==
    ASSUME Disciplined, IInv, NEW p \in Procs, close_all(p) PROVE IInv'
<1> DEFINE V == On(ps, p, 1)
<1>1. /\ Calls(p, "close_all") /\ UNCHANGED Rest
      /\ ps' = [V EXCEPT ![p].fds = {}]
  BY DEF close_all
<1>2. Good(prog, V, mem)
  BY <1>1, PlainGood DEF Ending, Marking
<1> HIDE DEF V
<1>3. {} \in SUBSET Descriptors
  OBVIOUS
<1>4. Good(prog, ps', mem)
  BY <1>1, <1>2, <1>3, Here, PartGood
<1> QED BY <1>1, <1>4, TableOnly

(* flock(). *)
LEMMA LockInv ==
    ASSUME Disciplined, IInv, NEW p \in Procs, lock(p) PROVE IInv'
<1> DEFINE V == On(ps, p, 1)
<1>1. PICK op \in {"lock", "trylock"} : Calls(p, op)
  BY DEF lock
<1>2. Good(prog, V, mem) /\ Good(prog, Fails(ps, p), mem)
  BY <1>1, PlainGood, CallFails DEF Ending, Marking
<1>3. UNCHANGED Rest
  BY DEF lock
<1>4. \/ ps' = [V EXCEPT ![p].fds = V[p].fds \cup {<<X(p), "l", "pfd">>}]
      \/ ps' = Fails(ps, p)
  BY DEF lock
<1>5. X(p) \in Pipes
  BY <1>1, AtCall, Here DEF X, CallOK, ArgsOK
<1> HIDE DEF V
<1>6. V[p].fds \in SUBSET Descriptors
  BY <1>2, Here, PartGood
<1>7. V[p].fds \cup {<<X(p), "l", "pfd">>} \in SUBSET Descriptors
  BY <1>5, <1>6 DEF Descriptors
<1>8. Good(prog, ps', mem)
  <2>1. Good(prog, [V EXCEPT ![p].fds = V[p].fds \cup {<<X(p), "l", "pfd">>}],
             mem)
    BY <1>2, <1>7, Here, PartGood
  <2> QED BY <1>2, <1>4, <2>1
<1> QED BY <1>3, <1>8, TableOnly

(* write(): SIGPIPE if nobody can read. *)
LEMMA WriteInv ==
    ASSUME Disciplined, IInv, NEW p \in Procs, write(p) PROVE IInv'
<1> DEFINE V == On(ps, p, 1)
<1>1. Calls(p, "write") /\ UNCHANGED <<program, queues, mem, tty, faults>>
  BY DEF write
<1>2. Good(prog, V, mem)
  BY <1>1, PlainGood DEF Ending, Marking
<1>3. X(p) \in Pipes /\ pipes \in [Pipes -> Nat]
  BY <1>1, AtCall, Here DEF X, CallOK, ArgsOK, IInv
<1>4. \/ ps' = Signaled(V, {p}, "PIPE") /\ pipes' = pipes
      \/ ps' = V /\ pipes' = [pipes EXCEPT ![X(p)] = @ + 1]
  BY DEF write
<1>5. "PIPE" \in Signals
  BY Here, Names DEF KernelSignals
<1> HIDE DEF V
<1>6. Good(prog, Signaled(V, {p}, "PIPE"), mem)
  BY <1>2, <1>5, Here, SignaledGood
<1>7. Good(prog, ps', mem)
  BY <1>2, <1>4, <1>6
<1>8. pipes' \in [Pipes -> Nat]
  BY <1>3, <1>4
<1> QED BY <1>1, <1>7, <1>8, Together DEF IInv

(* read(), select() of one descriptor and a read until EAGAIN. *)
LEMMA ReadInv ==
    ASSUME Disciplined, IInv, NEW p \in Procs, read(p) PROVE IInv'
<1> DEFINE V == On(ps, p, 1)
<1>1. /\ UNCHANGED <<program, queues, mem, tty, faults>>
      /\ \E op \in {"read", "poll", "drain"} : Calls(p, op)
  BY DEF read
<1>2. PICK op \in {"read", "poll", "drain"} : Calls(p, op)
  BY <1>1
<1>3. Good(prog, V, mem) /\ Good(prog, Fails(ps, p), mem)
  BY <1>2, PlainGood, CallFails DEF Ending, Marking
<1>4. X(p) \in Pipes /\ pipes \in [Pipes -> Nat]
  BY <1>2, AtCall, Here DEF X, CallOK, ArgsOK, IInv
<1>5. ps' = V \/ ps' = Fails(ps, p)
  BY DEF read
<1>6. \/ pipes[X(p)] > 0 /\ pipes' = [pipes EXCEPT ![X(p)] = @ - 1]
      \/ pipes' = pipes
      \/ pipes' = [pipes EXCEPT ![X(p)] = 0]
  BY DEF read
<1> HIDE DEF V
<1>7. Good(prog, ps', mem)
  BY <1>3, <1>5
<1>8. pipes' \in [Pipes -> Nat]
  <2>1. pipes[X(p)] \in Nat
    BY <1>4
  <2> QED BY <1>4, <1>6, <2>1
<1> QED BY <1>1, <1>7, <1>8, Together DEF IInv

(* select() and FD_ISSET(). *)
LEMMA SelectInv ==
    ASSUME Disciplined, IInv, NEW p \in Procs, select(p) PROVE IInv'
<1>1. UNCHANGED Rest
  BY DEF select
<1>2. PICK op \in {"select", "isset"} : Calls(p, op)
  BY DEF select
<1>3. Good(prog, On(ps, p, 1), mem) /\ Good(prog, On(ps, p, NextCall(p).k), mem)
  BY <1>2, PlainGood, BranchGood DEF Ending, Marking
<1>4. ps' = On(ps, p, 1) \/ ps' = On(ps, p, NextCall(p).k)
  BY DEF select
<1> QED BY <1>1, <1>3, <1>4, TableOnly

(* connect(): the server, which is main, owns its ends. *)
LEMMA ConnectInv ==
    ASSUME Disciplined, IInv, NEW p \in Procs, connect(p) PROVE IInv'
<1> DEFINE V == On(ps, p, 1)
           a == V[p].fds \cup {<<X(p), "w", "pfd">>, <<N(p), "r", "pfd">>}
           W == [V EXCEPT ![p].fds = a]
           b == W["main"].fds \cup {<<X(p), "r", "pfd">>, <<N(p), "w", "pfd">>}
           Z == [W EXCEPT !["main"].fds = b]
<1>1. Calls(p, "connect") /\ UNCHANGED Rest
  BY DEF connect
<1>2. Good(prog, V, mem) /\ Good(prog, Fails(ps, p), mem)
  BY <1>1, PlainGood, CallFails DEF Ending, Marking
<1>3. X(p) \in Pipes /\ N(p) \in Pipes
  BY <1>1, AtCall, Here DEF X, N, CallOK, ArgsOK
<1>4. ps' = Z \/ ps' = Fails(ps, p)
  BY DEF connect
<1>5. "main" \in ProcsOf(prog)
  BY Here, Names
<1> HIDE DEF V
<1>6. V[p].fds \in SUBSET Descriptors
  BY <1>2, Here, PartGood
<1>7. a \in SUBSET Descriptors
  BY <1>3, <1>6 DEF Descriptors
<1> HIDE DEF a
<1>8. Good(prog, W, mem)
  BY <1>2, <1>7, Here, PartGood
<1> HIDE DEF W
<1>9. W["main"].fds \in SUBSET Descriptors
  BY <1>5, <1>8, Here, PartGood
<1>10. b \in SUBSET Descriptors
  BY <1>3, <1>9 DEF Descriptors
<1> HIDE DEF b
<1>11. PICK c \in ProcsOf(prog) : c = "main"
  BY <1>5
<1>12. Good(prog, [W EXCEPT ![c].fds = b], mem)
  BY <1>8, <1>10, Here, PartGood
<1>13. Good(prog, Z, mem)
  BY <1>11, <1>12
<1> QED BY <1>1, <1>2, <1>4, <1>13, TableOnly

(* accept(). *)
LEMMA AcceptInv ==
    ASSUME Disciplined, IInv, NEW p \in Procs, accept(p) PROVE IInv'
<1>1. UNCHANGED Rest
  BY DEF accept
<1>2. PICK op \in {"accept", "accept_either"} : Calls(p, op)
  BY DEF accept
<1>3. Good(prog, On(ps, p, 1), mem) /\ Good(prog, On(ps, p, NextCall(p).k), mem)
  BY <1>2, PlainGood, BranchGood DEF Ending, Marking
<1>4. ps' = On(ps, p, 1) \/ ps' = On(ps, p, NextCall(p).k)
  BY DEF accept
<1> QED BY <1>1, <1>3, <1>4, TableOnly

(* A descriptor is sent to main. *)
LEMMA SendfdInv ==
    ASSUME Disciplined, IInv, NEW p \in Procs, sendfd(p) PROVE IInv'
<1> DEFINE V == On(ps, p, 1)
           b == V["main"].fds \cup {<<N(p), "r", "pfd">>}
<1>1. /\ Calls(p, "sendfd") /\ UNCHANGED <<program, queues, mem, tty, faults>>
      /\ ps' = [V EXCEPT !["main"].fds = b]
      /\ pipes' = [pipes EXCEPT ![X(p)] = @ + 1]
  BY DEF sendfd
<1>2. Good(prog, V, mem)
  BY <1>1, PlainGood DEF Ending, Marking
<1>3. X(p) \in Pipes /\ N(p) \in Pipes /\ pipes \in [Pipes -> Nat]
  BY <1>1, AtCall, Here DEF X, N, CallOK, ArgsOK, IInv
<1> HIDE DEF V
<1>4. PICK c \in ProcsOf(prog) : c = "main"
  BY Here, Names
<1>5. V[c].fds \in SUBSET Descriptors
  BY <1>2, Here, PartGood
<1>6. b \in SUBSET Descriptors
  BY <1>3, <1>4, <1>5 DEF Descriptors
<1> HIDE DEF b
<1>7. Good(prog, [V EXCEPT ![c].fds = b], mem)
  BY <1>2, <1>6, Here, PartGood
<1>8. Good(prog, ps', mem)
  BY <1>1, <1>4, <1>7
<1>9. pipes' \in [Pipes -> Nat]
  BY <1>1, <1>3
<1> QED BY <1>1, <1>8, <1>9, Together DEF IInv

(* shutdown(): every process loses the writing side. *)
LEMMA ShutdownInv ==
    ASSUME Disciplined, IInv, NEW p \in Procs, shutdown(p) PROVE IInv'
<1> DEFINE V == On(ps, p, 1)
<1>1. /\ Calls(p, "shutdown") /\ UNCHANGED Rest
      /\ ps' = [q \in Procs |-> [V[q] EXCEPT
                                   !.fds = V[q].fds \ {<<X(p), "w", "pfd">>}]]
  BY DEF shutdown
<1>2. Good(prog, V, mem)
  BY <1>1, PlainGood DEF Ending, Marking
<1> HIDE DEF V
<1>3. ASSUME NEW q \in ProcsOf(prog)
      PROVE  ps'[q] \in Process(prog) /\ Alike(ps'[q], V[q])
  <2>1. V[q] \in Process(prog)
    BY <1>2 DEF Good, TableInv
  <2>2. V[q].fds \ {<<X(p), "w", "pfd">>} \in SUBSET Descriptors
    BY <1>2, Here, PartGood
  <2>3. ps'[q] = [V[q] EXCEPT !.fds = V[q].fds \ {<<X(p), "w", "pfd">>}]
    BY <1>1, Here
  <2>4. PICK x \in SUBSET Descriptors : x = V[q].fds \ {<<X(p), "w", "pfd">>}
    BY <2>2
  <2>5. [V[q] EXCEPT !.fds = x] \in Process(prog)
    BY <2>1, Parts
  <2>6. Alike([V[q] EXCEPT !.fds = x], V[q])
    BY <2>1, Parts
  <2> QED BY <2>3, <2>4, <2>5, <2>6
<1>4. ps' \in [ProcsOf(prog) -> Process(prog)]
  <2>1. DOMAIN ps' = ProcsOf(prog) /\ ps' = [q \in ProcsOf(prog) |-> ps'[q]]
    BY <1>1, Here
  <2> QED BY <2>1, <1>3
<1>5. Good(prog, ps', mem)
  BY <1>2, <1>3, <1>4, Here, AlikeGood
<1> QED BY <1>1, <1>5, TableOnly

(* sigwaitinfo() and a read from a signalfd. *)
LEMMA SigwaitInv ==
    ASSUME Disciplined, IInv, NEW p \in Procs, sigwait(p) PROVE IInv'
<1> DEFINE n(s) == IF s \in {"INT", "TERM"} THEN NextCall(p).k ELSE 1
<1>1. Calls(p, "sigwait") /\ UNCHANGED Rest
  BY DEF sigwait
<1>2. PICK s : ps' = [On(ps, p, n(s)) EXCEPT
                        ![p].pend = On(ps, p, n(s))[p].pend \ {s}]
  BY DEF sigwait
<1>3. Good(prog, On(ps, p, 1), mem) /\ Good(prog, On(ps, p, NextCall(p).k), mem)
  BY <1>1, PlainGood, BranchGood DEF Ending, Marking
<1>4. n(s) = 1 \/ n(s) = NextCall(p).k
  OBVIOUS
<1> DEFINE V == On(ps, p, n(s))
<1>5. Good(prog, V, mem) /\ ps' = [V EXCEPT ![p].pend = V[p].pend \ {s}]
  BY <1>2, <1>3, <1>4
<1> HIDE DEF V
<1>6. V[p].pend \ {s} \in SUBSET Signals
  BY <1>5, Here, PartGood
<1>7. Good(prog, ps', mem)
  BY <1>5, <1>6, Here, PartGood
<1> QED BY <1>1, <1>7, TableOnly

(* kill(). *)
LEMMA KillInv ==
    ASSUME Disciplined, IInv, NEW p \in Procs, kill(p) PROVE IInv'
<1> DEFINE t == IF X(p) = "ppid" THEN ps[p].ppid ELSE X(p)
           Q == IF X(p) = "group" THEN Members(ps, tty) ELSE {t} \cap Procs
           V == On(ps, p, 1)
<1>1. Calls(p, "kill") /\ UNCHANGED Rest
  BY DEF kill
<1>2. Good(prog, V, mem) /\ Good(prog, Fails(ps, p), mem)
  BY <1>1, PlainGood, CallFails DEF Ending, Marking
<1>3. N(p) \in Signals
  BY <1>1, AtCall, Here DEF N, CallOK, ArgsOK
<1>4. ps' = Signaled(V, Q, N(p)) \/ ps' = Fails(ps, p)
  BY DEF kill
<1> HIDE DEF V, Q
<1>5. Good(prog, Signaled(V, Q, N(p)), mem)
  BY <1>2, <1>3, Here, SignaledGood
<1> QED BY <1>1, <1>2, <1>4, <1>5, TableOnly

(* setpgid(). *)
LEMMA SetpgidInv ==
    ASSUME Disciplined, IInv, NEW p \in Procs, setpgid(p) PROVE IInv'
<1> DEFINE V == On(ps, p, 1)
<1>1. Calls(p, "setpgid") /\ UNCHANGED Rest
  BY DEF setpgid
<1>2. Good(prog, V, mem) /\ Good(prog, Fails(ps, p), mem)
  BY <1>1, PlainGood, CallFails DEF Ending, Marking
<1>3. X(p) \in ProcsOf(prog) /\ N(p) \in Groups(prog)
  BY <1>1, AtCall, Here DEF X, N, CallOK, ArgsOK, Groups
<1>4. ps' = [V EXCEPT ![X(p)].pgid = N(p)] \/ ps' = Fails(ps, p)
  BY DEF setpgid
<1> HIDE DEF V
<1>5. Good(prog, [V EXCEPT ![X(p)].pgid = N(p)], mem)
  BY <1>2, <1>3, Here, PartGood
<1> QED BY <1>1, <1>2, <1>4, <1>5, TableOnly

(* setsid(). *)
LEMMA SetsidInv ==
    ASSUME Disciplined, IInv, NEW p \in Procs, setsid(p) PROVE IInv'
<1> DEFINE V == On(ps, p, 1)
           W == [V EXCEPT ![p].sid = p]
<1>1. Calls(p, "setsid") /\ UNCHANGED Rest
  BY DEF setsid
<1>2. Good(prog, V, mem) /\ Good(prog, Fails(ps, p), mem)
  BY <1>1, PlainGood, CallFails DEF Ending, Marking
<1>3. ps' = [W EXCEPT ![p].pgid = p] \/ ps' = Fails(ps, p)
  BY DEF setsid
<1>4. p \in Groups(prog)
  BY Here DEF Groups
<1> HIDE DEF V
<1>5. Good(prog, W, mem)
  BY <1>2, <1>4, Here, PartGood
<1> HIDE DEF W
<1>6. Good(prog, [W EXCEPT ![p].pgid = p], mem)
  BY <1>4, <1>5, Here, PartGood
<1> QED BY <1>1, <1>2, <1>3, <1>6, TableOnly

(* tcsetpgrp(). *)
LEMMA TcsetpgrpInv ==
    ASSUME Disciplined, IInv, NEW p \in Procs, tcsetpgrp(p) PROVE IInv'
<1> DEFINE V == Signaled(ps, Members(ps, ps[p].pgid), "TTOU")
<1>1. /\ Calls(p, "tcsetpgrp")
      /\ UNCHANGED <<program, pipes, queues, mem, faults>>
  BY DEF tcsetpgrp
<1>2. Good(prog, On(ps, p, 1), mem) /\ Good(prog, Fails(ps, p), mem)
  BY <1>1, PlainGood, CallFails DEF Ending, Marking
<1>3. X(p) \in Groups(prog)
  BY <1>1, AtCall, Here DEF X, CallOK, ArgsOK, Groups
<1>4. /\ ps' = V \/ ps' = Fails(ps, p) \/ ps' = On(ps, p, 1)
      /\ tty' = tty \/ tty' = X(p)
  BY DEF tcsetpgrp
<1>5. "TTOU" \in Signals
  BY Here, Names DEF KernelSignals
<1>6. Good(prog, V, mem)
  BY <1>5, Here, SignaledGood
<1> HIDE DEF V
<1>7. Good(prog, ps', mem)
  BY <1>2, <1>4, <1>6
<1>8. tty' \in Groups(prog)
  BY <1>3, <1>4 DEF IInv
<1> QED BY <1>1, <1>7, <1>8, Together DEF IInv

(* A shared variable that is no semaphore is set. *)
LEMMA PutGood ==
    ASSUME IInv, NEW T, Good(prog, T, mem), NEW v \in Vars \ BinarySems,
           NEW x \in Int
    PROVE  /\ Good(prog, T, [mem EXCEPT ![v] = x])
           /\ [mem EXCEPT ![v] = x] \in [Vars -> Int]
<1> DEFINE n == [mem EXCEPT ![v] = x]
<1>1. mem \in [Vars -> Int] /\ BinarySems \subseteq Vars
  BY ProcessAssumption DEF IInv
<1>2. n \in [Vars -> Int] /\ \A s \in BinarySems : n[s] = mem[s]
  BY <1>1
<1> HIDE DEF n
<1>3. Good(prog, T, n)
  BY <1>2, MemGood
<1> QED BY <1>2, <1>3 DEF n

(* A step of the program that may fail. *)
LEMMA TryInv ==
    ASSUME Disciplined, IInv, NEW p \in Procs, try(p) PROVE IInv'
<1>1. Calls(p, "try") /\ UNCHANGED <<program, pipes, queues, tty>>
  BY DEF try
<1>2. Good(prog, On(ps, p, 1), mem) /\ Good(prog, Fails(ps, p), mem)
  BY <1>1, PlainGood, CallFails DEF Ending, Marking
<1>3. X(p) \in Vars \ BinarySems
  BY <1>1, AtCall, Here DEF X, CallOK, ArgsOK
<1>4. \/ /\ mem' = [mem EXCEPT ![X(p)] = 1]
         /\ ps' = On(ps, p, 1) /\ faults' = faults
      \/ /\ faults < MaxFaults /\ faults' = faults + 1
         /\ ps' = Fails(ps, p) /\ mem' = mem
  BY DEF try
<1>5. Good(prog, ps', mem') /\ mem' \in [Vars -> Int]
  <2>1. mem \in [Vars -> Int]
    BY DEF IInv
  <2>2. CASE mem' = [mem EXCEPT ![X(p)] = 1] /\ ps' = On(ps, p, 1)
    <3>1. PICK x \in Int : x = 1
      OBVIOUS
    <3> QED BY <2>2, <3>1, <1>2, <1>3, PutGood
  <2>3. CASE ps' = Fails(ps, p) /\ mem' = mem
    BY <2>1, <2>3, <1>2
  <2> QED BY <1>4, <2>2, <2>3
<1>6. faults' \in 0..MaxFaults
  BY <1>4, ProcessAssumption DEF IInv
<1> QED BY <1>1, <1>5, <1>6, Together DEF IInv

(* Shared memory. *)
LEMMA MemoryInv ==
    ASSUME Disciplined, IInv, NEW p \in Procs, memory(p) PROVE IInv'
<1> DEFINE a == IF mem[X(p)] = mem[N(p)] + 1 THEN mem[N(p)] + 1 ELSE -1
           b == IF mem[N(p)] < mem[X(p)] + NextCall(p).k
                THEN mem[X(p)] + NextCall(p).k ELSE mem[N(p)]
<1>1. /\ ps' = On(ps, p, 1)
      /\ UNCHANGED <<program, pipes, queues, tty, faults>>
      /\ mem \in [Vars -> Int]
  BY DEF memory, IInv
<1>2. PICK op \in {"set", "copy", "raise"} : Calls(p, op)
  BY DEF memory
<1>3. Good(prog, On(ps, p, 1), mem)
  BY <1>2, PlainGood DEF Ending, Marking
<1>4. CASE Calls(p, "set") /\ mem' = [mem EXCEPT ![X(p)] = N(p)]
  <2>1. X(p) \in Vars \ BinarySems /\ N(p) \in Int
    BY <1>4, AtCall, Here DEF X, N, CallOK, ArgsOK
  <2>2. Good(prog, ps', mem') /\ mem' \in [Vars -> Int]
    BY <2>1, <1>1, <1>3, <1>4, PutGood
  <2> QED BY <2>2, <1>1, Together DEF IInv
<1>5. CASE Calls(p, "copy") /\ mem' = [mem EXCEPT ![N(p)] = a]
  <2>1. X(p) \in Vars /\ N(p) \in Vars \ BinarySems
    BY <1>5, AtCall, Here DEF X, N, CallOK, ArgsOK
  <2>2. a \in Int
    BY <2>1, <1>1
  <2> HIDE DEF a
  <2>3. Good(prog, ps', mem') /\ mem' \in [Vars -> Int]
    BY <2>1, <2>2, <1>1, <1>3, <1>5, PutGood
  <2> QED BY <2>3, <1>1, Together DEF IInv
<1>6. CASE Calls(p, "raise") /\ mem' = [mem EXCEPT ![N(p)] = b]
  <2>1. X(p) \in Vars /\ N(p) \in Vars \ BinarySems /\ NextCall(p).k \in Int
    BY <1>6, AtCall, Here DEF X, N, CallOK, ArgsOK
  <2>2. b \in Int
    BY <2>1, <1>1
  <2> HIDE DEF b
  <2>3. Good(prog, ps', mem') /\ mem' \in [Vars -> Int]
    BY <2>1, <2>2, <1>1, <1>3, <1>6, PutGood
  <2> QED BY <2>3, <1>1, Together DEF IInv
<1> QED BY <1>4, <1>5, <1>6 DEF memory

(* The control of the program. *)
LEMMA BranchInv ==
    ASSUME Disciplined, IInv, NEW p \in Procs, branch(p) PROVE IInv'
<1>1. UNCHANGED Rest
  BY DEF branch
<1>2. CASE Calls(p, "jump") /\ ps' = On(ps, p, N(p))
  <2>1. LET j == ps[p].pc + N(p)
        IN  /\ j \in Reached(prog, p)
            /\ MarkAt(prog, p, j) \in
                 {MarkAt(prog, p, ps[p].pc), Forget(MarkAt(prog, p, ps[p].pc))}
    BY <1>2, AtCall, Here, JumpPlace DEF N
  <2>2. Good(prog, ps', mem)
    BY <2>1, <1>2, AtCall, OnGood
  <2> QED BY <1>1, <2>2, TableOnly
<1>3. CASE ~Calls(p, "jump")
  <2>1. PICK op \in {"skip", "await", "registered", "orphan", "vforked"} :
               Calls(p, op)
    BY <1>3 DEF branch
  <2>2. Good(prog, On(ps, p, 1), mem) /\ Good(prog, On(ps, p, NextCall(p).k), mem)
    BY <2>1, PlainGood, BranchGood DEF Ending, Marking
  <2>3. ps' = On(ps, p, 1) \/ ps' = On(ps, p, NextCall(p).k)
    BY <1>3 DEF branch
  <2> QED BY <1>1, <2>2, <2>3, TableOnly
<1>4. Calls(p, "jump") => ps' = On(ps, p, N(p))
  BY DEF branch, Calls
<1> QED BY <1>2, <1>3, <1>4

-----------------------------------------------------------------------------
(* Message queues.                                                         *)

(* The changes of a queue: a message comes or goes, the queue is removed,  *)
(* a process is registered or no longer is.                                *)
LEMMA QueueGood ==
    ASSUME NEW g, NEW Q, QueueInv(g, Q), NEW q \in Queues
    PROVE  /\ \A x \in Int : Len(Q[q].msgs) < QueueSize[q] =>
                QueueInv(g, [Q EXCEPT ![q].msgs = Append(Q[q].msgs, x)])
           /\ Q[q].msgs # <<>> =>
                /\ QueueInv(g, [Q EXCEPT ![q].msgs = Tail(Q[q].msgs)])
                /\ Head(Q[q].msgs) \in Int
           /\ QueueInv(g, [Q EXCEPT ![q].up = FALSE, ![q].msgs = <<>>])
           /\ \A x \in SUBSET ProcsOf(g) :
                QueueInv(g, [Q EXCEPT ![q].notify = x])
<1> DEFINE R == [up : BOOLEAN, msgs : Seq(Int), notify : SUBSET ProcsOf(g)]
<1>1. /\ Q \in [Queues -> R] /\ QueueSize \in [Queues -> Nat \ {0}]
      /\ \A r \in Queues : Len(Q[r].msgs) <= QueueSize[r]
  BY ProcessAssumption DEF QueueInv
<1>2. Q[q] \in R /\ QueueSize[q] \in Nat /\ Q[q].msgs \in Seq(Int)
  BY <1>1
<1>3. ASSUME NEW v \in R, Len(v.msgs) <= QueueSize[q]
      PROVE  QueueInv(g, [Q EXCEPT ![q] = v])
  <2> DEFINE P == [Q EXCEPT ![q] = v]
  <2>1. P \in [Queues -> R] /\ P[q] = v /\ \A r \in Queues \ {q} : P[r] = Q[r]
    BY <1>1
  <2>2. \A r \in Queues : Len(P[r].msgs) <= QueueSize[r]
    BY <2>1, <1>1, <1>3
  <2> QED BY <2>1, <2>2 DEF QueueInv
<1>4. ASSUME NEW x \in Int, Len(Q[q].msgs) < QueueSize[q]
      PROVE  QueueInv(g, [Q EXCEPT ![q].msgs = Append(Q[q].msgs, x)])
  <2> DEFINE s == Append(Q[q].msgs, x)
             v == [Q[q] EXCEPT !.msgs = s]
  <2>1. s \in Seq(Int) /\ Len(s) <= QueueSize[q]
    BY <1>2, <1>4
  <2> HIDE DEF s
  <2>2. v \in R /\ v.msgs = s
    BY <2>1, <1>2
  <2>3. QueueInv(g, [Q EXCEPT ![q] = v])
    BY <2>1, <2>2, <1>3
  <2> QED BY <2>3 DEF s
<1>5. ASSUME Q[q].msgs # <<>>
      PROVE  /\ QueueInv(g, [Q EXCEPT ![q].msgs = Tail(Q[q].msgs)])
             /\ Head(Q[q].msgs) \in Int
  <2> DEFINE s == Tail(Q[q].msgs)
             v == [Q[q] EXCEPT !.msgs = s]
  <2>1. Len(Q[q].msgs) <= QueueSize[q]
    BY <1>1
  <2>2. s \in Seq(Int) /\ Len(s) <= QueueSize[q] /\ Head(Q[q].msgs) \in Int
    BY <1>2, <1>5, <2>1
  <2> HIDE DEF s
  <2>3. v \in R /\ v.msgs = s
    BY <2>2, <1>2
  <2>4. QueueInv(g, [Q EXCEPT ![q] = v])
    BY <2>2, <2>3, <1>3
  <2> QED BY <2>2, <2>4 DEF s
<1>6. QueueInv(g, [Q EXCEPT ![q].up = FALSE, ![q].msgs = <<>>])
  <2> DEFINE s == <<>>
             v == [Q[q] EXCEPT !.up = FALSE, !.msgs = s]
  <2>0. s \in Seq(Int) /\ Len(s) = 0
    OBVIOUS
  <2> HIDE DEF s
  <2>1. v \in R /\ v.msgs = s
    BY <1>2, <2>0
  <2>2. Len(v.msgs) <= QueueSize[q]
    BY <2>0, <2>1, <1>2
  <2>3. [Q EXCEPT ![q].up = FALSE, ![q].msgs = <<>>] = [Q EXCEPT ![q] = v]
    BY <1>1 DEF s
  <2> HIDE DEF v
  <2> QED BY <2>1, <2>2, <2>3, <1>3
<1>7. ASSUME NEW x \in SUBSET ProcsOf(g)
      PROVE  QueueInv(g, [Q EXCEPT ![q].notify = x])
  <2> DEFINE v == [Q[q] EXCEPT !.notify = x]
  <2>1. v \in R /\ v.msgs = Q[q].msgs
    BY <1>2
  <2>2. Len(v.msgs) <= QueueSize[q]
    BY <2>1, <1>1
  <2> HIDE DEF v
  <2> QED BY <2>1, <2>2, <1>3 DEF v
<1> QED BY <1>4, <1>5, <1>6, <1>7

(* The calls on message queues. *)
LEMMA QueueStepInv ==
    ASSUME Disciplined, IInv, NEW p \in Procs, queue(p) PROVE IInv'
<1> DEFINE c == X(p)
           q == queues[c]
           U == [queues EXCEPT ![c].msgs = Append(queues[c].msgs, N(p))]
<1>1. /\ UNCHANGED <<program, pipes, tty, faults>>
      /\ QueueInv(prog, queues) /\ mem \in [Vars -> Int]
  BY DEF queue, IInv
<1>2. PICK op \in {"msgsnd", "msgrcv", "msgctl", "mq_notify", "mq_receive"} :
             Calls(p, op)
  BY DEF queue
<1>3. Good(prog, On(ps, p, 1), mem) /\ Good(prog, Fails(ps, p), mem)
  BY <1>2, PlainGood, CallFails DEF Ending, Marking
<1>4. c \in Queues
  BY <1>2, AtCall, Here DEF X, CallOK, ArgsOK
<1>5. SUFFICES /\ Good(prog, ps', mem') /\ mem' \in [Vars -> Int]
               /\ QueueInv(prog, queues')
  BY <1>1, Together DEF IInv
<1>6. CASE ps' = Fails(ps, p) /\ queues' = queues /\ mem' = mem
  BY <1>1, <1>3, <1>6
<1>7. CASE /\ Calls(p, "msgsnd") /\ Len(q.msgs) < QueueSize[c] /\ mem' = mem
           /\ \/ /\ ps' = Signaled(On(ps, p, 1), q.notify, "USR1")
                 /\ queues' = [U EXCEPT ![c].notify = {}]
              \/ ps' = On(ps, p, 1) /\ queues' = U
  <2>1. N(p) \in Int
    BY <1>7, AtCall, Here DEF N, CallOK, ArgsOK
  <2>2. QueueInv(prog, U)
    BY <2>1, <1>1, <1>4, <1>7, QueueGood
  <2> HIDE DEF U
  <2>3. PICK x \in SUBSET ProcsOf(prog) : x = {}
    OBVIOUS
  <2>4. QueueInv(prog, [U EXCEPT ![c].notify = x])
    BY <2>2, <1>4, QueueGood
  <2>5. QueueInv(prog, queues')
    BY <2>2, <2>3, <2>4, <1>7
  <2>6. "USR1" \in Signals
    BY Here, Names DEF KernelSignals
  <2>7. Good(prog, Signaled(On(ps, p, 1), q.notify, "USR1"), mem)
    BY <2>6, <1>3, Here, SignaledGood
  <2> QED BY <2>5, <2>7, <1>1, <1>3, <1>7
<1>8. CASE /\ Calls(p, "msgrcv") /\ q.msgs # <<>> /\ ps' = On(ps, p, 1)
           /\ mem' = [mem EXCEPT ![N(p)] = Head(q.msgs)]
           /\ queues' = [queues EXCEPT ![c].msgs = Tail(q.msgs)]
  <2>1. N(p) \in Vars \ BinarySems
    BY <1>8, AtCall, Here DEF N, CallOK, ArgsOK
  <2>2. QueueInv(prog, queues') /\ Head(q.msgs) \in Int
    BY <1>1, <1>4, <1>8, QueueGood
  <2>3. Good(prog, ps', mem') /\ mem' \in [Vars -> Int]
    BY <2>1, <2>2, <1>3, <1>8, PutGood
  <2> QED BY <2>2, <2>3
<1>9. CASE /\ queues' = [queues EXCEPT ![c].up = FALSE, ![c].msgs = <<>>]
           /\ ps' = On(ps, p, 1) /\ mem' = mem
  BY <1>1, <1>3, <1>4, <1>9, QueueGood
<1>10. CASE /\ ps' = On(ps, p, 1) /\ mem' = mem
            /\ queues' = [queues EXCEPT ![c].notify = {p}]
  <2>1. PICK x \in SUBSET ProcsOf(prog) : x = {p}
    BY Here
  <2>2. QueueInv(prog, [queues EXCEPT ![c].notify = x])
    BY <1>1, <1>4, QueueGood
  <2> QED BY <2>1, <2>2, <1>1, <1>3, <1>10
<1>11. CASE /\ q.msgs # <<>> /\ ps' = On(ps, p, 1) /\ mem' = mem
            /\ queues' = [queues EXCEPT ![c].msgs = Tail(q.msgs)]
  BY <1>1, <1>3, <1>4, <1>11, QueueGood
<1> QED BY <1>6, <1>7, <1>8, <1>9, <1>10, <1>11 DEF queue

(* Datagrams. *)
LEMMA SendtoInv ==
    ASSUME Disciplined, IInv, NEW p \in Procs, sendto(p) PROVE IInv'
<1> DEFINE c == X(p)
           U == [queues EXCEPT ![c].msgs = Append(queues[c].msgs, N(p))]
<1>1. /\ UNCHANGED <<program, pipes, tty>> /\ mem' = mem
      /\ QueueInv(prog, queues) /\ mem \in [Vars -> Int]
  BY DEF sendto, IInv
<1>2. PICK op \in {"sendto", "sendto_udp"} : Calls(p, op)
  BY DEF sendto
<1>3. Good(prog, On(ps, p, 1), mem) /\ Good(prog, Fails(ps, p), mem)
  BY <1>2, PlainGood, CallFails DEF Ending, Marking
<1>4. c \in Queues /\ N(p) \in Int
  BY <1>2, AtCall, Here DEF X, N, CallOK, ArgsOK
<1>5. Good(prog, ps', mem')
  BY <1>1, <1>3 DEF sendto
<1>6. QueueInv(prog, queues')
  <2>1. \/ queues' = queues
        \/ Len(queues[c].msgs) < QueueSize[c] /\ queues' = U
    BY DEF sendto
  <2>2. ASSUME Len(queues[c].msgs) < QueueSize[c] PROVE QueueInv(prog, U)
    BY <2>2, <1>1, <1>4, QueueGood
  <2> HIDE DEF U
  <2> QED BY <2>1, <2>2, <1>1
<1>7. faults' \in 0..MaxFaults
  <2>1. faults' = faults \/ (faults < MaxFaults /\ faults' = faults + 1)
    BY DEF sendto
  <2> QED BY <2>1, ProcessAssumption DEF IInv
<1> QED BY <1>1, <1>5, <1>6, <1>7, Together DEF IInv

-----------------------------------------------------------------------------
(* Signal masks and dispositions: what system() does with them.            *)

(* To forget twice is to forget. *)
LEMMA ForgetTwice == ASSUME NEW k PROVE Forget(Forget(k)) = Forget(k)
  BY ForgetMark DEF Forget

(* Outside of system() a mark says at most that there was no entry. *)
LEMMA KnowsOut ==
    ASSUME NEW v, NEW w, NEW k, Knows(w, k), k.phase # "in", v.entry = w.entry
    PROVE  Knows(v, k)
  BY DEF Knows

(* A call changes the mask, the dispositions or the entry of the process   *)
(* as its mark says, and it goes on.                                       *)
LEMMA MarkGood ==
    ASSUME Disciplined, IInv, NEW p \in Procs, NEW op, Calls(p, op),
           op \notin Ending, op # "jump", NEW k, NEW l,
           k = MarkAt(prog, p, ps[p].pc),
           l = MarkAfter(CallAt(prog, p, ps[p].pc), k),
           l.token = k.token, l.made = k.made, l.child \in {"", k.child},
           NEW w \in Process(prog), w.pc = ps[p].pc + 1, w.st = "run",
           w.ppid = ps[p].ppid, Knows(w, l),
           \A s \in Signals : /\ MayHave(prog, s, w.disp[s])
                              /\ MayHave(prog, s, w.sdisp[s])
    PROVE  Good(prog, [ps EXCEPT ![p] = w], mem)
<1> DEFINE i == ps[p].pc
           r == MarkAt(prog, p, i + 1)
<1>0. /\ prog \in DOMAIN Code /\ p \in ProcsOf(prog)
      /\ i \in Reached(prog, p) /\ i <= Len(Code[prog][p])
      /\ CallAt(prog, p, i).op = op
  BY AtCall, Here
<1>1. i + 1 \in Reached(prog, p) /\ r \in {l, Forget(l)}
  BY <1>0, NextPlace
<1>2. Knows(w, r)
  BY <1>1, KnowsForget
<1>3. Local(prog, p, w)
  BY <1>1, <1>2 DEF Local
<1>4. r.child \in {"", k.child} /\ r.token = k.token /\ r.made = k.made
  BY <1>1, ForgetMark
<1>5. w.st \in Live /\ ps[p].st \in Live
  BY AtCall DEF Live
<1> QED BY <1>3, <1>4, <1>5, Here, StepGood

(* The mark after the calls of system(). *)
LEMMA AfterBlock ==
    ASSUME NEW g, NEW k \in MarkSet(g), NEW call, call.op = "block"
    PROVE  LET l == MarkAfter(call, k) IN
           /\ l.token = k.token /\ l.made = k.made /\ l.child = k.child
           /\ k.phase # "in" => l = k
           /\ k.phase = "in" =>
                /\ l.phase = "in" /\ l.blocked = k.blocked \cup call.x
                /\ l.saved => k.blocked = {}
                /\ l.disp = k.disp /\ l.kept = k.kept
<1> DEFINE l == MarkAfter(call, k)
<1>1. CASE k.phase # "in"
  BY <1>1 DEF MarkAfter
<1>2. CASE k.phase = "in"
  <2> DEFINE b == (k.blocked = {})
             c == k.blocked \cup call.x
  <2>1. l = [k EXCEPT !.saved = b, !.blocked = c]
    BY <1>2 DEF MarkAfter, SystemAfter
  <2>2. b => k.blocked = {}
    OBVIOUS
  <2>3. c = k.blocked \cup call.x
    OBVIOUS
  <2> HIDE DEF b, c
  <2>4. /\ l.token = k.token /\ l.made = k.made /\ l.child = k.child
        /\ l.phase = k.phase /\ l.blocked = c /\ l.saved = b
        /\ l.disp = k.disp /\ l.kept = k.kept
    BY <2>1 DEF MarkSet
  <2> QED BY <1>2, <2>2, <2>3, <2>4
<1> QED BY <1>1, <1>2

(* To restore the saved mask: nothing is blocked in addition any more. *)
LEMMA AfterRestoreMask ==
    ASSUME NEW g, NEW k \in MarkSet(g), NEW call, call.op = "restore_mask"
    PROVE  LET l == MarkAfter(call, k) IN
           /\ l.token = k.token /\ l.made = k.made /\ l.child = k.child
           /\ k.phase # "in" => l = k
           /\ k.phase = "in" =>
                /\ l.phase = "in" /\ l.blocked = {} /\ l.saved = k.saved
                /\ l.disp = k.disp /\ l.kept = k.kept
<1> DEFINE l == MarkAfter(call, k)
<1>1. CASE k.phase # "in"
  BY <1>1 DEF MarkAfter
<1>2. CASE k.phase = "in"
  <2>1. l = [k EXCEPT !.blocked = {}]
    BY <1>2 DEF MarkAfter, SystemAfter
  <2> QED BY <1>2, <2>1 DEF MarkSet
<1> QED BY <1>1, <1>2

(* A saved mask that was never set is not the one of the entry. *)
LEMMA AfterUninitialized ==
    ASSUME NEW g, NEW k \in MarkSet(g), NEW call, call.op = "uninitialized"
    PROVE  LET l == MarkAfter(call, k) IN
           /\ l.token = k.token /\ l.made = k.made /\ l.child = k.child
           /\ k.phase # "in" => l = k
           /\ k.phase = "in" =>
                /\ l.phase = "in" /\ l.blocked = k.blocked /\ ~l.saved
                /\ l.disp = k.disp /\ l.kept = k.kept
<1> DEFINE l == MarkAfter(call, k)
<1>1. CASE k.phase # "in"
  BY <1>1 DEF MarkAfter
<1>2. CASE k.phase = "in"
  <2>1. l = [k EXCEPT !.saved = FALSE]
    BY <1>2 DEF MarkAfter, SystemAfter
  <2> QED BY <1>2, <2>1 DEF MarkSet
<1> QED BY <1>1, <1>2

(* sigprocmask() to block signals and to restore the mask; a mask that was *)
(* never set.                                                              *)
LEMMA MaskInv ==
    ASSUME Disciplined, IInv, NEW p \in Procs, mask(p) PROVE IInv'
<1> DEFINE k == MarkAt(prog, p, ps[p].pc)
           call == CallAt(prog, p, ps[p].pc)
           l == MarkAfter(call, k)
<1>1. UNCHANGED Rest
  BY DEF mask
<1>2. ps[p] \in Process(prog) /\ k \in MarkSet(prog) /\ ps[p].pc + 1 \in Nat
  BY Here
<1>3. /\ ps[p].mask \in SUBSET Signals /\ ps[p].smask \in SUBSET Signals
      /\ \A s \in Signals : /\ MayHave(prog, s, ps[p].disp[s])
                            /\ MayHave(prog, s, ps[p].sdisp[s])
  BY <1>2, Here DEF Process, Local
<1>0. k = MarkAt(prog, p, ps[p].pc) /\ l = MarkAfter(call, k)
      /\ call = CallAt(prog, p, ps[p].pc)
  OBVIOUS
<1>5. CASE /\ Calls(p, "block")
           /\ ps' = [On(ps, p, 1) EXCEPT ![p].mask = @ \cup X(p),
                                         ![p].smask = ps[p].mask]
  <2> DEFINE a == ps[p].mask \cup X(p)
             b == ps[p].mask
             w == [ps[p] EXCEPT !.pc = ps[p].pc + 1, !.mask = a, !.smask = b]
  <2>1. /\ call.op = "block" /\ X(p) = call.x /\ X(p) \in SUBSET Signals
        /\ ps[p].st = "run" /\ Knows(ps[p], k)
    BY <1>5, AtCall, Here DEF X, CallOK, ArgsOK
  <2>2. ps' = [ps EXCEPT ![p] = w]
    BY <1>2, <1>5, Here DEF On, Process
  <2>3. a \in SUBSET Signals /\ b \in SUBSET Signals
    BY <1>3, <2>1
  <2> HIDE DEF a, b
  <2>4. /\ w \in Process(prog) /\ w.pc = ps[p].pc + 1
        /\ w.st = ps[p].st /\ w.ppid = ps[p].ppid
        /\ w.mask = a /\ w.smask = b /\ w.entry = ps[p].entry
        /\ w.disp = ps[p].disp /\ w.sdisp = ps[p].sdisp
    BY <2>3, <1>2 DEF Process
  <2> HIDE DEF w
  <2>5. /\ l.token = k.token /\ l.made = k.made /\ l.child = k.child
        /\ k.phase # "in" => l = k
        /\ k.phase = "in" =>
             /\ l.phase = "in" /\ l.blocked = k.blocked \cup call.x
             /\ l.saved => k.blocked = {}
             /\ l.disp = k.disp /\ l.kept = k.kept
    BY <2>1, <1>2, AfterBlock
  <2> HIDE DEF k, l, call
  <2>6. Knows(w, l)
    <3>1. CASE k.phase # "in"
      BY <3>1, <2>1, <2>4, <2>5, KnowsOut
    <3>2. CASE k.phase = "in"
      BY <3>2, <2>1, <2>4, <2>5 DEF Knows, a, b
    <3> QED BY <3>1, <3>2
  <2>7. Good(prog, ps', mem)
    <3>1. /\ w \in Process(prog) /\ w.pc = ps[p].pc + 1 /\ w.st = "run"
          /\ w.ppid = ps[p].ppid
          /\ \A s \in Signals : /\ MayHave(prog, s, w.disp[s])
                                /\ MayHave(prog, s, w.sdisp[s])
      BY <2>1, <2>4, <1>3
    <3>2. l.token = k.token /\ l.made = k.made /\ l.child \in {"", k.child}
      BY <2>5
    <3>3. Good(prog, [ps EXCEPT ![p] = w], mem)
      BY <3>1, <3>2, <2>6, <1>0, <1>5, MarkGood DEF Ending
    <3> QED BY <3>3, <2>2
  <2> QED BY <2>7, <1>1, TableOnly
<1>6. CASE /\ Calls(p, "restore_mask")
           /\ ps' = [On(ps, p, 1) EXCEPT ![p].mask = ps[p].smask]
  <2> DEFINE a == ps[p].smask
             b == ps[p].smask
             w == [ps[p] EXCEPT !.pc = ps[p].pc + 1, !.mask = a, !.smask = b]
  <2>1. /\ call.op = "restore_mask"
        /\ k.phase = "in" => k.saved
        /\ ps[p].st = "run" /\ Knows(ps[p], k)
    BY <1>6, AtCall, Here DEF CallOK, SystemOK
  <2>2. ps' = [ps EXCEPT ![p] = w]
    BY <1>2, <1>6, Here DEF On, Process
  <2>3. a \in SUBSET Signals /\ b \in SUBSET Signals
    BY <1>3
  <2> HIDE DEF a, b
  <2>4. /\ w \in Process(prog) /\ w.pc = ps[p].pc + 1
        /\ w.st = ps[p].st /\ w.ppid = ps[p].ppid
        /\ w.mask = a /\ w.smask = b /\ w.entry = ps[p].entry
        /\ w.disp = ps[p].disp /\ w.sdisp = ps[p].sdisp
    BY <2>3, <1>2 DEF Process
  <2> HIDE DEF w
  <2>5. /\ l.token = k.token /\ l.made = k.made /\ l.child = k.child
        /\ k.phase # "in" => l = k
        /\ k.phase = "in" =>
             /\ l.phase = "in" /\ l.blocked = {} /\ l.saved = k.saved
             /\ l.disp = k.disp /\ l.kept = k.kept
    BY <2>1, <1>2, AfterRestoreMask
  <2> HIDE DEF k, l, call
  <2>6. Knows(w, l)
    <3>1. CASE k.phase # "in"
      BY <3>1, <2>1, <2>4, <2>5, KnowsOut
    <3>2. CASE k.phase = "in"
      BY <3>2, <2>1, <2>4, <2>5 DEF Knows, a, b
    <3> QED BY <3>1, <3>2
  <2>7. Good(prog, ps', mem)
    <3>1. /\ w \in Process(prog) /\ w.pc = ps[p].pc + 1 /\ w.st = "run"
          /\ w.ppid = ps[p].ppid
          /\ \A s \in Signals : /\ MayHave(prog, s, w.disp[s])
                                /\ MayHave(prog, s, w.sdisp[s])
      BY <2>1, <2>4, <1>3
    <3>2. l.token = k.token /\ l.made = k.made /\ l.child \in {"", k.child}
      BY <2>5
    <3>3. Good(prog, [ps EXCEPT ![p] = w], mem)
      BY <3>1, <3>2, <2>6, <1>0, <1>6, MarkGood DEF Ending
    <3> QED BY <3>3, <2>2
  <2> QED BY <2>7, <1>1, TableOnly
<1>7. CASE /\ Calls(p, "uninitialized")
           /\ \E S \in SUBSET X(p) :
                ps' = [On(ps, p, 1) EXCEPT ![p].smask = S]
  <2>1. PICK b \in SUBSET X(p) : ps' = [On(ps, p, 1) EXCEPT ![p].smask = b]
    BY <1>7
  <2> DEFINE a == ps[p].mask
             w == [ps[p] EXCEPT !.pc = ps[p].pc + 1, !.mask = a, !.smask = b]
  <2>2. /\ call.op = "uninitialized" /\ X(p) \in SUBSET Signals
        /\ ps[p].st = "run" /\ Knows(ps[p], k)
    BY <1>7, AtCall, Here DEF X, CallOK, ArgsOK
  <2>3. ps' = [ps EXCEPT ![p] = w]
    BY <1>2, <2>1, Here DEF On, Process
  <2>4. a \in SUBSET Signals /\ b \in SUBSET Signals
    BY <1>3, <2>2
  <2> HIDE DEF a
  <2>5. /\ w \in Process(prog) /\ w.pc = ps[p].pc + 1
        /\ w.st = ps[p].st /\ w.ppid = ps[p].ppid
        /\ w.mask = a /\ w.smask = b /\ w.entry = ps[p].entry
        /\ w.disp = ps[p].disp /\ w.sdisp = ps[p].sdisp
    BY <2>4, <1>2 DEF Process
  <2> HIDE DEF w
  <2>6. /\ l.token = k.token /\ l.made = k.made /\ l.child = k.child
        /\ k.phase # "in" => l = k
        /\ k.phase = "in" =>
             /\ l.phase = "in" /\ l.blocked = k.blocked /\ ~l.saved
             /\ l.disp = k.disp /\ l.kept = k.kept
    BY <2>2, <1>2, AfterUninitialized
  <2> HIDE DEF k, l, call
  <2>7. Knows(w, l)
    <3>1. CASE k.phase # "in"
      BY <3>1, <2>2, <2>5, <2>6, KnowsOut
    <3>2. CASE k.phase = "in"
      BY <3>2, <2>2, <2>5, <2>6 DEF Knows, a
    <3> QED BY <3>1, <3>2
  <2>8. Good(prog, ps', mem)
    BY <2>2, <2>3, <2>5, <2>6, <2>7, <1>0, <1>3, <1>7, MarkGood DEF Ending
  <2> QED BY <2>8, <1>1, TableOnly
<1> QED BY <1>5, <1>6, <1>7 DEF mask

(* The mark after sigaction(): the disposition that it saves is the one of *)
(* the entry if the signal still had that one.                             *)
LEMMA AfterSigaction ==
    ASSUME NEW g, NEW k \in MarkSet(g), NEW call, call.op = "sigaction",
           call.x \in Signals
    PROVE  LET l == MarkAfter(call, k) IN
           /\ l.token = k.token /\ l.made = k.made /\ l.child = k.child
           /\ k.phase # "in" => l = k
           /\ k.phase = "in" =>
                /\ l.phase = "in" /\ l.blocked = k.blocked /\ l.saved = k.saved
                /\ \A s \in Signals \ {call.x} :
                     l.disp[s] = k.disp[s] /\ (s \in l.kept => s \in k.kept)
                /\ l.disp[call.x] = IF call.n = "ign" THEN "ign" ELSE "other"
                /\ call.x \in l.kept => k.disp[call.x] = "same"
<1> DEFINE l == MarkAfter(call, k)
<1>1. CASE k.phase # "in"
  BY <1>1 DEF MarkAfter
<1>2. CASE k.phase = "in"
  <2> DEFINE b == IF call.n = "ign" THEN "ign" ELSE "other"
             d == [k.disp EXCEPT ![call.x] = b]
             c == IF k.disp[call.x] = "same" THEN k.kept \cup {call.x}
                  ELSE k.kept \ {call.x}
  <2>1. l = [k EXCEPT !.disp = d, !.kept = c]
    BY <1>2 DEF MarkAfter, SystemAfter
  <2>2. /\ \A s \in Signals \ {call.x} : s \in c => s \in k.kept
        /\ call.x \in c => k.disp[call.x] = "same"
    OBVIOUS
  <2>3. k.disp \in [Signals -> {"same", "ign", "reset", "other"}]
    BY DEF MarkSet
  <2>4. d[call.x] = b /\ \A s \in Signals \ {call.x} : d[s] = k.disp[s]
    BY <2>3
  <2> HIDE DEF c, d
  <2>5. /\ l.token = k.token /\ l.made = k.made /\ l.child = k.child
        /\ l.phase = k.phase /\ l.blocked = k.blocked /\ l.saved = k.saved
        /\ l.disp = d /\ l.kept = c
    BY <2>1 DEF MarkSet
  <2> QED BY <1>2, <2>2, <2>4, <2>5
<1> QED BY <1>1, <1>2

(* The mark after the two calls that undo a sigaction(). *)
LEMMA AfterRestoreAction ==
    ASSUME NEW g, NEW k \in MarkSet(g), NEW call, call.x \in Signals,
           call.op \in {"restore_action", "default_unless_ignored"}
    PROVE  LET l == MarkAfter(call, k) IN
           /\ l.token = k.token /\ l.made = k.made /\ l.child = k.child
           /\ k.phase # "in" => l = k
           /\ k.phase = "in" =>
                /\ l.phase = "in" /\ l.blocked = k.blocked /\ l.saved = k.saved
                /\ \A s \in Signals \ {call.x} : l.disp[s] = k.disp[s]
                /\ l.kept = k.kept
                /\ call.op = "restore_action" =>
                     l.disp[call.x] = IF call.x \in k.kept THEN "same" ELSE "other"
                /\ call.op = "default_unless_ignored" =>
                     l.disp[call.x] = IF call.x \in k.kept /\ k.disp[call.x] = "ign"
                                      THEN "reset" ELSE "other"
<1> DEFINE l == MarkAfter(call, k)
<1>1. CASE k.phase # "in"
  BY <1>1 DEF MarkAfter
<1>2. CASE k.phase = "in"
  <2> DEFINE b == IF call.op = "restore_action"
                  THEN IF call.x \in k.kept THEN "same" ELSE "other"
                  ELSE IF call.x \in k.kept /\ k.disp[call.x] = "ign"
                       THEN "reset" ELSE "other"
             d == [k.disp EXCEPT ![call.x] = b]
  <2>1. l = [k EXCEPT !.disp = d]
    BY <1>2 DEF MarkAfter, SystemAfter
  <2>2. k.disp \in [Signals -> {"same", "ign", "reset", "other"}]
    BY DEF MarkSet
  <2>3. d[call.x] = b /\ \A s \in Signals \ {call.x} : d[s] = k.disp[s]
    BY <2>2
  <2> HIDE DEF d
  <2>4. /\ l.token = k.token /\ l.made = k.made /\ l.child = k.child
        /\ l.phase = k.phase /\ l.blocked = k.blocked /\ l.saved = k.saved
        /\ l.disp = d /\ l.kept = k.kept
    BY <2>1 DEF MarkSet
  <2> QED BY <1>2, <2>3, <2>4
<1> QED BY <1>1, <1>2

(* A new disposition of one signal; the rest of the process is as it was.  *)
LEMMA DispGood ==
    ASSUME Disciplined, IInv, NEW p \in Procs, NEW op, Calls(p, op),
           op \notin Ending, op # "jump", NEW k, NEW l,
           k = MarkAt(prog, p, ps[p].pc),
           l = MarkAfter(CallAt(prog, p, ps[p].pc), k),
           l.token = k.token, l.made = k.made, l.child = k.child,
           NEW x \in Signals, NEW w \in Process(prog), w.pc = ps[p].pc + 1,
           w.st = ps[p].st, w.ppid = ps[p].ppid, w.mask = ps[p].mask,
           w.smask = ps[p].smask, w.entry = ps[p].entry,
           \A s \in Signals \ {x} : /\ w.disp[s] = ps[p].disp[s]
                                    /\ w.sdisp[s] = ps[p].sdisp[s],
           MayHave(prog, x, w.disp[x]), MayHave(prog, x, w.sdisp[x]),
           k.phase # "in" => l = k,
           k.phase = "in" =>
             /\ l.phase = "in" /\ l.blocked = k.blocked /\ l.saved = k.saved
             /\ \A s \in Signals \ {x} :
                  l.disp[s] = k.disp[s] /\ (s \in l.kept => s \in k.kept)
             /\ Became(l.disp[x], w.disp[x], w.entry[2][x])
             /\ x \in l.kept => w.sdisp[x] = w.entry[2][x]
    PROVE  Good(prog, [ps EXCEPT ![p] = w], mem)
<1>1. ps[p].st = "run" /\ Knows(ps[p], k)
  BY AtCall, Here
<1>2. Knows(w, l)
  <2>1. CASE k.phase # "in"
    BY <2>1, <1>1, KnowsOut
  <2>2. CASE k.phase = "in"
    <3>1. ASSUME NEW s \in Signals
          PROVE  /\ Became(l.disp[s], w.disp[s], w.entry[2][s])
                 /\ s \in l.kept => w.sdisp[s] = w.entry[2][s]
      <4>1. CASE s = x
        BY <4>1, <2>2
      <4>2. CASE s # x
        BY <4>2, <2>2, <1>1 DEF Knows
      <4> QED BY <4>1, <4>2
    <3>2. /\ w.entry \in Entries /\ w.mask = w.entry[1] \cup l.blocked
          /\ l.saved => w.smask = w.entry[1]
      BY <2>2, <1>1 DEF Knows
    <3> QED BY <3>1, <3>2, <2>2 DEF Knows
  <2> QED BY <2>1, <2>2
<1>3. \A s \in Signals : /\ MayHave(prog, s, w.disp[s])
                         /\ MayHave(prog, s, w.sdisp[s])
  <2>1. \A s \in Signals : /\ MayHave(prog, s, ps[p].disp[s])
                           /\ MayHave(prog, s, ps[p].sdisp[s])
    BY Here DEF Local
  <2> QED BY <2>1
<1>4. w.st = "run"
  BY <1>1
<1> QED BY <1>2, <1>3, <1>4, MarkGood

(* sigaction(), the restoring of a disposition, and SIG_DFL unless the     *)
(* signal was ignored.                                                     *)
LEMMA SigactionInv ==
    ASSUME Disciplined, IInv, NEW p \in Procs, sigaction(p) PROVE IInv'
<1> DEFINE k == MarkAt(prog, p, ps[p].pc)
           call == CallAt(prog, p, ps[p].pc)
           l == MarkAfter(call, k)
           x == X(p)
<1>1. UNCHANGED Rest
  BY DEF sigaction
<1>2. PICK op \in {"sigaction", "restore_action", "default_unless_ignored"} :
             Calls(p, op)
  BY DEF sigaction
<1>3. /\ ps[p] \in Process(prog) /\ k \in MarkSet(prog) /\ ps[p].st = "run"
      /\ Knows(ps[p], k) /\ prog \in DOMAIN Code /\ p \in ProcsOf(prog)
      /\ ps \in [ProcsOf(prog) -> Process(prog)]
  BY <1>2, AtCall, Here
<1>4. /\ ps[p].disp \in Dispositions /\ ps[p].sdisp \in Dispositions
      /\ ps[p].pend \in SUBSET Signals
      /\ \A s \in Signals : /\ MayHave(prog, s, ps[p].disp[s])
                            /\ MayHave(prog, s, ps[p].sdisp[s])
  BY <1>3, Here DEF Process, Local
<1>5. call.op = op /\ call = NextCall(p) /\ x = call.x /\ x \in Signals
  <2>1. call.op = op /\ call = NextCall(p) /\ CallOK(prog, p, ps[p].pc)
    BY <1>2, AtCall, Here
  <2> QED BY <2>1 DEF X, CallOK, ArgsOK
<1>6. ps[p].disp[x] \in Handlings /\ ps[p].sdisp[x] \in Handlings
  BY <1>4, <1>5 DEF Dispositions
<1>7. /\ k = MarkAt(prog, p, ps[p].pc) /\ ps[p].pc + 1 \in Nat
      /\ l = MarkAfter(CallAt(prog, p, ps[p].pc), k)
      /\ op \notin Ending /\ op # "jump"
  BY Here DEF Ending
<1>8. CASE /\ Calls(p, "sigaction")
           /\ ps' = [On(ps, p, 1) EXCEPT
                       ![p].pend = IF N(p) = "ign" THEN @ \ {X(p)} ELSE @,
                       ![p].disp[X(p)] = N(p),
                       ![p].sdisp[X(p)] = ps[p].disp[X(p)]]
  <2> DEFINE a == IF N(p) = "ign" THEN ps[p].pend \ {x} ELSE ps[p].pend
             h == N(p)
             j == ps[p].disp[x]
             d == [ps[p].disp EXCEPT ![x] = h]
             e == [ps[p].sdisp EXCEPT ![x] = j]
             w == [ps[p] EXCEPT !.pc = ps[p].pc + 1, !.pend = a, !.disp = d,
                                !.sdisp = e]
  <2>1. call.op = "sigaction" /\ h = call.n
    BY <1>5, <1>8, AtCall, Here DEF N
  <2>2. h \in Handlings
    BY <2>1, <1>8, AtCall, Here DEF CallOK, ArgsOK
  <2>3. MayHave(prog, x, h)
    <3>1. ps[p].pc \in Reached(prog, p) /\ ps[p].pc <= Len(Code[prog][p])
      BY <1>2, AtCall, Here
    <3> QED BY <2>1, <3>1, <1>3, <1>5 DEF MayHave
  <2>4. a \in SUBSET Signals
    BY <1>4
  <2>5. ps' = [ps EXCEPT ![p] = w]
    BY <1>3, <1>8 DEF On, Process
  <2>6. /\ l.token = k.token /\ l.made = k.made /\ l.child = k.child
        /\ k.phase # "in" => l = k
        /\ k.phase = "in" =>
             /\ l.phase = "in" /\ l.blocked = k.blocked /\ l.saved = k.saved
             /\ \A s \in Signals \ {x} :
                  l.disp[s] = k.disp[s] /\ (s \in l.kept => s \in k.kept)
             /\ l.disp[x] = IF h = "ign" THEN "ign" ELSE "other"
             /\ x \in l.kept => k.disp[x] = "same"
    BY <2>1, <1>3, <1>5, AfterSigaction
  <2> HIDE DEF k, l, call, x, a, h
  <2>7. k.phase = "in" =>
          /\ Became(l.disp[x], h, ps[p].entry[2][x])
          /\ x \in l.kept => j = ps[p].entry[2][x]
    BY <2>6, <1>3, <1>5 DEF Knows, Became
  <2>8. j \in Handlings /\ MayHave(prog, x, j)
    BY <1>4, <1>5, <1>6
  <2> HIDE DEF j
  <2>9. /\ d \in Dispositions /\ e \in Dispositions /\ d[x] = h /\ e[x] = j
        /\ \A s \in Signals \ {x} : d[s] = ps[p].disp[s] /\ e[s] = ps[p].sdisp[s]
    BY <1>4, <1>5, <2>2, <2>8 DEF Dispositions
  <2> HIDE DEF d, e
  <2>10. /\ w \in Process(prog) /\ w.pc = ps[p].pc + 1 /\ w.st = ps[p].st
         /\ w.ppid = ps[p].ppid /\ w.mask = ps[p].mask /\ w.smask = ps[p].smask
         /\ w.disp = d /\ w.sdisp = e /\ w.entry = ps[p].entry
    BY <1>3, <1>7, <2>4, <2>9 DEF Process
  <2> HIDE DEF w
  <2>11. /\ MayHave(prog, x, w.disp[x]) /\ MayHave(prog, x, w.sdisp[x])
         /\ \A s \in Signals \ {x} : /\ w.disp[s] = ps[p].disp[s]
                                      /\ w.sdisp[s] = ps[p].sdisp[s]
    BY <2>2, <2>8, <2>3, <2>9, <2>10
  <2>12. k.phase = "in" =>
           /\ l.phase = "in" /\ l.blocked = k.blocked /\ l.saved = k.saved
           /\ \A s \in Signals \ {x} :
                l.disp[s] = k.disp[s] /\ (s \in l.kept => s \in k.kept)
           /\ Became(l.disp[x], w.disp[x], w.entry[2][x])
           /\ x \in l.kept => w.sdisp[x] = w.entry[2][x]
    BY <2>6, <2>7, <2>8, <2>9, <2>10
  <2>13. Good(prog, [ps EXCEPT ![p] = w], mem)
    <3>1. l.token = k.token /\ l.made = k.made /\ l.child = k.child
      BY <2>6
    <3>2. k.phase # "in" => l = k
      BY <2>6
    <3> QED BY <3>1, <3>2, <2>10, <2>11, <2>12, <1>2, <1>5, <1>7, DispGood
  <2> QED BY <2>5, <2>13, <1>1, TableOnly
<1>9. CASE /\ Calls(p, "restore_action")
           /\ ps' = [On(ps, p, 1) EXCEPT ![p].disp[X(p)] = ps[p].sdisp[X(p)]]
  <2> DEFINE a == ps[p].pend
             h == ps[p].sdisp[x]
             j == ps[p].sdisp[x]
             d == [ps[p].disp EXCEPT ![x] = h]
             e == [ps[p].sdisp EXCEPT ![x] = j]
             w == [ps[p] EXCEPT !.pc = ps[p].pc + 1, !.pend = a, !.disp = d,
                                !.sdisp = e]
  <2>1. call.op = "restore_action"
    BY <1>9, AtCall, Here
  <2>2. h \in Handlings /\ MayHave(prog, x, h)
    BY <1>4, <1>5, <1>6
  <2>3. a \in SUBSET Signals
    BY <1>4
  <2>4. e = ps[p].sdisp
    BY <1>4, <1>5 DEF Dispositions
  <2>5. ps' = [ps EXCEPT ![p] = w]
    BY <1>3, <1>9, <2>4 DEF On, Process
  <2>6. /\ l.token = k.token /\ l.made = k.made /\ l.child = k.child
        /\ k.phase # "in" => l = k
        /\ k.phase = "in" =>
             /\ l.phase = "in" /\ l.blocked = k.blocked /\ l.saved = k.saved
             /\ \A s \in Signals \ {x} : l.disp[s] = k.disp[s]
             /\ l.kept = k.kept
             /\ l.disp[x] = IF x \in k.kept THEN "same" ELSE "other"
    BY <2>1, <1>3, <1>5, AfterRestoreAction
  <2> HIDE DEF k, l, call, x
  <2>7. k.phase = "in" =>
          /\ Became(l.disp[x], h, ps[p].entry[2][x])
          /\ x \in l.kept => h = ps[p].entry[2][x]
    BY <2>6, <1>3, <1>5 DEF Knows, Became
  <2>8. j = h
    OBVIOUS
  <2> HIDE DEF a, h, j
  <2>9. /\ d \in Dispositions /\ e \in Dispositions /\ d[x] = h /\ e[x] = j
        /\ \A s \in Signals \ {x} : d[s] = ps[p].disp[s] /\ e[s] = ps[p].sdisp[s]
    BY <1>4, <1>5, <2>2, <2>8 DEF Dispositions
  <2> HIDE DEF d, e
  <2>10. /\ w \in Process(prog) /\ w.pc = ps[p].pc + 1 /\ w.st = ps[p].st
         /\ w.ppid = ps[p].ppid /\ w.mask = ps[p].mask /\ w.smask = ps[p].smask
         /\ w.disp = d /\ w.sdisp = e /\ w.entry = ps[p].entry
    BY <1>3, <1>7, <2>3, <2>9 DEF Process
  <2> HIDE DEF w
  <2>11. /\ MayHave(prog, x, w.disp[x]) /\ MayHave(prog, x, w.sdisp[x])
         /\ \A s \in Signals \ {x} : /\ w.disp[s] = ps[p].disp[s]
                                      /\ w.sdisp[s] = ps[p].sdisp[s]
    BY <2>2, <2>8, <2>9, <2>10
  <2>12. k.phase = "in" =>
           /\ l.phase = "in" /\ l.blocked = k.blocked /\ l.saved = k.saved
           /\ \A s \in Signals \ {x} :
                l.disp[s] = k.disp[s] /\ (s \in l.kept => s \in k.kept)
           /\ Became(l.disp[x], w.disp[x], w.entry[2][x])
           /\ x \in l.kept => w.sdisp[x] = w.entry[2][x]
    BY <2>6, <2>7, <2>8, <2>9, <2>10
  <2>13. Good(prog, [ps EXCEPT ![p] = w], mem)
    <3>1. l.token = k.token /\ l.made = k.made /\ l.child = k.child
      BY <2>6
    <3>2. k.phase # "in" => l = k
      BY <2>6
    <3> QED BY <3>1, <3>2, <2>10, <2>11, <2>12, <1>2, <1>5, <1>7, DispGood
  <2> QED BY <2>5, <2>13, <1>1, TableOnly
<1>10. CASE /\ Calls(p, "default_unless_ignored")
            /\ ps' = [On(ps, p, 1) EXCEPT
                        ![p].disp[X(p)] = IF ps[p].sdisp[X(p)] # "ign"
                                          THEN "dfl" ELSE @]
  <2> DEFINE a == ps[p].pend
             h == IF ps[p].sdisp[x] # "ign" THEN "dfl" ELSE ps[p].disp[x]
             j == ps[p].sdisp[x]
             d == [ps[p].disp EXCEPT ![x] = h]
             e == [ps[p].sdisp EXCEPT ![x] = j]
             w == [ps[p] EXCEPT !.pc = ps[p].pc + 1, !.pend = a, !.disp = d,
                                !.sdisp = e]
  <2>1. call.op = "default_unless_ignored"
    BY <1>10, AtCall, Here
  <2>2. h \in Handlings /\ MayHave(prog, x, h)
    BY <1>4, <1>5, <1>6 DEF Handlings, MayHave
  <2>3. a \in SUBSET Signals
    BY <1>4
  <2>4. e = ps[p].sdisp
    BY <1>4, <1>5 DEF Dispositions
  <2>5. ps' = [ps EXCEPT ![p] = w]
    BY <1>3, <1>10, <2>4 DEF On, Process
  <2>6. /\ l.token = k.token /\ l.made = k.made /\ l.child = k.child
        /\ k.phase # "in" => l = k
        /\ k.phase = "in" =>
             /\ l.phase = "in" /\ l.blocked = k.blocked /\ l.saved = k.saved
             /\ \A s \in Signals \ {x} : l.disp[s] = k.disp[s]
             /\ l.kept = k.kept
             /\ l.disp[x] = IF x \in k.kept /\ k.disp[x] = "ign"
                            THEN "reset" ELSE "other"
    BY <2>1, <1>3, <1>5, AfterRestoreAction
  <2> HIDE DEF k, l, call, x
  <2>7. k.phase = "in" =>
          /\ Became(l.disp[x], h, ps[p].entry[2][x])
          /\ x \in l.kept => j = ps[p].entry[2][x]
    BY <2>6, <1>3, <1>5 DEF Knows, Became
  <2>8. j \in Handlings /\ MayHave(prog, x, j)
    BY <1>4, <1>5, <1>6
  <2> HIDE DEF a, h, j
  <2>9. /\ d \in Dispositions /\ e \in Dispositions /\ d[x] = h /\ e[x] = j
        /\ \A s \in Signals \ {x} : d[s] = ps[p].disp[s] /\ e[s] = ps[p].sdisp[s]
    BY <1>4, <1>5, <2>2, <2>8 DEF Dispositions
  <2> HIDE DEF d, e
  <2>10. /\ w \in Process(prog) /\ w.pc = ps[p].pc + 1 /\ w.st = ps[p].st
         /\ w.ppid = ps[p].ppid /\ w.mask = ps[p].mask /\ w.smask = ps[p].smask
         /\ w.disp = d /\ w.sdisp = e /\ w.entry = ps[p].entry
    BY <1>3, <1>7, <2>3, <2>9 DEF Process
  <2> HIDE DEF w
  <2>11. /\ MayHave(prog, x, w.disp[x]) /\ MayHave(prog, x, w.sdisp[x])
         /\ \A s \in Signals \ {x} : /\ w.disp[s] = ps[p].disp[s]
                                      /\ w.sdisp[s] = ps[p].sdisp[s]
    BY <2>2, <2>8, <2>9, <2>10
  <2>12. k.phase = "in" =>
           /\ l.phase = "in" /\ l.blocked = k.blocked /\ l.saved = k.saved
           /\ \A s \in Signals \ {x} :
                l.disp[s] = k.disp[s] /\ (s \in l.kept => s \in k.kept)
           /\ Became(l.disp[x], w.disp[x], w.entry[2][x])
           /\ x \in l.kept => w.sdisp[x] = w.entry[2][x]
    BY <2>6, <2>7, <2>8, <2>9, <2>10
  <2>13. Good(prog, [ps EXCEPT ![p] = w], mem)
    <3>1. l.token = k.token /\ l.made = k.made /\ l.child = k.child
      BY <2>6
    <3>2. k.phase # "in" => l = k
      BY <2>6
    <3> QED BY <3>1, <3>2, <2>10, <2>11, <2>12, <1>2, <1>5, <1>7, DispGood
  <2> QED BY <2>5, <2>13, <1>1, TableOnly
<1> QED BY <1>8, <1>9, <1>10 DEF sigaction

(* exec: the mask and the ignored signals stay; what is known of system()  *)
(* does not.                                                               *)
LEMMA ExecInv ==
    ASSUME Disciplined, IInv, NEW p \in Procs, exec(p) PROVE IInv'
<1> DEFINE k == MarkAt(prog, p, ps[p].pc)
           l == MarkAfter(CallAt(prog, p, ps[p].pc), k)
           d == [s \in Signals |-> IF ps[p].disp[s] = "ign" THEN "ign" ELSE "dfl"]
           w == [ps[p] EXCEPT !.pc = ps[p].pc + 1, !.execed = TRUE, !.disp = d]
<1>1. Calls(p, "exec") /\ mem' = mem /\ UNCHANGED <<program, pipes, queues, tty>>
  BY DEF exec
<1>2. PICK op : op = "exec" /\ Calls(p, op) /\ op \notin Ending /\ op # "jump"
  BY <1>1 DEF Ending
<1>3. /\ ps[p] \in Process(prog) /\ k \in MarkSet(prog) /\ ps[p].pc + 1 \in Nat
      /\ ps[p].st = "run" /\ Knows(ps[p], k) /\ p \in ProcsOf(prog)
      /\ ps \in [ProcsOf(prog) -> Process(prog)]
      /\ CallAt(prog, p, ps[p].pc).op = "exec"
  BY <1>1, AtCall, Here
<1>4. ps[p].sdisp \in Dispositions
      /\ \A s \in Signals : MayHave(prog, s, ps[p].sdisp[s])
  BY <1>3, Here DEF Process, Local
<1>5. /\ d \in Dispositions /\ \A s \in Signals : MayHave(prog, s, d[s])
  BY DEF Dispositions, Handlings, MayHave
<1>6. \/ ps' = [ps EXCEPT ![p] = w] /\ faults' = faults
      \/ /\ ps' = Fails(ps, p) /\ faults < MaxFaults /\ faults' = faults + 1
  <2>1. CASE /\ ps' = [On(ps, p, 1) EXCEPT ![p].execed = TRUE,
                         ![p].disp = [s \in Signals |->
                                        IF @[s] = "ign" THEN "ign" ELSE "dfl"]]
             /\ UNCHANGED faults
    <3>1. On(ps, p, 1)[p].disp = ps[p].disp
      BY <1>3 DEF On, Process
    <3>2. ps' = [On(ps, p, 1) EXCEPT ![p].execed = TRUE, ![p].disp = d]
      BY <2>1, <3>1
    <3> HIDE DEF d
    <3>3. ps' = [ps EXCEPT ![p] = w]
      BY <3>2, <1>3 DEF On, Process
    <3> QED BY <2>1, <3>3
  <2> QED BY <2>1 DEF exec
<1>7. Good(prog, Fails(ps, p), mem)
  BY <1>1, CallFails DEF Ending
<1>8. Good(prog, [ps EXCEPT ![p] = w], mem)
  <2> HIDE DEF d
  <2>1. /\ w \in Process(prog) /\ w.pc = ps[p].pc + 1 /\ w.st = "run"
        /\ w.ppid = ps[p].ppid /\ w.disp = d /\ w.sdisp = ps[p].sdisp
        /\ w.entry = ps[p].entry
    BY <1>3, <1>5 DEF Process
  <2>2. IF k.phase = "in" THEN l = Forget(k) ELSE l = k
    BY <1>3 DEF MarkAfter, SystemAfter
  <2>3. l.token = k.token /\ l.made = k.made /\ l.child \in {"", k.child}
    BY <2>2, ForgetMark
  <2>4. k = MarkAt(prog, p, ps[p].pc)
        /\ l = MarkAfter(CallAt(prog, p, ps[p].pc), k)
    OBVIOUS
  <2> HIDE DEF w, k, l
  <2>5. Knows(w, l)
    BY <2>1, <2>2, <1>3, KnowsForget, KnowsOut
  <2>6. \A s \in Signals : /\ MayHave(prog, s, w.disp[s])
                           /\ MayHave(prog, s, w.sdisp[s])
    BY <2>1, <1>4, <1>5
  <2> QED BY <2>1, <2>3, <2>4, <2>5, <2>6, <1>2, MarkGood
<1> HIDE DEF w
<1>9. Good(prog, ps', mem')
  BY <1>1, <1>6, <1>7, <1>8
<1>10. faults' \in 0..MaxFaults
  BY <1>6, ProcessAssumption DEF IInv
<1> QED BY <1>1, <1>9, <1>10, Together DEF IInv

(* The entry of system(), its end and the other points of the properties.  *)
LEMMA PassInv ==
    ASSUME Disciplined, IInv, NEW p \in Procs, pass(p) PROVE IInv'
<1> DEFINE k == MarkAt(prog, p, ps[p].pc)
           l == MarkAfter(CallAt(prog, p, ps[p].pc), k)
<1>1. UNCHANGED Rest
  BY DEF pass
<1>2. CASE \E op \in {"claim", "daemon"} : Calls(p, op) /\ ps' = On(ps, p, 1)
  <2>1. PICK op \in {"claim", "daemon"} : Calls(p, op) /\ ps' = On(ps, p, 1)
    BY <1>2
  <2>2. Good(prog, ps', mem)
    BY <2>1, PlainGood DEF Ending, Marking
  <2> QED BY <2>2, <1>1, TableOnly
<1>3. CASE Calls(p, "leave") /\ ps' = On(ps, p, 1)
  <2>1. CallAt(prog, p, ps[p].pc).op = "leave" /\ k.phase = "in"
    <3>1. /\ CallAt(prog, p, ps[p].pc).op = "leave"
          /\ CallOK(prog, p, ps[p].pc)
      BY <1>3, AtCall
    <3>2. SystemOK(CallAt(prog, p, ps[p].pc), k)
      BY <3>1 DEF CallOK
    <3> QED BY <3>1, <3>2 DEF SystemOK, LeaveOK
  <2>2. l = Forget(k)
    BY <2>1 DEF MarkAfter, SystemAfter
  <2>3. /\ ps[p].pc + 1 \in Reached(prog, p)
        /\ MarkAt(prog, p, ps[p].pc + 1) \in {l, Forget(l)}
    BY <1>3, <2>1, AtCall, Here, NextPlace DEF Ending
  <2>4. MarkAt(prog, p, ps[p].pc + 1) = Forget(k)
    BY <2>2, <2>3, ForgetTwice
  <2>5. Good(prog, ps', mem)
    BY <1>3, <2>3, <2>4, AtCall, OnGood
  <2> QED BY <2>5, <1>1, TableOnly
<1>4. CASE /\ Calls(p, "enter")
           /\ ps' = [On(ps, p, 1) EXCEPT ![p].entry = <<ps[p].mask, ps[p].disp>>]
  <2> DEFINE e == <<ps[p].mask, ps[p].disp>>
             w == [ps[p] EXCEPT !.pc = ps[p].pc + 1, !.entry = e]
  <2>1. PICK op : op = "enter" /\ Calls(p, op) /\ op \notin Ending /\ op # "jump"
    BY <1>4 DEF Ending
  <2>2. /\ ps[p] \in Process(prog) /\ k \in MarkSet(prog)
        /\ ps[p].pc + 1 \in Nat /\ ps[p].st = "run" /\ p \in ProcsOf(prog)
        /\ ps \in [ProcsOf(prog) -> Process(prog)]
        /\ CallAt(prog, p, ps[p].pc).op = "enter"
    BY <1>4, AtCall, Here
  <2>3. ps[p].mask \in SUBSET Signals /\ ps[p].disp \in Dispositions
    BY <2>2 DEF Process
  <2>4. e \in Entries /\ e[1] = ps[p].mask /\ e[2] = ps[p].disp
    BY <2>3 DEF Entries
  <2>5. \A s \in Signals : /\ MayHave(prog, s, ps[p].disp[s])
                           /\ MayHave(prog, s, ps[p].sdisp[s])
    BY Here DEF Local
  <2>6. ps' = [ps EXCEPT ![p] = w]
    BY <1>4, <2>2 DEF On, Process
  <2> HIDE DEF e
  <2>7. /\ w \in Process(prog) /\ w.pc = ps[p].pc + 1 /\ w.st = "run"
        /\ w.ppid = ps[p].ppid /\ w.disp = ps[p].disp
        /\ w.sdisp = ps[p].sdisp /\ w.mask = ps[p].mask /\ w.entry = e
    BY <2>2, <2>4 DEF Process
  <2>8. l = Entered(k)
    BY <2>2 DEF MarkAfter
  <2>9. /\ l.phase = "in" /\ l.blocked = {} /\ ~l.saved /\ l.disp = Same
        /\ l.kept = {} /\ l.child = "" /\ l.token = k.token /\ l.made = k.made
    BY <2>8 DEF Entered, Fresh
  <2>10. k = MarkAt(prog, p, ps[p].pc)
         /\ l = MarkAfter(CallAt(prog, p, ps[p].pc), k)
    OBVIOUS
  <2> HIDE DEF w, k, l
  <2>11. Knows(w, l)
    BY <2>4, <2>7, <2>9 DEF Knows, Same, Became
  <2>12. \A s \in Signals : /\ MayHave(prog, s, w.disp[s])
                            /\ MayHave(prog, s, w.sdisp[s])
    BY <2>5, <2>7
  <2>13. l.child \in {"", k.child}
    BY <2>9
  <2>14. Good(prog, [ps EXCEPT ![p] = w], mem)
    BY <2>1, <2>7, <2>9, <2>10, <2>11, <2>12, <2>13, MarkGood
  <2> QED BY <2>6, <2>14, <1>1, TableOnly
<1> QED BY <1>2, <1>3, <1>4 DEF pass, Points

(* No call of system() waits for a signal, the user or an answer. *)
LEMMA WaitsOut ==
    ASSUME Disciplined, IInv, NEW p \in Procs, ps[p].pc <= Len(Code[prog][p]),
           NextCall(p).op \in Waits
    PROVE  MarkAt(prog, p, ps[p].pc).phase # "in"
  BY Here DEF CallOK, SystemOK

(* pause(), sigsuspend(), the input of the user, a call with a filter. *)
LEMMA BlockInv ==
    ASSUME Disciplined, IInv, NEW p \in Procs, block(p) PROVE IInv'
<1> DEFINE k == MarkAt(prog, p, ps[p].pc)
           a == IF NextCall(p).op # "sigsuspend" THEN ps[p].mask
                ELSE IF X(p) = "saved" THEN ps[p].smask ELSE {}
           w == [ps[p] EXCEPT !.st = "block", !.bmask = ps[p].mask, !.mask = a]
<1>1. PICK op \in Waits : Calls(p, op)
  BY DEF block, Blocking, Waits
<1>2. /\ UNCHANGED Rest
      /\ ps' = [ps EXCEPT ![p].st = "block", ![p].bmask = ps[p].mask,
                  ![p].mask = IF NextCall(p).op # "sigsuspend" THEN @
                              ELSE IF X(p) = "saved" THEN ps[p].smask ELSE {}]
  BY DEF block
<1>3. /\ ps[p] \in Process(prog) /\ ps[p].st = "run" /\ p \in ProcsOf(prog)
      /\ ps \in [ProcsOf(prog) -> Process(prog)] /\ NextCall(p).op \in Waits
      /\ CallAt(prog, p, ps[p].pc).op \in Waits /\ ps[p].st \in Live
      /\ ps[p].pc <= Len(Code[prog][p]) /\ Local(prog, p, ps[p])
  BY <1>1, AtCall, Here
<1>4. ps[p].mask \in SUBSET Signals /\ ps[p].smask \in SUBSET Signals
  BY <1>3 DEF Process
<1>5. ps' = [ps EXCEPT ![p] = w]
  BY <1>2, <1>3
<1>6. a \in SUBSET Signals
  BY <1>4
<1> HIDE DEF a
<1>7. /\ w \in Process(prog) /\ w.pc = ps[p].pc /\ w.st = "block"
      /\ w.ppid = ps[p].ppid /\ w.disp = ps[p].disp /\ w.sdisp = ps[p].sdisp
      /\ w.entry = ps[p].entry
  BY <1>3, <1>4, <1>6 DEF Process, Live
<1> HIDE DEF w
<1>8. Knows(w, k)
  BY <1>3, <1>7, Here, WaitsOut, KnowsOut
<1>9. Local(prog, p, w)
  BY <1>3, <1>7, <1>8 DEF Local
<1>10. w.st \in Live
  BY <1>7 DEF Live
<1>11. MarkAt(prog, p, w.pc) = k
  BY <1>7
<1>12. Good(prog, [ps EXCEPT ![p] = w], mem)
  BY <1>3, <1>7, <1>9, <1>10, <1>11, Here, StepGood
<1> QED BY <1>2, <1>5, <1>12, TableOnly

(* The return from such a call. *)
LEMMA BackGood ==
    ASSUME Disciplined, IInv, NEW p \in Procs, ps[p].st \in {"block", "eintr"}
    PROVE  Good(prog, Back(p), mem)
<1> DEFINE k == MarkAt(prog, p, ps[p].pc)
           l == MarkAt(prog, p, ps[p].pc + 1)
           w == [ps[p] EXCEPT !.st = "run", !.pc = ps[p].pc + 1,
                              !.mask = ps[p].bmask]
<1>1. /\ ps[p] \in Process(prog) /\ p \in ProcsOf(prog)
      /\ ps \in [ProcsOf(prog) -> Process(prog)] /\ ps[p].pc + 1 \in Nat
      /\ ps[p].st \in Live /\ Local(prog, p, ps[p])
      /\ ps[p].pc \in Reached(prog, p)
  BY Here DEF Live
<1>2. /\ NextCall(p).op \in Waits /\ CallAt(prog, p, ps[p].pc).op \in Waits
      /\ ps[p].pc <= Len(Code[prog][p])
  BY <1>1, Here DEF Local
<1>3. /\ ps[p].pc + 1 \in Reached(prog, p) /\ l \in {k, Forget(k)}
  BY <1>1, <1>2, Here, PlainPlace DEF Waits, Ending, Marking
<1>4. Back(p) = [ps EXCEPT ![p] = w]
  BY <1>1 DEF Back
<1>5. ps[p].bmask \in SUBSET Signals
  BY <1>1 DEF Process
<1>6. /\ w \in Process(prog) /\ w.pc = ps[p].pc + 1 /\ w.st = "run"
      /\ w.ppid = ps[p].ppid /\ w.disp = ps[p].disp /\ w.sdisp = ps[p].sdisp
      /\ w.entry = ps[p].entry
  BY <1>1, <1>5 DEF Process, Live
<1> HIDE DEF w
<1>7. Knows(w, l)
  <2>1. Knows(ps[p], k) /\ k.phase # "in"
    BY <1>1, <1>2, Here, WaitsOut
  <2>2. Knows(w, k)
    BY <2>1, <1>6, KnowsOut
  <2> QED BY <2>2, <1>3, KnowsForget
<1>8. Local(prog, p, w)
  BY <1>1, <1>3, <1>6, <1>7 DEF Local
<1>9. /\ w.st \in Live /\ MarkAt(prog, p, w.pc) = l
      /\ l.child \in {"", k.child} /\ l.token = k.token /\ l.made = k.made
  BY <1>3, <1>6, ForgetMark DEF Live
<1>10. Good(prog, [ps EXCEPT ![p] = w], mem)
  BY <1>1, <1>6, <1>8, <1>9, Here, StepGood
<1> QED BY <1>4, <1>10

(* It runs, but its call fails. *)
LEMMA RunFails ==
    ASSUME Disciplined, IInv, NEW p \in Procs, ps[p].st \in Live,
           ps[p].pc <= Len(Code[prog][p]), NextCall(p).op = "notify"
    PROVE  Good(prog, Fails([ps EXCEPT ![p].st = "run"], p), mem)
<1> DEFINE w == [ps[p] EXCEPT !.st = "run"]
           T == [ps EXCEPT ![p] = w]
<1>1. ps[p] \in Process(prog) /\ ps \in [ProcsOf(prog) -> Process(prog)]
      /\ p \in ProcsOf(prog)
  BY Here
<1>2. w \in Process(prog) /\ Alike(w, ps[p]) /\ w.pc = ps[p].pc /\ w.st = "run"
  BY <1>1 DEF Process, Alike, Live
<1>3. [ps EXCEPT ![p].st = "run"] = T
  OBVIOUS
<1> HIDE DEF w
<1>4. Good(prog, T, mem) /\ T[p] = w
  BY <1>1, <1>2, Here, ChangeOne
<1> HIDE DEF T
<1>5. T[p].pc = ps[p].pc /\ T[p].st = "run"
  BY <1>2, <1>4
<1>6. Good(prog, Fails(T, p), mem)
  BY <1>4, <1>5, FailsGood DEF Ending
<1> QED BY <1>3, <1>6

(* A signal handler has interrupted the call. *)
LEMMA InterruptedInv ==
    ASSUME Disciplined, IInv, NEW p \in Procs, Interrupted(p) PROVE IInv'
<1>1. /\ UNCHANGED Rest /\ ps[p].st = "eintr"
      /\ ps' = IF NextCall(p).op = "notify"
               THEN Fails([ps EXCEPT ![p].st = "run"], p) ELSE Back(p)
  BY DEF Interrupted
<1>2. ps[p].st \in Live /\ ps[p].pc <= Len(Code[prog][p])
  BY <1>1, Here DEF Live, Local
<1>3. Good(prog, ps', mem)
  BY <1>1, <1>2, BackGood, RunFails
<1> QED BY <1>1, <1>3, TableOnly

(* The user types what the call waits for. *)
LEMMA UserTypesInv ==
    ASSUME Disciplined, IInv, NEW p \in Procs, UserTypes(p) PROVE IInv'
<1>1. UNCHANGED Rest /\ ps[p].st = "block" /\ ps' = Back(p)
  BY DEF UserTypes
<1>2. Good(prog, ps', mem)
  BY <1>1, BackGood
<1> QED BY <1>1, <1>2, TableOnly

-----------------------------------------------------------------------------
(* Steps that change several processes.                                    *)

(* Some processes go on, each as its marks say. *)
GoesOn(g, q, v, w) ==
    /\ w.st \in Live /\ v.st \in Live /\ v.ppid = w.ppid /\ Local(g, q, v)
    /\ LET k == MarkAt(g, q, w.pc)
           l == MarkAt(g, q, v.pc)
       IN  l.child \in {"", k.child} /\ l.token = k.token /\ l.made = k.made

(* They keep what is good of the table. *)
LEMMA ManyGood ==
    ASSUME Disciplined, NEW g \in DOMAIN Code, NEW T, NEW U, NEW m,
           Good(g, T, m), U \in [ProcsOf(g) -> Process(g)],
           \A q \in ProcsOf(g) : U[q] = T[q] \/ GoesOn(g, q, U[q], T[q])
    PROVE  Good(g, U, m)
<1>1. /\ T \in [ProcsOf(g) -> Process(g)]
      /\ \A q \in ProcsOf(g) : Local(g, q, T[q]) /\ Tracks(g, T, q)
      /\ TokenInv(g, T, m)
  BY DEF Good, TableInv
<1>2. \A q \in ProcsOf(g) :
        LET k == MarkAt(g, q, T[q].pc)
            l == MarkAt(g, q, U[q].pc)
        IN  /\ Local(g, q, U[q]) /\ U[q].ppid = T[q].ppid
            /\ U[q].st = T[q].st \/ (U[q].st \in Live /\ T[q].st \in Live)
            /\ l.child \in {"", k.child} /\ l.token = k.token /\ l.made = k.made
  BY <1>1 DEF GoesOn
<1>3. ASSUME NEW q \in ProcsOf(g) PROVE Tracks(g, U, q)
  <2> DEFINE c == MarkAt(g, q, U[q].pc).child
  <2> SUFFICES ASSUME U[q].st \in Live, c # ""
               PROVE  U[c].ppid = q /\ U[c].st \in Live \cup {"zombie"}
    BY DEF Tracks
  <2>1. c = MarkAt(g, q, T[q].pc).child /\ T[q].st \in Live
    BY <1>2
  <2>2. T[c].ppid = q /\ T[c].st \in Live \cup {"zombie"}
    BY <2>1, <1>1 DEF Tracks
  <2>3. c \in ProcsOf(g)
    <3>1. MarkAt(g, q, T[q].pc) \in MarkSet(g)
      BY <1>1, ProcRules DEF Local
    <3> QED BY <3>1, <2>1 DEF MarkSet
  <2> HIDE DEF c
  <2>4. /\ U[c].ppid = T[c].ppid
        /\ U[c].st = T[c].st \/ (U[c].st \in Live /\ T[c].st \in Live)
    BY <2>3, <1>2
  <2> QED BY <2>2, <2>4
<1>4. \A q \in ProcsOf(g) : /\ HasToken(g, U, q) <=> HasToken(g, T, q)
                            /\ HasMade(g, U, q) <=> HasMade(g, T, q)
  BY <1>2 DEF HasToken, HasMade
<1>5. TokenInv(g, U, m)
  BY <1>1, <1>4 DEF TokenInv
<1> QED BY <1>2, <1>3, <1>5 DEF Good, TableInv

(* v is what becomes of the zombie w. *)
Reaped(v, w) == /\ w.st = "zombie" /\ v.st = "reaped" /\ v.pc = w.pc
                /\ v.disp = w.disp /\ v.sdisp = w.sdisp

(* Zombies are reaped by their parent p, which has no child of system() to *)
(* wait for.                                                               *)
LEMMA ReapGood ==
    ASSUME Disciplined, NEW g \in DOMAIN Code, NEW T, NEW U, NEW m,
           Good(g, T, m), NEW p \in ProcsOf(g),
           T[p].st \in Live, MarkAt(g, p, T[p].pc).child = "",
           U \in [ProcsOf(g) -> Process(g)],
           \A q \in ProcsOf(g) :
             U[q] = T[q] \/ (T[q].ppid = p /\ Reaped(U[q], T[q]))
    PROVE  Good(g, U, m)
<1>1. /\ T \in [ProcsOf(g) -> Process(g)]
      /\ \A q \in ProcsOf(g) : Local(g, q, T[q]) /\ Tracks(g, T, q)
      /\ TokenInv(g, T, m)
  BY DEF Good, TableInv
<1>2. ASSUME NEW q \in ProcsOf(g)
      PROVE  /\ U[q].pc = T[q].pc /\ Local(g, q, U[q])
             /\ U[q] = T[q] \/ (T[q].ppid = p /\ U[q].st = "reaped")
  <2>1. CASE U[q] = T[q]
    BY <2>1, <1>1
  <2>2. CASE T[q].ppid = p /\ Reaped(U[q], T[q])
    <3>1. Local(g, q, T[q]) /\ U[q] \in Process(g)
      BY <1>1
    <3> QED BY <2>2, <3>1 DEF Local, Live, Reaped
  <2> QED BY <2>1, <2>2
<1>4. ASSUME NEW q \in ProcsOf(g) PROVE Tracks(g, U, q)
  <2> DEFINE c == MarkAt(g, q, U[q].pc).child
  <2> SUFFICES ASSUME U[q].st \in Live, c # ""
               PROVE  U[c].ppid = q /\ U[c].st \in Live \cup {"zombie"}
    BY DEF Tracks
  <2>1. U[q] = T[q]
    BY <1>2 DEF Live
  <2>2. q # p
    BY <2>1
  <2>3. T[c].ppid = q /\ T[c].st \in Live \cup {"zombie"}
    BY <2>1, <1>1 DEF Tracks
  <2>4. c \in ProcsOf(g)
    <3>1. MarkAt(g, q, T[q].pc) \in MarkSet(g)
      BY <1>1, ProcRules DEF Local
    <3> QED BY <3>1, <2>1 DEF MarkSet
  <2>5. U[c] = T[c]
    BY <2>2, <2>3, <2>4, <1>2
  <2> QED BY <2>3, <2>5
<1>5. TokenInv(g, U, m)
  <2>1. \A q \in ProcsOf(g) : U[q].pc = T[q].pc
    BY <1>2
  <2> QED BY <1>1, <2>1, TokenSame
<1> QED BY <1>2, <1>4, <1>5 DEF Good, TableInv

(* Seccomp user notification: an answer lets everybody go on who waits at  *)
(* the place of the notification.                                          *)
LEMMA NotificationInv ==
    ASSUME Disciplined, IInv, NEW p \in Procs, notification(p) PROVE IInv'
<1> DEFINE V == On(ps, p, 1)
           current == Notifying(mem["req"])
<1>1. /\ UNCHANGED <<program, pipes, queues, tty, faults>>
      /\ mem \in [Vars -> Int]
  BY DEF notification, IInv
<1>2. SUFFICES Good(prog, ps', mem') /\ mem' \in [Vars -> Int]
  BY <1>1, Together DEF IInv
<1>3. ASSUME NEW op \in {"listen", "notif_recv", "notif_id_valid", "notif_send"},
             Calls(p, op)
      PROVE  Good(prog, V, mem) /\ Good(prog, Fails(ps, p), mem)
  BY <1>3, PlainGood, CallFails DEF Ending, Marking
<1>4. CASE /\ Calls(p, "listen") /\ mem' = mem
           /\ ps' = [V EXCEPT ![p].fds = V[p].fds \cup {<<"notify", "r", "pfd">>}]
  <2>1. "notify" \in Pipes
    BY <1>4, AtCall, Here DEF CallOK, ArgsOK
  <2>2. Good(prog, V, mem)
    BY <1>3, <1>4
  <2> HIDE DEF V
  <2>3. V[p].fds \in SUBSET Descriptors
    BY <2>2, Here, PartGood
  <2>4. V[p].fds \cup {<<"notify", "r", "pfd">>} \in SUBSET Descriptors
    BY <2>1, <2>3 DEF Descriptors
  <2>5. Good(prog, [V EXCEPT ![p].fds = V[p].fds \cup {<<"notify", "r", "pfd">>}],
             mem)
    BY <2>2, <2>4, Here, PartGood
  <2> QED BY <2>5, <1>1, <1>4
<1>5. CASE /\ Calls(p, "notif_recv") /\ ps' = V
           /\ \E q \in Procs : mem' = [mem EXCEPT !["req"] = ps[q].pc]
  <2>1. PICK q \in Procs : mem' = [mem EXCEPT !["req"] = ps[q].pc]
    BY <1>5
  <2>2. PICK v \in Vars \ BinarySems : v = "req"
    BY <1>5, AtCall, Here DEF CallOK, ArgsOK
  <2>3. Good(prog, V, mem)
    BY <1>3, <1>5
  <2>4. ps[q].pc \in Int
    BY Here
  <2> HIDE DEF V
  <2> QED BY <2>1, <2>2, <2>3, <2>4, <1>5, PutGood
<1>6. CASE /\ \E op \in {"notif_id_valid", "notif_send"} : Calls(p, op)
           /\ ps' = V \/ ps' = Fails(ps, p)
           /\ mem' = mem
  BY <1>1, <1>3, <1>6
<1>7. CASE /\ Calls(p, "notif_send") /\ mem' = mem
           /\ ps' = [q \in Procs |-> IF q \in current
                       THEN [ps[q] EXCEPT !.st = "run", !.pc = @ + 1]
                       ELSE On(ps, p, 1)[q]]
  <2>1. Good(prog, V, mem) /\ p \in ProcsOf(prog) /\ ps[p].st = "run"
    BY <1>3, <1>7, Here, AtCall
  <2>2. V \in [ProcsOf(prog) -> Process(prog)]
    BY <2>1 DEF Good, TableInv
  <2>3. /\ \A q \in current : V[q] = ps[q]
        /\ Procs = ProcsOf(prog)
    <3>1. p \notin current
      BY <2>1 DEF Notifying
    <3>2. current \subseteq Procs
      BY DEF Notifying
    <3> QED BY <3>1, <3>2, Here, OnPart
  <2>4. ps' = [q \in ProcsOf(prog) |-> IF q \in current
                 THEN [ps[q] EXCEPT !.st = "run", !.pc = @ + 1] ELSE V[q]]
    BY <1>7, <2>3
  <2>5. ASSUME NEW q \in ProcsOf(prog), q \in current
        PROVE  ps'[q] \in Process(prog) /\ GoesOn(prog, q, ps'[q], ps[q])
    <3> DEFINE i == ps[q].pc
               w == [ps[q] EXCEPT !.st = "run", !.pc = i + 1]
               k == MarkAt(prog, q, i)
               l == MarkAt(prog, q, i + 1)
    <3>1. ps[q].st = "block" /\ NextCall(q).op = "notify" /\ q \in Procs
      BY <2>5 DEF Notifying
    <3>2. /\ ps[q] \in Process(prog) /\ Local(prog, q, ps[q])
          /\ i \in Reached(prog, q) /\ i + 1 \in Nat /\ prog \in DOMAIN Code
          /\ CallAt(prog, q, i).op = "notify"
      BY <3>1, Here
    <3>3. i <= Len(Code[prog][q]) /\ Knows(ps[q], k)
      BY <3>1, <3>2 DEF Local, Live
    <3>4. i + 1 \in Reached(prog, q) /\ l \in {k, Forget(k)}
      BY <3>2, <3>3, PlainPlace DEF Ending, Marking
    <3>5. /\ w \in Process(prog) /\ w.pc = i + 1 /\ w.st = "run"
          /\ w.ppid = ps[q].ppid /\ w.mask = ps[q].mask
          /\ w.smask = ps[q].smask /\ w.disp = ps[q].disp
          /\ w.sdisp = ps[q].sdisp /\ w.entry = ps[q].entry
      BY <3>2 DEF Process, Live
    <3>6. ps'[q] = w
      BY <2>4, <2>5
    <3> HIDE DEF w
    <3>7. Knows(w, l)
      <4>1. Knows(w, k)
        BY <3>3, <3>5, KnowsSame
      <4> QED BY <4>1, <3>4, KnowsForget
    <3>8. Local(prog, q, w)
      BY <3>2, <3>4, <3>5, <3>7 DEF Local
    <3>9. l.child \in {"", k.child} /\ l.token = k.token /\ l.made = k.made
      BY <3>4, ForgetMark
    <3>10. GoesOn(prog, q, w, ps[q])
      BY <3>1, <3>5, <3>8, <3>9 DEF GoesOn, Live
    <3> QED BY <3>5, <3>6, <3>10
  <2>6. ps' \in [ProcsOf(prog) -> Process(prog)]
    <3>1. \A q \in ProcsOf(prog) : ps'[q] \in Process(prog)
      BY <2>2, <2>4, <2>5
    <3>2. DOMAIN ps' = ProcsOf(prog) /\ ps' = [q \in ProcsOf(prog) |-> ps'[q]]
      BY <2>4
    <3> QED BY <3>1, <3>2
  <2>7. \A q \in ProcsOf(prog) :
          ps'[q] = V[q] \/ GoesOn(prog, q, ps'[q], V[q])
    BY <2>3, <2>4, <2>5
  <2> HIDE DEF V
  <2>8. Good(prog, ps', mem)
    BY <2>1, <2>6, <2>7, Here, ManyGood
  <2> QED BY <2>8, <1>1, <1>7
<1>8. CASE /\ ps[p].st \in {"run", "block"} /\ ~Returns(p)
           /\ NextCall(p).op = "notify" /\ mem' = mem
           /\ ps' = Fails([ps EXCEPT ![p].st = "run"], p)
  <2>1. ps[p].pc <= Len(Code[prog][p]) /\ ps[p].st \in Live
    BY <1>8, Here DEF Returns, Live
  <2> QED BY <2>1, <1>1, <1>8, RunFails
<1> QED BY <1>4, <1>5, <1>6, <1>7, <1>8 DEF notification

-----------------------------------------------------------------------------
(* The delivery of signals.                                                *)

(* A disposition that a process may have comes from a call that keeps the  *)
(* rules: SIGCHLD only has a handler that waits for children, and a        *)
(* handler that leaves a mark, or writes to a pipe, finds it.              *)
LEMMA HandlerRules ==
    ASSUME Disciplined, NEW g \in DOMAIN Code, NEW s \in Signals, NEW h,
           MayHave(g, s, h)
    PROVE  /\ h = "reap" => s = "CHLD"
           /\ h = "flag" => "flag" \in Vars \ BinarySems
           /\ h = "pipe" => "self" \in Pipes
<1>1. CASE h \in {"dfl", "ign"}
  BY <1>1
<1>2. CASE \E p \in ProcsOf(g) : \E i \in Reached(g, p) :
             LET call == CallAt(g, p, i)
             IN  /\ i <= Len(Code[g][p])
                 /\ call.op = "sigaction" /\ call.x = s /\ call.n = h
  <2>0. PICK p \in ProcsOf(g) : \E i \in Reached(g, p) :
               /\ i <= Len(Code[g][p]) /\ CallAt(g, p, i).op = "sigaction"
               /\ CallAt(g, p, i).x = s /\ CallAt(g, p, i).n = h
    BY <1>2
  <2>1. PICK i \in Reached(g, p) :
               /\ i <= Len(Code[g][p]) /\ CallAt(g, p, i).op = "sigaction"
               /\ CallAt(g, p, i).x = s /\ CallAt(g, p, i).n = h
    BY <2>0
  <2>2. ArgsOK(g, CallAt(g, p, i))
    BY <2>1, ProcRules DEF CallOK
  <2> QED BY <2>1, <2>2 DEF ArgsOK
<1> QED BY <1>1, <1>2 DEF MayHave

(* A process takes a signal and its state changes, from waiting to         *)
(* interrupted or to stopped.                                              *)
LEMMA StateGood ==
    ASSUME Disciplined, NEW g \in DOMAIN Code, NEW T, NEW m, Good(g, T, m),
           NEW p \in ProcsOf(g), T[p].st \in Live, NEW a,
           a = T[p].st \/ a = "stop" \/ (T[p].st = "block" /\ a = "eintr")
    PROVE  Good(g, [T EXCEPT ![p].st = a], m)
<1> DEFINE w == [T[p] EXCEPT !.st = a]
<1>1. T[p] \in Process(g) /\ a \in Live
  BY DEF Good, TableInv, Live
<1>2. w \in Process(g) /\ Alike(w, T[p])
  BY <1>1 DEF Process, Alike
<1>3. [T EXCEPT ![p].st = a] = [T EXCEPT ![p] = w]
  OBVIOUS
<1> HIDE DEF w
<1>4. Good(g, [T EXCEPT ![p] = w], m)
  BY <1>2, ChangeOne
<1> QED BY <1>3, <1>4

(* A handler runs. *)
LEMMA CaughtInv ==
    ASSUME Disciplined, IInv, NEW p \in Procs, ps[p].st \in Live, Caught(p),
           UNCHANGED <<program, queues, tty, faults>>
    PROVE  IInv'
<1> DEFINE h(s) == ps[p].disp[s]
           a == IF ps[p].st = "block" THEN "eintr" ELSE ps[p].st
           T(s) == [ps EXCEPT ![p].pend = @ \ {s}]
           reaped(s) == [q \in Procs |->
                           IF q = p THEN [T(s)[p] EXCEPT !.st = a]
                           ELSE IF T(s)[q].ppid = p /\ T(s)[q].st = "zombie"
                           THEN [T(s)[q] EXCEPT !.st = "reaped"] ELSE T(s)[q]]
<1>1. PICK s \in Deliverable(p) :
        /\ \/ h(s) = "exit" /\ ps' = Ends(T(s), p, "exit")
           \/ ps' = T(s)
           \/ h(s) = "reap" /\ ps' = reaped(s)
           \/ ps' = [T(s) EXCEPT ![p].st = a]
        /\ mem' = IF h(s) = "flag" THEN [mem EXCEPT !["flag"] = 1] ELSE mem
        /\ pipes' = IF h(s) = "pipe" THEN [pipes EXCEPT !["self"] = @ + 1]
                    ELSE pipes
  BY DEF Caught
<1>2. /\ ps[p] \in Process(prog) /\ p \in ProcsOf(prog)
      /\ ps \in [ProcsOf(prog) -> Process(prog)] /\ Procs = ProcsOf(prog)
      /\ prog \in DOMAIN Code /\ Good(prog, ps, mem) /\ code = Code[prog]
      /\ Local(prog, p, ps[p]) /\ Knows(ps[p], MarkAt(prog, p, ps[p].pc))
  BY Here
<1>3. ps[p].pend \in SUBSET Signals /\ s \in ps[p].pend /\ s \in Signals
  BY <1>1, <1>2 DEF Process, Deliverable
<1>4. MayHave(prog, s, h(s))
  BY <1>2, <1>3 DEF Local
<1>5. mem \in [Vars -> Int] /\ pipes \in [Pipes -> Nat]
  BY DEF IInv
<1> DEFINE R == T(s)
<1>6. Good(prog, R, mem)
  <2>1. ps[p].pend \ {s} \in SUBSET Signals
    BY <1>3
  <2> QED BY <2>1, <1>2, PartGood
<1>7. /\ R[p] = [ps[p] EXCEPT !.pend = ps[p].pend \ {s}]
      /\ R[p].st = ps[p].st /\ R[p].pc = ps[p].pc
  BY <1>2 DEF Process
<1>8. a = R[p].st \/ (R[p].st = "block" /\ a = "eintr")
  BY <1>7
<1>9. Good(prog, ps', mem)
  <2>1. CASE ps' = Ends(R, p, "exit")
    <3> HIDE DEF R
    <3> QED BY <2>1, <1>2, <1>6, EndsGood
  <2>2. CASE ps' = R
    BY <2>2, <1>6
  <2>3. CASE ps' = [R EXCEPT ![p].st = a]
    <3> HIDE DEF R, a
    <3>1. R[p].st \in Live
      BY <1>7
    <3> QED BY <2>3, <3>1, <1>2, <1>6, <1>8, StateGood
  <2>4. CASE h(s) = "reap" /\ ps' = reaped(s)
    <3> DEFINE U == [R EXCEPT ![p].st = a]
    <3>1. MarkAt(prog, p, ps[p].pc).child = ""
      <4> DEFINE k == MarkAt(prog, p, ps[p].pc)
      <4> SUFFICES ASSUME k.child # "" PROVE FALSE
        OBVIOUS
      <4>1. s = "CHLD" /\ MayHave(prog, "CHLD", "reap")
        BY <2>4, <1>2, <1>3, <1>4, HandlerRules
      <4>2. ChildOK(prog, p, k)
        BY <1>2, ProcRules DEF Local
      <4>3. k.phase = "in" /\ "CHLD" \in k.blocked
        BY <4>1, <4>2 DEF ChildOK
      <4>4. "CHLD" \in ps[p].mask
        BY <4>3, <1>2 DEF Knows
      <4>5. s \notin ps[p].mask
        BY <1>1, <4>1 DEF Deliverable
      <4> QED BY <4>1, <4>4, <4>5
    <3>2. R \in [ProcsOf(prog) -> Process(prog)] /\ R[p] \in Process(prog)
      BY <1>2, <1>6 DEF Good, TableInv
    <3>3. Good(prog, U, mem)
      <4> HIDE DEF R, a
      <4>1. R[p].st \in Live
        BY <1>7
      <4> QED BY <4>1, <1>2, <1>6, <1>8, StateGood
    <3> HIDE DEF R
    <3>4. /\ U[p] = [R[p] EXCEPT !.st = a] /\ U[p].st = a /\ U[p].pc = R[p].pc
          /\ \A q \in ProcsOf(prog) \ {p} : U[q] = R[q]
      BY <3>2, <1>2 DEF Process
    <3>5. ps' = [q \in ProcsOf(prog) |->
                   IF q = p THEN U[p]
                   ELSE IF U[q].ppid = p /\ U[q].st = "zombie"
                   THEN [U[q] EXCEPT !.st = "reaped"] ELSE U[q]]
      BY <2>4, <3>4, <1>2 DEF R
    <3>6. U[p].st \in Live /\ MarkAt(prog, p, U[p].pc).child = ""
      BY <3>1, <3>4, <1>7 DEF Live
    <3> HIDE DEF U
    <3>7. U \in [ProcsOf(prog) -> Process(prog)]
      BY <3>3 DEF Good, TableInv
    <3>8. ASSUME NEW q \in ProcsOf(prog)
          PROVE  /\ ps'[q] \in Process(prog)
                 /\ ps'[q] = U[q] \/ (U[q].ppid = p /\ Reaped(ps'[q], U[q]))
      <4>1. U[q] \in Process(prog)
        BY <3>7
      <4>2. CASE q # p /\ U[q].ppid = p /\ U[q].st = "zombie"
        <5>1. ps'[q] = [U[q] EXCEPT !.st = "reaped"]
          BY <3>5, <4>2
        <5> QED BY <4>1, <4>2, <5>1 DEF Process, Reaped
      <4>3. CASE ~(q # p /\ U[q].ppid = p /\ U[q].st = "zombie")
        <5>1. ps'[q] = U[q]
          BY <3>5, <4>3
        <5> QED BY <4>1, <5>1
      <4> QED BY <4>2, <4>3
    <3>9. ps' \in [ProcsOf(prog) -> Process(prog)]
      <4>1. DOMAIN ps' = ProcsOf(prog) /\ ps' = [q \in ProcsOf(prog) |-> ps'[q]]
        BY <3>5
      <4> QED BY <4>1, <3>8
    <3> QED BY <3>3, <3>6, <3>8, <3>9, <1>2, ReapGood
  <2>5. \/ ps' = Ends(R, p, "exit") \/ ps' = R
        \/ h(s) = "reap" /\ ps' = reaped(s)
        \/ ps' = [R EXCEPT ![p].st = a]
    BY <1>1
  <2> HIDE DEF R, a, h, reaped
  <2> QED BY <2>1, <2>2, <2>3, <2>4, <2>5
<1>10. Good(prog, ps', mem') /\ mem' \in [Vars -> Int]
  <2>1. CASE h(s) = "flag"
    <3>1. PICK v \in Vars \ BinarySems, x \in Int : v = "flag" /\ x = 1
      BY <2>1, <1>2, <1>3, <1>4, HandlerRules
    <3> QED BY <2>1, <3>1, <1>1, <1>9, PutGood
  <2>2. CASE h(s) # "flag"
    BY <2>2, <1>1, <1>5, <1>9
  <2> QED BY <2>1, <2>2
<1>11. pipes' \in [Pipes -> Nat]
  <2>1. h(s) = "pipe" => "self" \in Pipes
    BY <1>2, <1>3, <1>4, HandlerRules
  <2> QED BY <2>1, <1>1, <1>5
<1> QED BY <1>10, <1>11, Together DEF IInv

(* A signal is delivered: to a handler, or with its default effect. *)
LEMMA DeliverInv ==
    ASSUME Disciplined, IInv, NEW p \in Procs, Deliver(p) PROVE IInv'
<1>1. ps[p].st \in Live /\ UNCHANGED <<program, queues, tty, faults>>
  BY DEF Deliver
<1>2. CASE Caught(p)
  BY <1>1, <1>2, CaughtInv
<1>3. CASE ~Caught(p)
  <2> DEFINE T(s) == [ps EXCEPT ![p].pend = @ \ {s}]
  <2>1. PICK s \in Deliverable(p) :
               \/ ps' = T(s) \/ ps' = Ends(T(s), p, "killed")
               \/ ps' = [T(s) EXCEPT ![p].st = "stop"]
    BY <1>3 DEF Deliver
  <2> DEFINE R == T(s)
  <2>2. mem' = mem /\ pipes' = pipes
    BY <1>3 DEF Deliver
  <2>3. ps[p] \in Process(prog) /\ ps \in [ProcsOf(prog) -> Process(prog)]
        /\ p \in ProcsOf(prog)
    BY Here
  <2>4. ps[p].pend \ {s} \in SUBSET Signals
    BY <2>3 DEF Process
  <2>5. Good(prog, R, mem)
    BY <2>4, Here, PartGood
  <2>6. R[p].st = ps[p].st
    BY <2>3 DEF Process
  <2>7. ps' = R \/ ps' = Ends(R, p, "killed") \/ ps' = [R EXCEPT ![p].st = "stop"]
    BY <2>1
  <2> HIDE DEF R
  <2>8. Good(prog, Ends(R, p, "killed"), mem)
    BY <2>5, Here, EndsGood
  <2>9. Good(prog, [R EXCEPT ![p].st = "stop"], mem)
    <3>1. PICK b : b = "stop"
      OBVIOUS
    <3> QED BY <3>1, <2>5, <2>6, <1>1, Here, StateGood
  <2>10. Good(prog, ps', mem)
    BY <2>5, <2>7, <2>8, <2>9
  <2> QED BY <2>2, <2>10, <1>1, Together DEF IInv
<1> QED BY <1>2, <1>3

-----------------------------------------------------------------------------
(* fork() and wait().                                                      *)

(* The mark after a fork, and the mark of the child. *)
LEMMA AfterFork ==
    ASSUME NEW g, NEW k \in MarkSet(g), NEW call, call.op = "fork"
    PROVE  LET l == MarkAfter(call, k)
               f == ForkMark(k) IN
           /\ l.token = k.token /\ l.made = k.made
           /\ l.phase = k.phase /\ l.blocked = k.blocked /\ l.saved = k.saved
           /\ l.disp = k.disp /\ l.kept = k.kept
           /\ l.child = IF k.phase = "in" THEN call.x ELSE k.child
           /\ ~f.token /\ ~f.made /\ f.child = ""
           /\ f.phase = k.phase /\ f.blocked = k.blocked /\ f.saved = k.saved
           /\ f.disp = k.disp /\ f.kept = k.kept
<1>1. CASE k.phase = "in"
  <2>1. MarkAfter(call, k) = [k EXCEPT !.child = call.x]
    BY <1>1 DEF MarkAfter, SystemAfter
  <2> QED BY <1>1, <2>1 DEF MarkSet, ForkMark
<1>2. CASE k.phase # "in"
  <2>1. MarkAfter(call, k) = k
    BY <1>2 DEF MarkAfter
  <2> QED BY <1>2, <2>1 DEF MarkSet, ForkMark
<1> QED BY <1>1, <1>2

(* Two marks that say the same of the process. *)
LEMMA KnowsLike ==
    ASSUME NEW v, NEW w, NEW k, NEW l, Knows(w, k), l.phase = k.phase,
           l.blocked = k.blocked, l.saved = k.saved, l.disp = k.disp,
           l.kept = k.kept, v.entry = w.entry, v.mask = w.mask,
           v.smask = w.smask, v.disp = w.disp, v.sdisp = w.sdisp
    PROVE  Knows(v, l)
  BY DEF Knows

(* The parent goes on as w, the child starts as v. *)
LEMMA ForkedGood ==
    ASSUME Disciplined, IInv, NEW p \in Procs, Calls(p, "fork"),
           NEW w \in Process(prog), NEW v \in Process(prog),
           w.pc = ps[p].pc + 1, w.st = "run", w.ppid = ps[p].ppid,
           w.entry = ps[p].entry, w.mask = ps[p].mask, w.smask = ps[p].smask,
           w.disp = ps[p].disp, w.sdisp = ps[p].sdisp,
           v.pc = 1, v.st = "run", v.ppid = p,
           v.entry = ps[p].entry, v.mask = ps[p].mask, v.smask = ps[p].smask,
           v.disp = ps[p].disp, v.sdisp = ps[p].sdisp
    PROVE  Good(prog, [[ps EXCEPT ![p] = w] EXCEPT ![X(p)] = v], mem)
<1> DEFINE i == ps[p].pc
           c == X(p)
           call == CallAt(prog, p, i)
           k == MarkAt(prog, p, i)
           l == MarkAfter(call, k)
           e == ForkMark(k)
           r == MarkAt(prog, p, i + 1)
           f == MarkAt(prog, c, 1)
           U == [[ps EXCEPT ![p] = w] EXCEPT ![c] = v]
<1>1. /\ prog \in DOMAIN Code /\ p \in ProcsOf(prog) /\ i \in Reached(prog, p)
      /\ i <= Len(Code[prog][p]) /\ k \in MarkSet(prog) /\ call.op = "fork"
      /\ CallOK(prog, p, i) /\ c = call.x /\ Local(prog, p, ps[p])
      /\ Knows(ps[p], k) /\ ps[p].st \in Live
      /\ ps \in [ProcsOf(prog) -> Process(prog)] /\ Good(prog, ps, mem)
  BY AtCall, Here DEF X
<1>2. /\ c \in ProcsOf(prog) /\ c # p /\ ~Makes(prog, c)
      /\ f \in {e, Forget(e)} /\ 1 \in Reached(prog, c)
  <2>1. /\ c \in ProcsOf(prog) /\ c # p /\ ~Makes(prog, c)
        /\ f \in {e, Forget(e)}
    BY <1>1 DEF CallOK, ArgsOK
  <2> QED BY <2>1, <1>1, ProcRules
<1>3. i + 1 \in Reached(prog, p) /\ r \in {l, Forget(l)}
  BY <1>1, NextPlace DEF Ending
<1>4. Forks(prog, p, c)
  <2>1. i \in 1..Len(Code[prog][p])
    <3>1. /\ i \in 1..Len(Code[prog][p]) + 1 /\ Len(Code[prog][p]) \in Nat
      BY <1>1, ProcRules
    <3> QED BY <3>1, <1>1
  <2> QED BY <2>1, <1>1 DEF Forks
<1> HIDE DEF call, k
<1>5. /\ l.token = k.token /\ l.made = k.made
      /\ l.phase = k.phase /\ l.blocked = k.blocked /\ l.saved = k.saved
      /\ l.disp = k.disp /\ l.kept = k.kept
      /\ l.child = IF k.phase = "in" THEN c ELSE k.child
      /\ ~e.token /\ ~e.made /\ e.child = ""
      /\ e.phase = k.phase /\ e.blocked = k.blocked /\ e.saved = k.saved
      /\ e.disp = k.disp /\ e.kept = k.kept
  <2>1. /\ l.token = k.token /\ l.made = k.made
        /\ l.phase = k.phase /\ l.blocked = k.blocked /\ l.saved = k.saved
        /\ l.disp = k.disp /\ l.kept = k.kept
        /\ l.child = IF k.phase = "in" THEN call.x ELSE k.child
        /\ ~e.token /\ ~e.made /\ e.child = ""
        /\ e.phase = k.phase /\ e.blocked = k.blocked /\ e.saved = k.saved
        /\ e.disp = k.disp /\ e.kept = k.kept
    BY <1>1, AfterFork
  <2> HIDE DEF c, l, e
  <2> QED BY <2>1, <1>1
<1> HIDE DEF l, e, r, f
<1>6. \A s \in Signals : /\ MayHave(prog, s, ps[p].disp[s])
                         /\ MayHave(prog, s, ps[p].sdisp[s])
  BY <1>1 DEF Local
<1>7. /\ U \in [ProcsOf(prog) -> Process(prog)] /\ U[p] = w /\ U[c] = v
      /\ \A q \in ProcsOf(prog) \ {p, c} : U[q] = ps[q]
  BY <1>1, <1>2
<1>8. /\ r.token = k.token /\ r.made = k.made /\ r.child \in {"", c}
      /\ ~f.token /\ ~f.made /\ f.child = ""
  <2>1. k.child # "" => k.phase = "in"
    BY <1>1, ProcRules DEF ChildOK, k
  <2>2. l.child \in {"", c}
    BY <2>1, <1>5
  <2>3. r.token = k.token /\ r.made = k.made /\ r.child \in {"", c}
    BY <2>2, <1>3, <1>5, ForgetMark
  <2> QED BY <2>3, <1>2, <1>5, ForgetMark
<1>9. Knows(w, r) /\ Knows(v, f)
  <2>1. Knows(w, l)
    BY <1>1, <1>5, KnowsLike
  <2>2. Knows(v, e)
    BY <1>1, <1>5, KnowsLike
  <2> QED BY <2>1, <2>2, <1>2, <1>3, KnowsForget
<1> HIDE DEF U
<1>10. Local(prog, p, w) /\ Local(prog, c, v)
  BY <1>2, <1>3, <1>6, <1>9 DEF Local, r, f
<1>11. ASSUME NEW q \in ProcsOf(prog)
       PROVE  Local(prog, q, U[q]) /\ Tracks(prog, U, q)
  <2>1. Local(prog, q, ps[q]) /\ Tracks(prog, ps, q)
    BY <1>1 DEF Good, TableInv
  <2>2. Local(prog, q, U[q])
    BY <2>1, <1>7, <1>10
  <2>3. CASE q = p
    <3>1. MarkAt(prog, q, U[q].pc) = r
      BY <2>3, <1>7 DEF r
    <3>2. U[c].ppid = p /\ U[c].st \in Live
      BY <1>7 DEF Live
    <3> QED BY <2>2, <2>3, <3>1, <3>2, <1>8 DEF Tracks
  <2>4. CASE q = c
    <3>1. MarkAt(prog, q, U[q].pc) = f
      BY <2>4, <1>7 DEF f
    <3> QED BY <2>2, <3>1, <1>8 DEF Tracks
  <2>5. CASE q \notin {p, c}
    <3> DEFINE d == MarkAt(prog, q, U[q].pc).child
    <3> SUFFICES ASSUME U[q].st \in Live, d # ""
                 PROVE  U[d].ppid = q /\ U[d].st \in Live \cup {"zombie"}
      BY <2>2 DEF Tracks
    <3>1. U[q] = ps[q]
      BY <2>5, <1>7
    <3>2. ps[d].ppid = q /\ ps[d].st \in Live \cup {"zombie"}
      BY <2>1, <3>1 DEF Tracks
    <3>3. MarkAt(prog, q, ps[q].pc) \in MarkSet(prog)
          /\ ChildOK(prog, q, MarkAt(prog, q, ps[q].pc))
      BY <2>1, <1>1, ProcRules DEF Local
    <3>4. d \in ProcsOf(prog)
      BY <3>1, <3>3 DEF MarkSet
    <3>5. d # c
      BY <2>5, <3>1, <3>3, <1>1, <1>4 DEF ChildOK
    <3>6. U[d].ppid = ps[d].ppid /\ (U[d].st = ps[d].st \/ U[d].st \in Live)
      <4>1. CASE d = p
        BY <4>1, <1>7 DEF Live
      <4>2. CASE d # p
        BY <4>2, <3>4, <3>5, <1>7
      <4> QED BY <4>1, <4>2
    <3> QED BY <3>2, <3>6
  <2> QED BY <2>2, <2>3, <2>4, <2>5
<1>12. TokenInv(prog, U, mem)
  <2>1. TokenInv(prog, ps, mem)
    BY <1>1 DEF Good
  <2>2. \A q \in ProcsOf(prog) \ {p, c} :
          /\ HasToken(prog, U, q) <=> HasToken(prog, ps, q)
          /\ HasMade(prog, U, q) <=> HasMade(prog, ps, q)
    BY <1>7 DEF HasToken, HasMade
  <2>3. /\ HasToken(prog, U, p) <=> HasToken(prog, ps, p)
        /\ HasMade(prog, U, p) <=> HasMade(prog, ps, p)
    BY <1>7, <1>8 DEF HasToken, HasMade, r, f, k
  <2>4. ~HasToken(prog, U, c) /\ ~HasMade(prog, U, c)
    BY <1>7, <1>8 DEF HasToken, HasMade, r, f, k
  <2>5. ~HasMade(prog, ps, c)
    <3>1. ps[c].pc \in Reached(prog, c)
      BY <1>1, <1>2 DEF Good, TableInv, Local
    <3> QED BY <3>1, <1>1, <1>2, ProcRules DEF HasMade
  <2>6. \A q \in ProcsOf(prog) :
          /\ HasToken(prog, U, q) => HasToken(prog, ps, q)
          /\ HasMade(prog, U, q) <=> HasMade(prog, ps, q)
    BY <2>2, <2>3, <2>4, <2>5
  <2> QED BY <2>1, <2>6 DEF TokenInv
<1>13. Good(prog, U, mem)
  BY <1>7, <1>11, <1>12 DEF Good, TableInv
<1> QED BY <1>13 DEF U

(* fork(). *)
LEMMA ForkInv ==
    ASSUME Disciplined, IInv, NEW p \in Procs, fork(p) PROVE IInv'
<1> DEFINE w == [ps[p] EXCEPT !.pc = ps[p].pc + 1]
           v == [ps[p] EXCEPT !.pc = 1, !.ppid = p, !.pend = {}, !.alarm = FALSE]
           U == [[ps EXCEPT ![p] = w] EXCEPT ![X(p)] = v]
<1>1. Calls(p, "fork") /\ mem' = mem /\ UNCHANGED <<program, pipes, queues, tty>>
  BY DEF fork
<1>2. \/ ps' = U /\ faults' = faults
      \/ ps' = Fails(ps, p) /\ faults < MaxFaults /\ faults' = faults + 1
  BY DEF fork, On
<1>3. /\ ps[p] \in Process(prog) /\ ps[p].pc + 1 \in Nat /\ p \in ProcsOf(prog)
      /\ ps[p].st = "run"
  BY <1>1, AtCall, Here
<1>4. Good(prog, U, mem)
  <2>1. /\ w \in Process(prog) /\ w.pc = ps[p].pc + 1 /\ w.st = "run"
        /\ w.ppid = ps[p].ppid /\ w.entry = ps[p].entry
        /\ w.mask = ps[p].mask /\ w.smask = ps[p].smask
        /\ w.disp = ps[p].disp /\ w.sdisp = ps[p].sdisp
    BY <1>3 DEF Process
  <2>2. /\ v \in Process(prog) /\ v.pc = 1 /\ v.st = "run" /\ v.ppid = p
        /\ v.entry = ps[p].entry /\ v.mask = ps[p].mask
        /\ v.smask = ps[p].smask /\ v.disp = ps[p].disp
        /\ v.sdisp = ps[p].sdisp
    BY <1>3 DEF Process
  <2> HIDE DEF w, v
  <2> QED BY <2>1, <2>2, <1>1, ForkedGood
<1>5. Good(prog, Fails(ps, p), mem)
  BY <1>1, CallFails DEF Ending
<1> HIDE DEF U
<1>6. Good(prog, ps', mem')
  BY <1>1, <1>2, <1>4, <1>5
<1>7. faults' \in 0..MaxFaults
  BY <1>2, ProcessAssumption DEF IInv
<1> QED BY <1>1, <1>6, <1>7, Together DEF IInv

(* After a wait the process has no child of system() to wait for. *)
LEMMA WaitedGood ==
    ASSUME Disciplined, IInv, NEW p \in Procs,
           Calls(p, "wait") \/ Calls(p, "wait_nohang")
    PROVE  /\ Good(prog, On(ps, p, 1), mem)
           /\ MarkAt(prog, p, ps[p].pc + 1).child = ""
<1> DEFINE i == ps[p].pc
           call == CallAt(prog, p, i)
           k == MarkAt(prog, p, i)
           l == MarkAfter(call, k)
           w == [ps[p] EXCEPT !.pc = ps[p].pc + 1]
<1>1. PICK op \in {"wait", "wait_nohang"} : Calls(p, op)
  OBVIOUS
<1>2. /\ prog \in DOMAIN Code /\ p \in ProcsOf(prog) /\ i \in Reached(prog, p)
      /\ i <= Len(Code[prog][p]) /\ k \in MarkSet(prog) /\ call.op = op
      /\ CallOK(prog, p, i) /\ Local(prog, p, ps[p]) /\ ps[p].st = "run"
      /\ Knows(ps[p], k) /\ ps[p].st \in Live /\ ps[p] \in Process(prog)
      /\ ps[p].pc + 1 \in Nat
  BY <1>1, AtCall, Here
<1>3. /\ k.child # "" => k.phase = "in" /\ op # "wait_nohang"
  <2>1. SystemOK(call, k) /\ ChildOK(prog, p, k)
    BY <1>2, ProcRules DEF CallOK
  <2> QED BY <2>1, <1>2 DEF SystemOK, ChildOK
<1>4. IF op = "wait" /\ k.phase = "in" THEN l = [k EXCEPT !.child = ""]
      ELSE l = k
  BY <1>1, <1>2 DEF MarkAfter, SystemAfter
<1>5. i + 1 \in Reached(prog, p) /\ MarkAt(prog, p, i + 1) \in {l, Forget(l)}
  BY <1>1, <1>2, NextPlace DEF Ending
<1>6. k = MarkAt(prog, p, ps[p].pc)
      /\ l = MarkAfter(CallAt(prog, p, ps[p].pc), k)
  OBVIOUS
<1> HIDE DEF k, l, call
<1>7. /\ l.token = k.token /\ l.made = k.made /\ l.child = ""
      /\ l.phase = k.phase /\ l.blocked = k.blocked /\ l.saved = k.saved
      /\ l.disp = k.disp /\ l.kept = k.kept
  <2>1. CASE op = "wait" /\ k.phase = "in"
    BY <2>1, <1>2, <1>4 DEF MarkSet
  <2>2. CASE ~(op = "wait" /\ k.phase = "in")
    BY <2>2, <1>1, <1>3, <1>4
  <2> QED BY <2>1, <2>2
<1>8. MarkAt(prog, p, ps[p].pc + 1).child = ""
  BY <1>5, <1>7, ForgetMark
<1>9. /\ w \in Process(prog) /\ w.pc = ps[p].pc + 1 /\ w.st = "run"
      /\ w.ppid = ps[p].ppid /\ w.entry = ps[p].entry
      /\ w.mask = ps[p].mask /\ w.smask = ps[p].smask
      /\ w.disp = ps[p].disp /\ w.sdisp = ps[p].sdisp
  BY <1>2 DEF Process
<1>10. On(ps, p, 1) = [ps EXCEPT ![p] = w]
  BY DEF On
<1> HIDE DEF w
<1>11. Knows(w, l)
  BY <1>2, <1>7, <1>9, KnowsLike
<1>12. \A s \in Signals : /\ MayHave(prog, s, w.disp[s])
                          /\ MayHave(prog, s, w.sdisp[s])
  BY <1>2, <1>9 DEF Local
<1>13. op \notin Ending /\ op # "jump" /\ l.child \in {"", k.child}
  BY <1>1, <1>7 DEF Ending
<1>14. Good(prog, [ps EXCEPT ![p] = w], mem)
  BY <1>1, <1>6, <1>7, <1>9, <1>11, <1>12, <1>13, MarkGood
<1> QED BY <1>8, <1>10, <1>14

(* wait(): the child of system() is there, so that the wait for it does    *)
(* not fail.                                                               *)
LEMMA WaitInv ==
    ASSUME Disciplined, IInv, NEW p \in Procs, wait(p) PROVE IInv'
<1> DEFINE kids == {q \in Procs : /\ ps[q].ppid = p /\ X(p) \in {"any", q}
                                  /\ ps[q].st \in Live \cup {"zombie"}}
           V == On(ps, p, 1)
           k == MarkAt(prog, p, ps[p].pc)
<1>1. UNCHANGED Rest /\ (Calls(p, "wait") \/ Calls(p, "wait_nohang"))
  BY DEF wait
<1>2. PICK op \in {"wait", "wait_nohang"} : Calls(p, op)
  BY <1>1
<1>3. /\ p \in ProcsOf(prog) /\ ps[p].st = "run" /\ ps[p].st \in Live
      /\ ps \in [ProcsOf(prog) -> Process(prog)] /\ Procs = ProcsOf(prog)
      /\ CallOK(prog, p, ps[p].pc) /\ CallAt(prog, p, ps[p].pc).op = op
      /\ NextCall(p) = CallAt(prog, p, ps[p].pc) /\ k \in MarkSet(prog)
      /\ ps[p].pc <= Len(Code[prog][p]) /\ Good(prog, ps, mem)
      /\ ps[p] \in Process(prog) /\ prog \in DOMAIN Code
  BY <1>2, AtCall, Here
<1>4. Good(prog, V, mem) /\ MarkAt(prog, p, ps[p].pc + 1).child = ""
  BY <1>1, WaitedGood
<1>5. /\ V[p].st = "run" /\ V[p].pc = ps[p].pc + 1
      /\ \A q \in ProcsOf(prog) \ {p} : V[q] = ps[q]
  BY <1>3 DEF On, Process
<1>6. CASE \E q \in kids : /\ ps[q].st = "zombie"
                           /\ ps' = [V EXCEPT ![q].st = "reaped"]
  <2>1. PICK q \in kids : /\ ps[q].st = "zombie"
                          /\ ps' = [V EXCEPT ![q].st = "reaped"]
    BY <1>6
  <2>2. q \in ProcsOf(prog) /\ q # p /\ ps[q].ppid = p /\ V[q] = ps[q]
    BY <2>1, <1>3, <1>5
  <2> DEFINE v == [V[q] EXCEPT !.st = "reaped"]
             U == [V EXCEPT ![q] = v]
  <2>3. ps' = U
    BY <2>1
  <2>4. /\ V \in [ProcsOf(prog) -> Process(prog)] /\ V[q] \in Process(prog)
    BY <2>2, <1>4 DEF Good, TableInv
  <2>5. V[p].st \in Live /\ MarkAt(prog, p, V[p].pc).child = ""
    BY <1>4, <1>5 DEF Live
  <2>6. V[q].ppid = p /\ V[q].st = "zombie"
    BY <2>1, <2>2
  <2> HIDE DEF V
  <2>7. v \in Process(prog) /\ Reaped(v, V[q])
    BY <2>4, <2>6 DEF Process, Reaped
  <2> HIDE DEF v
  <2>8. U \in [ProcsOf(prog) -> Process(prog)]
    BY <2>4, <2>7
  <2>9. \A r \in ProcsOf(prog) :
          U[r] = V[r] \/ (V[r].ppid = p /\ Reaped(U[r], V[r]))
    BY <2>2, <2>4, <2>6, <2>7
  <2> HIDE DEF U
  <2>10. Good(prog, U, mem)
    BY <2>5, <2>8, <2>9, <1>3, <1>4, ReapGood
  <2> QED BY <2>3, <2>10, <1>1, TableOnly
<1>7. CASE kids = {} /\ ps' = Fails(ps, p)
  <2>1. op = "wait" => k.child = ""
    <3> SUFFICES ASSUME op = "wait", k.child # "" PROVE FALSE
      OBVIOUS
    <3>1. k.child \in ProcsOf(prog)
      BY <1>3 DEF MarkSet
    <3>2. Tracks(prog, ps, p)
      BY <1>3 DEF Good, TableInv
    <3>3. ps[k.child].ppid = p /\ ps[k.child].st \in Live \cup {"zombie"}
      BY <3>2, <1>3 DEF Tracks
    <3>4. X(p) = k.child
      <4>1. SystemOK(CallAt(prog, p, ps[p].pc), k)
        BY <1>3 DEF CallOK
      <4> QED BY <4>1, <1>3 DEF SystemOK, X
    <3>5. k.child \in kids
      BY <3>1, <3>3, <3>4, <1>3
    <3> QED BY <3>5, <1>7
  <2>2. Good(prog, Fails(ps, p), mem)
    BY <2>1, <1>2, <1>3, FailsGood DEF Ending
  <2> QED BY <2>2, <1>1, <1>7, TableOnly
<1>8. CASE ps' = V
  BY <1>1, <1>4, <1>8, TableOnly
<1> QED BY <1>6, <1>7, <1>8 DEF wait

-----------------------------------------------------------------------------
(* Semaphores.                                                             *)

(* The mark after semctl() and semop(). *)
LEMMA AfterSem ==
    ASSUME NEW g, NEW k \in MarkSet(g), NEW call, call.op \in {"semctl", "semop"}
    PROVE  LET l == MarkAfter(call, k) IN
           /\ l.child = k.child /\ l.phase = k.phase /\ l.blocked = k.blocked
           /\ l.saved = k.saved /\ l.disp = k.disp /\ l.kept = k.kept
           /\ call.op = "semctl" => /\ l.token <=> k.token
                                    /\ l.made <=> (k.made \/ MakesToken(call))
           /\ call.op = "semop" =>
                /\ l.made <=> k.made
                /\ call.x \notin BinarySems => (l.token <=> k.token)
                /\ call.x \in BinarySems => (l.token <=> (call.n = -1))
<1> DEFINE l == MarkAfter(call, k)
<1>1. CASE call.op = "semctl"
  <2> DEFINE b == k.made \/ MakesToken(call)
  <2>1. l = [k EXCEPT !.made = b]
    BY <1>1 DEF MarkAfter
  <2>2. b <=> (k.made \/ MakesToken(call))
    OBVIOUS
  <2> HIDE DEF b
  <2>3. /\ l.child = k.child /\ l.phase = k.phase /\ l.blocked = k.blocked
        /\ l.saved = k.saved /\ l.disp = k.disp /\ l.kept = k.kept
        /\ l.token = k.token /\ l.made = b
    BY <2>1 DEF MarkSet
  <2> QED BY <2>2, <2>3, <1>1
<1>2. CASE call.op = "semop"
  <2> DEFINE b == IF call.x \in BinarySems THEN call.n = -1 ELSE k.token
  <2>1. l = [k EXCEPT !.token = b]
    BY <1>2 DEF MarkAfter
  <2>2. /\ call.x \notin BinarySems => (b <=> k.token)
        /\ call.x \in BinarySems => (b <=> (call.n = -1))
    OBVIOUS
  <2> HIDE DEF b
  <2>3. /\ l.child = k.child /\ l.phase = k.phase /\ l.blocked = k.blocked
        /\ l.saved = k.saved /\ l.disp = k.disp /\ l.kept = k.kept
        /\ l.made = k.made /\ l.token = b
    BY <2>1 DEF MarkSet
  <2> QED BY <2>2, <2>3, <1>2
<1> QED BY <1>1, <1>2

(* The process goes on; its mark says whether it has the token. *)
LEMMA SemTable ==
    ASSUME Disciplined, IInv, NEW p \in Procs, NEW op \in {"semctl", "semop"},
           Calls(p, op)
    PROVE  LET U == On(ps, p, 1)
               call == CallAt(prog, p, ps[p].pc)
               l == MarkAfter(call, MarkAt(prog, p, ps[p].pc)) IN
           /\ TableInv(prog, U)
           /\ HasToken(prog, U, p) <=> l.token
           /\ HasMade(prog, U, p) <=> l.made
           /\ \A q \in ProcsOf(prog) \ {p} :
                /\ HasToken(prog, U, q) <=> HasToken(prog, ps, q)
                /\ HasMade(prog, U, q) <=> HasMade(prog, ps, q)
<1> DEFINE i == ps[p].pc
           call == CallAt(prog, p, i)
           k == MarkAt(prog, p, i)
           l == MarkAfter(call, k)
           r == MarkAt(prog, p, i + 1)
           w == [ps[p] EXCEPT !.pc = ps[p].pc + 1]
           U == On(ps, p, 1)
<1>1. /\ prog \in DOMAIN Code /\ p \in ProcsOf(prog) /\ i \in Reached(prog, p)
      /\ i <= Len(Code[prog][p]) /\ k \in MarkSet(prog) /\ call.op = op
      /\ Local(prog, p, ps[p]) /\ ps[p].st = "run" /\ Knows(ps[p], k)
      /\ ps[p].st \in Live /\ ps[p] \in Process(prog) /\ ps[p].pc + 1 \in Nat
      /\ Good(prog, ps, mem) /\ ps \in [ProcsOf(prog) -> Process(prog)]
  BY AtCall, Here
<1>2. i + 1 \in Reached(prog, p) /\ r \in {l, Forget(l)}
  BY <1>1, NextPlace DEF Ending
<1>3. /\ w \in Process(prog) /\ w.pc = i + 1 /\ w.st = "run"
      /\ w.ppid = ps[p].ppid /\ w.entry = ps[p].entry
      /\ w.mask = ps[p].mask /\ w.smask = ps[p].smask
      /\ w.disp = ps[p].disp /\ w.sdisp = ps[p].sdisp
  BY <1>1 DEF Process
<1>4. U = [ps EXCEPT ![p] = w]
  BY DEF On
<1> HIDE DEF w
<1>5. U[p] = w /\ \A q \in ProcsOf(prog) \ {p} : U[q] = ps[q]
  BY <1>1, <1>4
<1>6. HasToken(prog, U, p) <=> r.token
  BY <1>3, <1>5 DEF HasToken
<1>7. HasMade(prog, U, p) <=> r.made
  BY <1>3, <1>5 DEF HasMade
<1>8. \A q \in ProcsOf(prog) \ {p} :
        /\ HasToken(prog, U, q) <=> HasToken(prog, ps, q)
        /\ HasMade(prog, U, q) <=> HasMade(prog, ps, q)
  BY <1>5 DEF HasToken, HasMade
<1> HIDE DEF call, k
<1>9. /\ l.child = k.child /\ l.phase = k.phase /\ l.blocked = k.blocked
      /\ l.saved = k.saved /\ l.disp = k.disp /\ l.kept = k.kept
  BY <1>1, AfterSem
<1> HIDE DEF l, r, U
<1>10. Knows(w, r)
  <2>1. Knows(w, l)
    BY <1>1, <1>3, <1>9, KnowsLike
  <2> QED BY <2>1, <1>2, KnowsForget
<1>11. Local(prog, p, w)
  BY <1>1, <1>2, <1>3, <1>10 DEF Local, r
<1>12. r.child \in {"", k.child} /\ r.token = l.token /\ r.made = l.made
  BY <1>2, <1>9, ForgetMark
<1>13. w.st \in Live
  BY <1>3 DEF Live
<1>14. MarkAt(prog, p, w.pc).child \in {"", MarkAt(prog, p, ps[p].pc).child}
  BY <1>3, <1>12 DEF r, k
<1>15. TableInv(prog, [ps EXCEPT ![p] = w])
  BY <1>1, <1>3, <1>11, <1>13, <1>14, StepTable DEF Good
<1> QED BY <1>4, <1>6, <1>7, <1>8, <1>12, <1>15 DEF U, l, k, call

(* Nobody else has made a token, and this process not yet. *)
LEMMA FirstToken ==
    ASSUME Disciplined, IInv, NEW p \in Procs, Calls(p, "semctl"),
           MakesToken(CallAt(prog, p, ps[p].pc)),
           ~MarkAt(prog, p, ps[p].pc).made
    PROVE  /\ \A s \in BinarySems : mem[s] = 0
           /\ \A q \in ProcsOf(prog) : ~HasToken(prog, ps, q)
<1>1. /\ prog \in DOMAIN Code /\ p \in ProcsOf(prog)
      /\ ps[p].pc \in Reached(prog, p) /\ ps[p].pc <= Len(Code[prog][p])
      /\ Good(prog, ps, mem)
  BY AtCall, Here
<1>2. Makes(prog, p)
  <2>1. ps[p].pc \in 1..Len(Code[prog][p])
    <3>1. /\ ps[p].pc \in 1..Len(Code[prog][p]) + 1
          /\ Len(Code[prog][p]) \in Nat
      BY <1>1, ProcRules
    <3> QED BY <3>1, <1>1
  <2> QED BY <2>1 DEF Makes
<1>3. ASSUME NEW q \in ProcsOf(prog) PROVE ~HasMade(prog, ps, q)
  <2>1. ps[q].pc \in Reached(prog, q)
    BY <1>1 DEF Good, TableInv, Local
  <2>2. HasMade(prog, ps, q) => Makes(prog, q)
    BY <2>1, <1>1, ProcRules DEF HasMade
  <2>3. Makes(prog, q) => q = p
    BY <1>1, <1>2, ProcRules
  <2> QED BY <2>2, <2>3 DEF HasMade
<1> QED BY <1>1, <1>3 DEF Good, TokenInv

(* semctl() on a semaphore: it is set to 0, or the token is made. *)
LEMMA SemctlGood ==
    ASSUME Disciplined, IInv, NEW p \in Procs, Calls(p, "semctl")
    PROVE  LET n == [mem EXCEPT ![X(p)] = N(p)]
           IN  Good(prog, On(ps, p, 1), n) /\ n \in [Vars -> Int]
<1> DEFINE U == On(ps, p, 1)
           n == [mem EXCEPT ![X(p)] = N(p)]
           call == CallAt(prog, p, ps[p].pc)
           k == MarkAt(prog, p, ps[p].pc)
           l == MarkAfter(call, k)
<1>1. /\ prog \in DOMAIN Code /\ p \in ProcsOf(prog) /\ k \in MarkSet(prog)
      /\ Good(prog, ps, mem) /\ CallOK(prog, p, ps[p].pc)
      /\ call.op = "semctl" /\ NextCall(p) = call
  BY AtCall, Here
<1>2. mem \in [Vars -> Int] /\ BinarySems \subseteq Vars
  BY ProcessAssumption DEF IInv
<1>3. X(p) = call.x /\ N(p) = call.n
  BY <1>1 DEF X, N
<1>4. X(p) \in Vars /\ N(p) \in Int
  BY <1>1, <1>3 DEF CallOK, ArgsOK
<1>5. X(p) \in BinarySems => N(p) = 0 \/ (N(p) = 1 /\ ~k.made)
  BY <1>1, <1>3 DEF CallOK, TokenOK
<1>6. /\ n \in [Vars -> Int] /\ n[X(p)] = N(p)
      /\ \A s \in BinarySems : s # X(p) => n[s] = mem[s]
  BY <1>2, <1>4
<1>7. PICK op \in {"semctl", "semop"} : op = "semctl" /\ Calls(p, op)
  OBVIOUS
<1>8. /\ TableInv(prog, U)
      /\ HasToken(prog, U, p) <=> l.token
      /\ HasMade(prog, U, p) <=> l.made
      /\ \A q \in ProcsOf(prog) \ {p} :
           /\ HasToken(prog, U, q) <=> HasToken(prog, ps, q)
           /\ HasMade(prog, U, q) <=> HasMade(prog, ps, q)
  BY <1>7, SemTable
<1>9. HasToken(prog, ps, p) <=> k.token
  BY DEF HasToken
<1>10. HasMade(prog, ps, p) <=> k.made
  BY DEF HasMade
<1> HIDE DEF k, U, n
<1>11. (l.token <=> k.token) /\ (l.made <=> (k.made \/ MakesToken(call)))
  BY <1>1, AfterSem
<1> HIDE DEF l
<1>12. \A q \in ProcsOf(prog) :
         /\ HasToken(prog, U, q) <=> HasToken(prog, ps, q)
         /\ HasMade(prog, ps, q) => HasMade(prog, U, q)
  BY <1>8, <1>9, <1>10, <1>11
<1>13. TokenInv(prog, ps, mem)
  BY <1>1 DEF Good
<1>14. TokenInv(prog, U, n)
  <2>1. CASE X(p) \notin BinarySems
    <3>1. \A s \in BinarySems : n[s] = mem[s]
      BY <2>1, <1>6
    <3> QED BY <3>1, <1>12, <1>13 DEF TokenInv
  <2>2. CASE X(p) \in BinarySems /\ N(p) = 0
    <3>1. \A s \in BinarySems : n[s] = mem[s] \/ n[s] = 0
      BY <2>2, <1>6
    <3>2. \A s \in BinarySems : n[s] \in {0, 1} /\ (n[s] = 1 => mem[s] = 1)
      BY <3>1, <1>13 DEF TokenInv
    <3>3. \A s \in BinarySems : mem[s] = 0 => n[s] = 0
      BY <3>1
    <3> QED BY <3>2, <3>3, <1>12, <1>13 DEF TokenInv
  <2>3. CASE X(p) \in BinarySems /\ N(p) = 1 /\ ~k.made
    <3>1. MakesToken(call)
      BY <2>3, <1>1, <1>3 DEF MakesToken
    <3>2. /\ \A s \in BinarySems : mem[s] = 0
          /\ \A q \in ProcsOf(prog) : ~HasToken(prog, ps, q)
      BY <3>1, <2>3, FirstToken DEF k
    <3>3. HasMade(prog, U, p)
      BY <3>1, <1>8, <1>11
    <3>4. \A s \in BinarySems : n[s] \in {0, 1} /\ (n[s] = 1 => s = X(p))
      BY <2>3, <3>2, <1>6
    <3> QED BY <3>2, <3>3, <3>4, <1>1, <1>12 DEF TokenInv
  <2> QED BY <2>1, <2>2, <2>3, <1>5
<1> QED BY <1>6, <1>8, <1>14 DEF Good, U, n

(* semop() on a semaphore: the process takes the token or puts it back. *)
LEMMA SemopGood ==
    ASSUME Disciplined, IInv, NEW p \in Procs, Calls(p, "semop"),
           mem[X(p)] + N(p) >= 0
    PROVE  LET n == [mem EXCEPT ![X(p)] = mem[X(p)] + N(p), !["otime"] = 1]
           IN  Good(prog, On(ps, p, 1), n) /\ n \in [Vars -> Int]
<1> DEFINE U == On(ps, p, 1)
           n == [mem EXCEPT ![X(p)] = mem[X(p)] + N(p), !["otime"] = 1]
           call == CallAt(prog, p, ps[p].pc)
           k == MarkAt(prog, p, ps[p].pc)
           l == MarkAfter(call, k)
<1>1. /\ prog \in DOMAIN Code /\ p \in ProcsOf(prog) /\ k \in MarkSet(prog)
      /\ Good(prog, ps, mem) /\ CallOK(prog, p, ps[p].pc)
      /\ call.op = "semop" /\ NextCall(p) = call
  BY AtCall, Here
<1>2. mem \in [Vars -> Int] /\ BinarySems \subseteq Vars
  BY ProcessAssumption DEF IInv
<1>3. X(p) = call.x /\ N(p) = call.n
  BY <1>1 DEF X, N
<1>4. X(p) \in Vars /\ N(p) \in Int /\ "otime" \in Vars \ BinarySems
  BY <1>1, <1>3 DEF CallOK, ArgsOK
<1>5. X(p) \in BinarySems =>
        \/ N(p) = 1 /\ k.token
        \/ N(p) = -1 /\ ~k.token
  BY <1>1, <1>3 DEF CallOK, TokenOK
<1>6. /\ n \in [Vars -> Int]
      /\ X(p) \in BinarySems => n[X(p)] = mem[X(p)] + N(p)
      /\ \A s \in BinarySems : s # X(p) => n[s] = mem[s]
  BY <1>2, <1>4
<1>7. PICK op \in {"semctl", "semop"} : op = "semop" /\ Calls(p, op)
  OBVIOUS
<1>8. /\ TableInv(prog, U)
      /\ HasToken(prog, U, p) <=> l.token
      /\ HasMade(prog, U, p) <=> l.made
      /\ \A q \in ProcsOf(prog) \ {p} :
           /\ HasToken(prog, U, q) <=> HasToken(prog, ps, q)
           /\ HasMade(prog, U, q) <=> HasMade(prog, ps, q)
  BY <1>7, SemTable
<1>9. HasToken(prog, ps, p) <=> k.token
  BY DEF HasToken
<1>10. HasMade(prog, ps, p) <=> k.made
  BY DEF HasMade
<1> HIDE DEF k, U, n
<1>11. /\ l.made <=> k.made
       /\ call.x \notin BinarySems => (l.token <=> k.token)
       /\ call.x \in BinarySems => (l.token <=> (call.n = -1))
  BY <1>1, AfterSem
<1> HIDE DEF l, call
<1>12. /\ \A q \in ProcsOf(prog) :
            HasMade(prog, U, q) <=> HasMade(prog, ps, q)
       /\ \A q \in ProcsOf(prog) : \/ q = p /\ X(p) \in BinarySems
                                   \/ HasToken(prog, U, q) <=> HasToken(prog, ps, q)
       /\ X(p) \in BinarySems => (HasToken(prog, U, p) <=> (N(p) = -1))
  BY <1>3, <1>8, <1>9, <1>10, <1>11
<1>13. TokenInv(prog, ps, mem)
  BY <1>1 DEF Good
<1>14. TokenInv(prog, U, n)
  <2>1. CASE X(p) \notin BinarySems
    <3>1. \A s \in BinarySems : n[s] = mem[s]
      BY <2>1, <1>6
    <3> QED BY <2>1, <3>1, <1>12, <1>13 DEF TokenInv
  <2>2. CASE X(p) \in BinarySems /\ N(p) = 1 /\ k.token
    <3>1. HasToken(prog, ps, p)
      BY <2>2, <1>9
    <3>2. /\ \A s \in BinarySems : mem[s] = 0
          /\ \A q \in ProcsOf(prog) : HasToken(prog, ps, q) => q = p
      BY <3>1, <1>1, <1>13 DEF TokenInv
    <3>3. \A q \in ProcsOf(prog) : ~HasToken(prog, U, q)
      BY <3>2, <2>2, <1>12
    <3>4. \A s \in BinarySems : n[s] \in {0, 1} /\ (n[s] = 1 => s = X(p))
      BY <3>2, <2>2, <1>6
    <3>5. ~(\A q \in ProcsOf(prog) : ~HasMade(prog, U, q))
      BY <3>1, <1>1, <1>12, <1>13 DEF TokenInv
    <3> QED BY <3>3, <3>4, <3>5 DEF TokenInv
  <2>3. CASE X(p) \in BinarySems /\ N(p) = -1 /\ ~k.token
    <3>1. mem[X(p)] = 1
      <4>1. mem[X(p)] \in {0, 1}
        BY <2>3, <1>13 DEF TokenInv
      <4> QED BY <4>1, <2>3
    <3>2. /\ \A s \in BinarySems : mem[s] = 1 => s = X(p)
          /\ \A q \in ProcsOf(prog) : ~HasToken(prog, ps, q)
      BY <3>1, <2>3, <1>13 DEF TokenInv
    <3>3. \A s \in BinarySems : n[s] = 0
      <4>1. \A s \in BinarySems : mem[s] \in {0, 1}
        BY <1>13 DEF TokenInv
      <4> QED BY <4>1, <3>1, <3>2, <2>3, <1>6
    <3>4. \A q \in ProcsOf(prog) : HasToken(prog, U, q) => q = p
      BY <3>2, <1>12
    <3>5. ~(\A q \in ProcsOf(prog) : ~HasMade(prog, U, q))
      BY <3>1, <2>3, <1>12, <1>13 DEF TokenInv
    <3> QED BY <3>3, <3>4, <3>5 DEF TokenInv
  <2> QED BY <2>1, <2>2, <2>3, <1>5
<1> QED BY <1>6, <1>8, <1>14 DEF Good, U, n

(* The calls on semaphores. *)
LEMMA SemaphoreInv ==
    ASSUME Disciplined, IInv, NEW p \in Procs, semaphore(p) PROVE IInv'
<1> DEFINE exists == mem["semid"] = 1
<1>1. UNCHANGED <<program, pipes, queues, tty, faults>> /\ mem \in [Vars -> Int]
  BY DEF semaphore, IInv
<1>2. PICK op \in {"semget_excl", "semget", "semctl", "semop"} : Calls(p, op)
  BY DEF semaphore
<1>3. Good(prog, Fails(ps, p), mem)
  BY <1>2, CallFails DEF Ending
<1>4. SUFFICES Good(prog, ps', mem') /\ mem' \in [Vars -> Int]
  BY <1>1, Together DEF IInv
<1>5. CASE ps' = Fails(ps, p) /\ mem' = mem
  BY <1>1, <1>3, <1>5
<1>6. CASE /\ Calls(p, "semget_excl") \/ Calls(p, "semget")
           /\ ps' = On(ps, p, 1) /\ mem' = [mem EXCEPT !["semid"] = 1]
  <2>1. PICK o \in {"semget_excl", "semget"} : Calls(p, o)
    BY <1>6
  <2>2. Good(prog, On(ps, p, 1), mem)
    BY <2>1, PlainGood DEF Ending, Marking
  <2>3. PICK v \in Vars \ BinarySems : v = "semid"
    BY <2>1, AtCall, Here DEF CallOK, ArgsOK
  <2>4. PICK x \in Int : x = 1
    OBVIOUS
  <2> QED BY <2>2, <2>3, <2>4, <1>6, PutGood
<1>7. CASE /\ Calls(p, "semctl") /\ ps' = On(ps, p, 1)
           /\ mem' = [mem EXCEPT ![X(p)] = N(p)]
  BY <1>7, SemctlGood
<1>8. CASE /\ Calls(p, "semop") /\ ps' = On(ps, p, 1)
           /\ IF N(p) = 0 THEN mem[X(p)] = 0 ELSE mem[X(p)] + N(p) >= 0
           /\ mem' = [mem EXCEPT ![X(p)] = mem[X(p)] + N(p), !["otime"] = 1]
  <2>1. mem[X(p)] + N(p) >= 0
    BY <1>8
  <2> QED BY <2>1, <1>8, SemopGood
<1>9. CASE Calls(p, "semop")
  <2>1. /\ exists => IF N(p) = 0 THEN mem[X(p)] = 0 ELSE mem[X(p)] + N(p) >= 0
        /\ ps' = IF exists THEN On(ps, p, 1) ELSE Fails(ps, p)
        /\ mem' = IF exists
                  THEN [mem EXCEPT ![X(p)] = mem[X(p)] + N(p), !["otime"] = 1]
                  ELSE mem
    BY <1>9 DEF semaphore, Calls
  <2> QED BY <2>1, <1>5, <1>8, <1>9
<1>10. CASE ~Calls(p, "semop")
  BY <1>5, <1>6, <1>7, <1>10 DEF semaphore
<1> QED BY <1>9, <1>10

-----------------------------------------------------------------------------
(* The initial states and the steps.                                       *)

(* A process that nobody forks knows that it is in no call of system(). *)
LEMMA StartedGood ==
    ASSUME Disciplined, Init, NEW p \in ProcsOf(prog)
    PROVE  /\ Local(prog, p, ps[p])
           /\ ps[p].pc = 1 /\ ps[p].st \in {"run", "none"}
           /\ ps[p].st = "run" => MarkAt(prog, p, 1) = Fresh("none")
<1>1. /\ prog \in DOMAIN Code /\ code = Code[prog] /\ Procs = ProcsOf(prog)
      /\ ps = [q \in Procs |->
                 [Started(q) EXCEPT !.st = IF q \in Forked THEN "none" ELSE @]]
  BY DEF Init, Procs, ProcsOf
<1> DEFINE st == IF p \in Forked THEN "none" ELSE "run"
           w == [Started(p) EXCEPT !.st = st]
<1>2. ps[p] = w
  BY <1>1 DEF Started
<1>3. /\ st \in {"run", "none"} /\ st \in Live \cup {"none", "zombie", "reaped"}
      /\ st = "run" => p \notin Forked
  BY DEF Live
<1> HIDE DEF st
<1>4. Dfl \in Dispositions /\ \A s \in Signals : Dfl[s] = "dfl"
  BY DEF Dfl, Dispositions, Handlings
<1>5. /\ w \in Process(prog) /\ w.pc = 1 /\ w.st = st /\ w.entry = <<>>
      /\ w.disp = Dfl /\ w.sdisp = Dfl
  BY <1>3, <1>4 DEF Started, Process, Groups
<1> HIDE DEF w
<1>6. st = "run" => MarkAt(prog, p, 1) = Fresh("none")
  <2> SUFFICES ASSUME st = "run" PROVE \A q \in ProcsOf(prog) : ~Forks(prog, q, p)
    BY <1>1, ProcRules
  <2>1. p \notin Forked
    BY <1>3
  <2>2. \A q \in ProcsOf(prog) : DOMAIN Code[prog][q] = 1..Len(Code[prog][q])
    BY <1>1, ProcRules
  <2> QED BY <2>1, <2>2, <1>1 DEF Forked, Forks, CallAt
<1>7. w.st \in Live => Knows(w, MarkAt(prog, p, 1))
  <2>1. w.st \in Live => st = "run"
    BY <1>3, <1>5 DEF Live
  <2>2. Knows(w, Fresh("none"))
    BY <1>5 DEF Knows, Fresh
  <2> QED BY <2>1, <2>2, <1>6
<1>8. 1 \in Reached(prog, p)
  BY <1>1, ProcRules
<1>9. \A s \in Signals : MayHave(prog, s, "dfl")
  BY DEF MayHave
<1>10. w.st \notin {"block", "eintr"}
  BY <1>3, <1>5
<1>11. Local(prog, p, w)
  BY <1>4, <1>5, <1>7, <1>8, <1>9, <1>10 DEF Local
<1> QED BY <1>2, <1>3, <1>5, <1>6, <1>11

(* The invariant holds at first. *)
LEMMA InitInv == ASSUME Disciplined, Init PROVE IInv
<1>1. /\ prog \in DOMAIN Code /\ code = Code[prog] /\ tty = "main" /\ faults = 0
      /\ pipes = [q \in Pipes |-> 0] /\ mem = [v \in Vars |-> 0]
      /\ queues = [q \in Queues |-> [up |-> TRUE, msgs |-> <<>>, notify |-> {}]]
  BY DEF Init
<1>2. ps \in [ProcsOf(prog) -> Process(prog)]
  <2>1. DOMAIN ps = ProcsOf(prog) /\ ps = [p \in ProcsOf(prog) |-> ps[p]]
    BY <1>1 DEF Init, Procs, ProcsOf
  <2>2. \A p \in ProcsOf(prog) : ps[p] \in Process(prog)
    BY StartedGood DEF Local
  <2> QED BY <2>1, <2>2
<1>3. ASSUME NEW p \in ProcsOf(prog)
      PROVE  /\ Local(prog, p, ps[p]) /\ Tracks(prog, ps, p)
             /\ ~HasToken(prog, ps, p) /\ ~HasMade(prog, ps, p)
  <2>1. /\ Local(prog, p, ps[p]) /\ ps[p].pc = 1 /\ ps[p].st \in {"run", "none"}
        /\ ps[p].st = "run" => MarkAt(prog, p, 1) = Fresh("none")
    BY StartedGood
  <2>2. ~MarkAt(prog, p, 1).token /\ ~MarkAt(prog, p, 1).made
    BY <1>1, ProcRules
  <2>3. Fresh("none").child = ""
    BY DEF Fresh
  <2>4. Tracks(prog, ps, p)
    BY <2>1, <2>3 DEF Tracks, Live
  <2> QED BY <2>1, <2>2, <2>4 DEF HasToken, HasMade
<1>4. TableInv(prog, ps)
  BY <1>2, <1>3 DEF TableInv
<1>5. \A s \in BinarySems : mem[s] = 0
  BY <1>1, ProcessAssumption
<1>6. TokenInv(prog, ps, mem)
  BY <1>3, <1>5 DEF TokenInv
<1>7. QueueInv(prog, queues)
  BY <1>1, ProcessAssumption DEF QueueInv
<1>8. pipes \in [Pipes -> Nat] /\ mem \in [Vars -> Int]
  BY <1>1
<1>9. tty \in Groups(prog)
  <2>1. "main" \in ProcsOf(prog)
    BY <1>1, Names
  <2> QED BY <2>1, <1>1 DEF Groups
<1>10. faults \in 0..MaxFaults
  BY <1>1, ProcessAssumption
<1> QED BY <1>1, <1>4, <1>6, <1>7, <1>8, <1>9, <1>10 DEF IInv

(* Every step keeps the invariant. *)
LEMMA NextInv == ASSUME Disciplined, IInv, [Next]_vars PROVE IInv'
<1>1. CASE UNCHANGED vars
  BY <1>1 DEF vars, program, IInv
<1>2. ASSUME NEW p \in Procs, ProcessStep(p) PROVE IInv'
  BY <1>2, DeliverInv, InterruptedInv, AlarmRingsInv, ForkInv, ExecInv, TryInv,
     ExitInv, WaitInv, MaskInv, SigactionInv, KillInv, BlockInv, AlarmInv,
     PipeInv, Dup2Inv, CloseInv, CloseAllInv, WriteInv, ReadInv, SelectInv,
     LockInv, SigwaitInv, NotificationInv, ConnectInv, AcceptInv, ShutdownInv,
     SendfdInv, QueueStepInv, SendtoInv, SetpgidInv, SetsidInv, TcsetpgrpInv,
     MemoryInv, BranchInv, SemaphoreInv, PassInv DEF ProcessStep
<1>3. ASSUME NEW p \in Procs, UserTypes(p) PROVE IInv'
  BY <1>3, UserTypesInv
<1>4. ASSUME NEW p \in Procs, Crash(p) PROVE IInv'
  BY <1>4, CrashInv
<1> QED BY <1>1, <1>2, <1>3, <1>4 DEF Next

(* The type invariant follows. *)
LEMMA TypeHolds == ASSUME Disciplined, IInv PROVE TypeOK
<1>1. /\ prog \in DOMAIN Code /\ code = Code[prog] /\ Procs = ProcsOf(prog)
      /\ TableInv(prog, ps) /\ TokenInv(prog, ps, mem) /\ QueueInv(prog, queues)
      /\ pipes \in [Pipes -> Nat] /\ mem \in [Vars -> Int]
      /\ tty \in Groups(prog) /\ faults \in 0..MaxFaults
  BY DEF IInv, Procs, ProcsOf
<1>2. ASSUME NEW p \in Procs
      PROVE  /\ ps[p].st \in Live \cup {"none", "zombie", "reaped"}
             /\ ps[p].pc \in 1..Len(code[p]) + 1
             /\ ps[p].how \in {"", "exit", "failed", "killed"}
             /\ ps[p].ppid \in Procs \cup {"shell", "init"}
             /\ {ps[p].pgid, ps[p].sid, tty} \subseteq Procs \cup {"shell"}
             /\ ps[p].mask \cup ps[p].smask \cup ps[p].pend \subseteq Signals
             /\ ps[p].fds \subseteq Pipes \X {"r", "w", "l"} \X {"pfd", "std"}
  <2>1. ps[p] \in Process(prog) /\ ps[p].pc \in Reached(prog, p)
    BY Here
  <2>2. /\ ps[p].st \in Live \cup {"none", "zombie", "reaped"}
        /\ ps[p].how \in {"", "exit", "failed", "killed"}
        /\ ps[p].ppid \in ProcsOf(prog) \cup {"shell", "init"}
        /\ ps[p].pgid \in Groups(prog) /\ ps[p].sid \in Groups(prog)
        /\ ps[p].mask \in SUBSET Signals /\ ps[p].smask \in SUBSET Signals
        /\ ps[p].pend \in SUBSET Signals /\ ps[p].fds \in SUBSET Descriptors
    BY <2>1 DEF Process
  <2>3. ps[p].pc \in 1..Len(Code[prog][p]) + 1
    BY <2>1, <1>1, ProcRules
  <2>4. ps[p].fds \subseteq Pipes \X {"r", "w", "l"} \X {"pfd", "std"}
    BY <2>2 DEF Descriptors
  <2>5. {ps[p].pgid, ps[p].sid, tty} \subseteq Procs \cup {"shell"}
    BY <2>2, <1>1 DEF Groups
  <2> QED BY <2>2, <2>3, <2>4, <2>5, <1>1
<1>3. ASSUME NEW q \in Queues
      PROVE  /\ queues[q].up \in BOOLEAN
             /\ Len(queues[q].msgs) \in 0..QueueSize[q]
             /\ queues[q].notify \subseteq Procs
  <2>1. queues[q] \in [up : BOOLEAN, msgs : Seq(Int), notify : SUBSET ProcsOf(prog)]
    BY <1>1 DEF QueueInv
  <2>2. /\ queues[q].up \in BOOLEAN /\ queues[q].msgs \in Seq(Int)
        /\ queues[q].notify \in SUBSET ProcsOf(prog)
    BY <2>1
  <2>3. QueueSize[q] \in Nat /\ Len(queues[q].msgs) <= QueueSize[q]
    BY <1>1, ProcessAssumption DEF QueueInv
  <2>4. Len(queues[q].msgs) \in Nat
    BY <2>2
  <2> QED BY <2>2, <2>3, <2>4, <1>1
<1>4. \A s \in BinarySems : mem[s] \in {0, 1}
  BY <1>1 DEF TokenInv
<1> QED BY <1>1, <1>2, <1>3, <1>4 DEF TypeOK

(* So does what is asked of system(): the mark of the place says it. *)
LEMMA TransparentHolds == ASSUME Disciplined, IInv PROVE SystemTransparent
<1> SUFFICES ASSUME NEW p \in Procs
             PROVE  /\ Calls(p, "leave") => <<ps[p].mask, ps[p].disp>> = ps[p].entry
                    /\ Calls(p, "exec") /\ ps[p].entry # <<>> =>
                         /\ ps[p].mask = ps[p].entry[1]
                         /\ \A s \in {"INT", "QUIT"} :
                              ps[p].disp[s] = IF ps[p].entry[2][s] = "ign"
                                              THEN "ign" ELSE "dfl"
                    /\ ~Calls(p, "status_lost")
  BY DEF SystemTransparent
<1> DEFINE k == MarkAt(prog, p, ps[p].pc)
           call == CallAt(prog, p, ps[p].pc)
<1>1. /\ prog \in DOMAIN Code /\ ps[p] \in Process(prog) /\ Local(prog, p, ps[p])
      /\ k \in MarkSet(prog)
      /\ ps[p].st \in Live => Knows(ps[p], k)
  BY Here
<1>2. /\ ps[p].mask \in SUBSET Signals /\ ps[p].disp \in Dispositions
      /\ ps[p].entry \in {<<>>} \cup Entries
  BY <1>1 DEF Process
<1>3. k.phase \in {"none", "in", "out"}
  BY <1>1 DEF MarkSet
<1>4. ASSUME Calls(p, "leave")
      PROVE  <<ps[p].mask, ps[p].disp>> = ps[p].entry
  <2>1. /\ ps[p].st \in Live /\ CallOK(prog, p, ps[p].pc) /\ call.op = "leave"
    BY <1>4, AtCall
  <2>2. k.phase = "in" /\ k.blocked = {} /\ k.disp = Same
    BY <2>1 DEF CallOK, SystemOK, LeaveOK
  <2>3. /\ ps[p].entry \in Entries /\ ps[p].mask = ps[p].entry[1] \cup k.blocked
        /\ \A s \in Signals :
             Became(k.disp[s], ps[p].disp[s], ps[p].entry[2][s])
    BY <2>1, <2>2, <1>1 DEF Knows
  <2> HIDE DEF k
  <2>4. \A s \in Signals : ps[p].disp[s] = ps[p].entry[2][s]
    BY <2>2, <2>3 DEF Same, Became
  <2>5. /\ ps[p].entry[2] \in Dispositions
        /\ ps[p].entry = <<ps[p].entry[1], ps[p].entry[2]>>
    BY <2>3 DEF Entries
  <2>6. ps[p].disp = ps[p].entry[2]
    BY <2>4, <2>5, <1>2 DEF Dispositions
  <2> QED BY <2>2, <2>3, <2>5, <2>6
<1>5. ASSUME Calls(p, "exec"), ps[p].entry # <<>>
      PROVE  /\ ps[p].mask = ps[p].entry[1]
             /\ \A s \in {"INT", "QUIT"} :
                  ps[p].disp[s] = IF ps[p].entry[2][s] = "ign"
                                  THEN "ign" ELSE "dfl"
  <2>1. /\ ps[p].st \in Live /\ CallOK(prog, p, ps[p].pc) /\ call.op = "exec"
    BY <1>5, AtCall
  <2>2. ExecOK(prog, k)
    BY <2>1 DEF CallOK
  <2>3. k.phase # "none"
    BY <2>1, <1>1, <1>5 DEF Knows
  <2>4. /\ k.phase = "in" /\ k.blocked = {}
        /\ \A s \in {"INT", "QUIT"} :
             \/ k.disp[s] = "reset"
             \/ /\ k.disp[s] = "same"
                /\ \A h \in Handlings : MayHave(prog, s, h) => h \in {"dfl", "ign"}
    BY <2>2, <2>3 DEF ExecOK
  <2>5. /\ ps[p].mask = ps[p].entry[1] \cup k.blocked
        /\ \A s \in Signals :
             Became(k.disp[s], ps[p].disp[s], ps[p].entry[2][s])
    BY <2>1, <2>4, <1>1 DEF Knows
  <2> HIDE DEF k
  <2>6. {"INT", "QUIT"} \subseteq Signals
    BY <1>1, Names DEF KernelSignals
  <2>7. ASSUME NEW s \in {"INT", "QUIT"}
        PROVE  ps[p].disp[s] = IF ps[p].entry[2][s] = "ign" THEN "ign" ELSE "dfl"
    <3>1. /\ s \in Signals /\ Became(k.disp[s], ps[p].disp[s], ps[p].entry[2][s])
      BY <2>5, <2>6
    <3>2. CASE k.disp[s] = "reset"
      BY <3>1, <3>2 DEF Became
    <3>3. CASE /\ k.disp[s] = "same"
               /\ \A h \in Handlings : MayHave(prog, s, h) => h \in {"dfl", "ign"}
      <4>1. MayHave(prog, s, ps[p].disp[s]) /\ ps[p].disp[s] \in Handlings
        BY <3>1, <1>1, <1>2 DEF Local, Dispositions
      <4>2. ps[p].disp[s] \in {"dfl", "ign"}
        BY <4>1, <3>3
      <4> QED BY <4>2, <3>1, <3>3 DEF Became
    <3> QED BY <3>2, <3>3, <2>4
  <2> QED BY <2>4, <2>5, <2>7
<1>6. ASSUME Calls(p, "status_lost") PROVE FALSE
  <2>1. CallOK(prog, p, ps[p].pc) /\ call.op = "status_lost"
    BY <1>6, AtCall
  <2> QED BY <2>1 DEF CallOK
<1> QED BY <1>4, <1>5, <1>6

-----------------------------------------------------------------------------
(* The theorems.                                                           *)

(* The inductive invariant: every process is where the text can bring it   *)
(* and as the mark of the place says, the child of system() is there to be *)
(* waited for, and one semaphore or one process has the token of the       *)
(* binary semaphores.                                                      *)
THEOREM Invariance == ASSUME Disciplined PROVE Spec => []IInv
<1>1. Init => IInv
  BY InitInv
<1>2. IInv /\ [Next]_vars => IInv'
  BY NextInv
<1> QED BY <1>1, <1>2, PTL DEF Spec

(* Type correctness of every disciplined program: no process goes past the *)
(* end of its code, no queue is overfull, and no semaphore of the binary   *)
(* semaphore protocol (binary_sems.c) is ever above 1.                     *)
THEOREM TypeCorrect == ASSUME Disciplined PROVE Spec => []TypeOK
<1>1. IInv => TypeOK
  BY TypeHolds
<1> QED BY <1>1, Invariance, PTL

(* system() gives its caller back the mask and the dispositions that it    *)
(* found, on every way out; the command runs with the caller's mask, and   *)
(* with SIGINT and SIGQUIT as the caller had them; and nobody else waits   *)
(* for the command.                                                        *)
THEOREM SystemIsTransparent == ASSUME Disciplined PROVE Spec => []SystemTransparent
<1>1. IInv => SystemTransparent
  BY TransparentHolds
<1> QED BY <1>1, Invariance, PTL

(* The turn of svshm_xfr_writer.c and svshm_xfr_reader.c: of the binary    *)
(* semaphores of a set at most one is available, so that the writer and    *)
(* the reader are never both let into the shared memory.                   *)
OneTurn == \A s, r \in BinarySems : mem[s] = 1 /\ mem[r] = 1 => s = r

(* Every disciplined program keeps the turn, whoever is killed and         *)
(* whichever call fails.                                                   *)
THEOREM TurnIsUnique == ASSUME Disciplined PROVE Spec => []OneTurn
<1>1. IInv => OneTurn
  BY DEF IInv, TokenInv, OneTurn
<1> QED BY <1>1, Invariance, PTL
=============================================================================
