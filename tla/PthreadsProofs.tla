--------------------------- MODULE PthreadsProofs ---------------------------
(***************************************************************************)
(* Every program that keeps the rules of module ThreadDiscipline is safe,  *)
(* for any threads, locks and variables, however its threads are           *)
(* interleaved, canceled, signaled and woken for no reason: TypeOK,        *)
(* SafeAccess and NothingLeaked of module Pthreads.                        *)
(***************************************************************************)
EXTENDS Pthreads, TLAPS

CONSTANT Signals        \* the signals of the programs

INSTANCE ThreadDiscipline

-----------------------------------------------------------------------------
(* The inductive invariant.                                                *)

Ending == {"unwind", "ended", "joined"}

Thread ==
    [st : {"none", "run", "wait", "relock", "barrier"} \cup Ending,
     pc : Nat, loc : Nat, heap : [Blocks -> Int],
     specific : Blocks \cup {""}, stack : Seq(Handlers),
     detached : BOOLEAN, pend : BOOLEAN, enabled : BOOLEAN, async : BOOLEAN,
     mask : SUBSET Signals, sigs : SUBSET Signals, spurious : Nat]

MarkAt(p, t, i) == Marks(Code[p][t])[i]

(* Blocks of one name for which there is a handler or a value of the key.  *)
Kept(w, r) == (IF r \in HandlerBlocks(w.stack) THEN 1 ELSE 0)
              + (IF r = w.specific THEN 1 ELSE 0)

(* No block and no lock has two handlers. *)
Distinct(s) ==
    \A i, j \in DOMAIN s :
        i # j => /\ s[i].block # s[j].block
                 /\ s[i].lock \in Locks => s[i].lock # s[j].lock

(* The locks and the units of semaphores of a thread. *)
Owns(p, t, w) ==
    CASE w.st \in {"run", "barrier"} -> MarkAt(p, t, w.pc).held
      [] w.st \in {"wait", "relock"} ->
           MarkAt(p, t, w.pc).held \ {Code[p][t][w.pc].x}
      [] w.st = "unwind" -> HandlerLocks(w.stack)
      [] OTHER -> {}

(* A thread is where its state says, *)
PlaceInv(p, t, w) ==
    /\ w.pc \in Positions(Code[p][t])
    /\ w.st = "none" => t # "main" /\ w.pc = 1 /\ w.specific = ""
    /\ w.st \in {"wait", "relock"} =>
         w.pc <= Len(Code[p][t]) /\ Code[p][t][w.pc].op = "cond_wait"
    /\ w.st = "barrier" =>
         w.pc <= Len(Code[p][t]) /\ Code[p][t][w.pc].op = "barrier_wait"
    /\ w.async => IsAsync(Code[p][t])
    /\ w.pend => IsCanceled(p, t)
    /\ Lends(p, t) => w.st \notin Ending /\ w.pc <= Len(Code[p][t])
    /\ w.st = "run" /\ w.pc <= Len(Code[p][t]) /\ Spends(Code[p][t], w.pc) =>
         w.loc >= 1

(* has the handlers and blocks of its mark, *)
BlockInv(p, t, w) ==
    w.st \notin Ending =>
        /\ w.stack = MarkAt(p, t, w.pc).stack
        /\ MarkAt(p, t, w.pc).novalue => w.specific = ""
        /\ \A r \in Blocks :
             w.heap[r] = MarkAt(p, t, w.pc).local[r] + Kept(w, r)

(* and leaves none of them when it ends. *)
EndInv(p, t, w) ==
    /\ w.st = "unwind" => 
         \A r \in Blocks : /\ w.heap[r] >= Kept(w, r)
                           /\ ~MayLeak(p, t, w.pc) => w.heap[r] = Kept(w, r)
    /\ w.st \in Gone =>
         \A r \in Blocks : /\ w.heap[r] >= 0
                           /\ ~MayLeak(p, t, w.pc) => w.heap[r] = 0

ThreadInv(p, t, w) ==
    /\ w \in Thread /\ PlaceInv(p, t, w) /\ Distinct(w.stack)
    /\ BlockInv(p, t, w) /\ EndInv(p, t, w)

ShapeInv ==
    /\ prog \in DOMAIN Code /\ code = Code[prog]
    /\ proc \in {"run", "exit", "failed", "killed"}
    /\ DOMAIN thr = Threads /\ thr = [t \in Threads |-> thr[t]]
    /\ mem \in [Vars -> Nat]
    /\ owner \in [Locks -> Threads \cup {NoThread}]

ThreadsInv == \A t \in Threads : ThreadInv(prog, t, thr[t])

(* A lock has the owner that the marks say, *)
LockInv == \A t \in Threads : \A m \in Locks :
              owner[m] = t <=> m \in Owns(prog, t, thr[t])

(* and a semaphore has a unit only when no thread holds it. *)
SemInv ==
    \A s \in Semaphores(prog) :
        /\ mem[s] \in {0, 1}
        /\ \A t \in Threads : s \in Owns(prog, t, thr[t]) =>
             /\ mem[s] = 0
             /\ \A u \in Threads \ {t} : s \notin Owns(prog, u, thr[u])

(* A thread runs only when its creator is past pthread_create(). *)
MadeInv ==
    /\ \A u \in Threads \ {"main"} : thr[u].st # "none" =>
         \E t \in Threads : u \in MarkAt(prog, t, thr[t].pc).made
    /\ MarkAt(prog, "main", thr["main"].pc).made = {} =>
         \A u \in Threads \ {"main"} : thr[u].st = "none"

(* What a thread is about to load and to spend is there. *)
SpendInv ==
    \A t \in Threads :
        /\ thr[t].st = "run" /\ thr[t].pc < Len(code[t])
        /\ Spends(code[t], thr[t].pc + 1)
        => mem[code[t][thr[t].pc].x] >= 1

IInv == ShapeInv /\ ThreadsInv /\ LockInv /\ SemInv /\ MadeInv /\ SpendInv

-----------------------------------------------------------------------------
(* What the rules say of one thread, of one position and of one call.      *)

(* The rules, one by one, for a thread of a program. *)
LEMMA Rules ==
    ASSUME Disciplined, NEW p \in DOMAIN Code, NEW t \in DOMAIN Code[p]
    PROVE  /\ Len(Code[p][t]) \in Nat
           /\ \A i \in Positions(Code[p][t]) :
                /\ MarkAt(p, t, i) \in MarkSet
                /\ MarkAt(p, t, i).held \subseteq Locks \cup Semaphores(p)
                /\ EndOK(p, t, i)
           /\ MarkAt(p, t, 1) = NoMark
           /\ \A i \in 1..Len(Code[p][t]) :
                /\ CallOK(p, t, i) /\ FlowOK(Code[p][t], i)
                /\ SpendOK(p, Code[p][t], i)
           /\ Lends(p, t) => LenderOK(p, t)
           /\ p \notin Racy =>
                \A u \in DOMAIN Code[p] \ {t} : Excluded(p, t, u)
  BY DEF Disciplined, ThreadOK, MarkAt

(* Locks, blocks, variables and threads have names of their own. *)
LEMMA Names ==
    ASSUME Disciplined
    PROVE  /\ "" \notin Locks /\ "" \notin Blocks /\ "" \notin Vars
           /\ Locks \cap Vars = {}
           /\ \A p \in DOMAIN Code :
                "main" \in DOMAIN Code[p] /\ "" \notin DOMAIN Code[p]
  BY DEF Disciplined

(* A call that takes one from a variable follows a load, and the load a    *)
(* jump of a test: no other call leads there.                              *)
LEMMA NoSpend ==
    ASSUME Disciplined, NEW p \in DOMAIN Code, NEW t \in DOMAIN Code[p],
           NEW i \in 1..Len(Code[p][t]), NEW j \in Successors(Code[p][t], i)
    PROVE  /\ Code[p][t][i].op # "load" /\ j <= Len(Code[p][t]) =>
                ~Spends(Code[p][t], j)
           /\ Code[p][t][i].op # "skip" /\ j < Len(Code[p][t]) =>
                ~Spends(Code[p][t], j + 1)
  <1> DEFINE c == Code[p][t]
  <1>1. /\ Len(c) \in Nat /\ j \in Positions(c)
        /\ \A k \in 1..Len(c) : SpendOK(p, c, k)
    BY Rules DEF FlowOK
  <1>2. j \in Int /\ j >= 1 /\ j <= Len(c) + 1
    BY <1>1 DEF Positions
  <1>3. ASSUME c[i].op # "load", j <= Len(c), Spends(c, j) PROVE FALSE
    <2>1. SpendOK(p, c, j)
      BY <1>1, <1>2, <1>3
    <2>2. j - 1 = i /\ c[j - 1].op = "load"
      BY <2>1, <1>3, <1>2 DEF SpendOK
    <2> QED BY <2>2, <1>3
  <1>4. ASSUME c[i].op # "skip", j < Len(c), Spends(c, j + 1) PROVE FALSE
    <2>1. SpendOK(p, c, j + 1)
      BY <1>1, <1>2, <1>4
    <2>2. (j + 1) - 1 = j
      BY <1>2
    <2>3. c[i].op = "skip"
      BY <2>1, <2>2, <1>4 DEF SpendOK
    <2> QED BY <2>3, <1>4
  <1> QED BY <1>3, <1>4

(* A thread that goes on to a successor of its call is in a place it may   *)
(* be in.                                                                  *)
LEMMA PlaceStep ==
    ASSUME Disciplined, NEW p \in DOMAIN Code, NEW t \in DOMAIN Code[p],
           NEW w \in Thread, NEW w2 \in Thread, PlaceInv(p, t, w),
           w.st \in {"run", "barrier", "relock"}, w.pc <= Len(Code[p][t]),
           w2.st = "run", w2.pc \in Successors(Code[p][t], w.pc),
           w2.async => IsAsync(Code[p][t]), w2.pend => IsCanceled(p, t),
           Code[p][t][w.pc].op = "load" => w2.loc >= 1 \/
             ~(w2.pc <= Len(Code[p][t]) /\ Spends(Code[p][t], w2.pc))
    PROVE  PlaceInv(p, t, w2)
  <1> DEFINE c == Code[p][t]
  <1>0. Len(c) \in Nat /\ w.pc \in Positions(c)
    BY Rules DEF PlaceInv
  <1>1. w.pc \in 1..Len(c)
    BY <1>0 DEF Positions
  <1>2. w2.pc \in Positions(c)
    BY <1>1, Rules DEF FlowOK
  <1>3. Lends(p, t) => w2.pc <= Len(c)
    <2>1. ASSUME Lends(p, t) PROVE w2.pc \in 1..Len(c)
      BY <2>1, <1>1, Rules DEF LenderOK
    <2> QED BY <2>1, <1>0
  <1>4. w2.pc <= Len(c) /\ Spends(c, w2.pc) => w2.loc >= 1
    BY NoSpend, <1>1
  <1> QED BY <1>2, <1>3, <1>4 DEF PlaceInv, Ending

-----------------------------------------------------------------------------
(* How a step changes one thread.  It stays within the invariant and       *)
(* forgets no thread it created, *)
Onward(p, t, w, w2) ==
    /\ ThreadInv(p, t, w2)
    /\ MarkAt(p, t, w.pc).made \subseteq MarkAt(p, t, w2.pc).made
    /\ w2.st # "none" => w.st # "none"

(* owns what it owned, *)
Keeps(p, t, w, w2) == Owns(p, t, w2) = Owns(p, t, w)

(* and does not come to a call that spends. *)
NotSpending(p, t, w, w2) ==
    /\ w2.st = "run" /\ w2.pc < Len(Code[p][t])
    /\ Spends(Code[p][t], w2.pc + 1)
    => w.st = "run" /\ w2.pc = w.pc

Mild(p, t, w, w2) ==
    Onward(p, t, w, w2) /\ Keeps(p, t, w, w2) /\ NotSpending(p, t, w, w2)

(* A thread that stays where it is. *)
LEMMA Stays ==
    ASSUME NEW p, NEW t, NEW w \in Thread, NEW w2 \in Thread,
           ThreadInv(p, t, w), w2.st = w.st, w2.pc = w.pc, w2.loc = w.loc,
           w2.heap = w.heap, w2.specific = w.specific, w2.stack = w.stack,
           w2.async => IsAsync(Code[p][t]), w2.pend => IsCanceled(p, t)
    PROVE  Mild(p, t, w, w2)
  <1>1. PlaceInv(p, t, w2)
    BY DEF ThreadInv, PlaceInv
  <1>2. \A r \in Blocks : Kept(w2, r) = Kept(w, r)
    BY DEF Kept
  <1>3. BlockInv(p, t, w2)
    BY <1>2 DEF ThreadInv, BlockInv
  <1>4. EndInv(p, t, w2)
    BY <1>2 DEF ThreadInv, EndInv
  <1>5. Distinct(w2.stack)
    BY DEF ThreadInv
  <1>6. ThreadInv(p, t, w2)
    BY <1>1, <1>3, <1>4, <1>5 DEF ThreadInv
  <1>7. Owns(p, t, w2) = Owns(p, t, w)
    BY DEF Owns
  <1> QED BY <1>6, <1>7 DEF Mild, Onward, Keeps, NotSpending

(* A thread that does nothing stays within the invariant. *)
LEMMA Unmoved ==
    ASSUME NEW p, NEW t, NEW w, ThreadInv(p, t, w)
    PROVE  Mild(p, t, w, w)
  BY Stays DEF ThreadInv, PlaceInv

(* Calls that change the mark; every other call leaves it as it is. *)
MarkedOps == {"pthread_create", "create_detached", "lock", "sem_wait",
              "unlock", "sem_post", "malloc", "getspecific", "setspecific",
              "cleanup_push", "cleanup_pop", "free"}

(* Wherever a call of the others leads, the mark is the one before it. *)
LEMMA PlainMark ==
    ASSUME Disciplined, NEW p \in DOMAIN Code, NEW t \in DOMAIN Code[p],
           NEW i \in 1..Len(Code[p][t]), Code[p][t][i].op \notin MarkedOps
    PROVE  /\ MarkAt(p, t, i + 1) = MarkAt(p, t, i)
           /\ \A j \in Successors(Code[p][t], i) :
                MarkAt(p, t, j) = MarkAt(p, t, i)
  <1> DEFINE c == Code[p][t]
  <1>1. FlowOK(c, i)
    BY Rules
  <1>2. MarkAfter(c[i], Marks(c)[i]) = Marks(c)[i]
    BY DEF MarkAfter, IsCreate, MarkedOps
  <1>3. MarkAt(p, t, i + 1) = MarkAt(p, t, i)
    BY <1>1, <1>2 DEF FlowOK, MarkAt
  <1>4. CASE c[i].op = "skip"
    BY <1>1, <1>3, <1>4 DEF FlowOK, MarkAt, Successors
  <1>5. CASE c[i].op = "jump"
    BY <1>1, <1>3, <1>5 DEF FlowOK, MarkAt, Successors
  <1>6. CASE c[i].op \notin {"skip", "jump"}
    BY <1>1, <1>3, <1>6 DEF Successors, MarkedOps
  <1> QED BY <1>3, <1>4, <1>5, <1>6

(* A thread that goes on to a position with the same mark. *)
LEMMA GoesOn ==
    ASSUME Disciplined, NEW p \in DOMAIN Code, NEW t \in DOMAIN Code[p],
           NEW w \in Thread, NEW w2 \in Thread, ThreadInv(p, t, w),
           w.st \in {"run", "barrier", "relock"}, w.pc <= Len(Code[p][t]),
           Code[p][t][w.pc].op \notin MarkedOps,
           w2.st = "run", w2.pc \in Successors(Code[p][t], w.pc),
           w2.heap = w.heap, w2.specific = w.specific, w2.stack = w.stack,
           w2.async => IsAsync(Code[p][t]), w2.pend => IsCanceled(p, t),
           Code[p][t][w.pc].op = "load" => w2.loc >= 1 \/
             ~(w2.pc <= Len(Code[p][t]) /\ Spends(Code[p][t], w2.pc))
    PROVE  /\ Onward(p, t, w, w2) /\ Owns(p, t, w2) = MarkAt(p, t, w.pc).held
           /\ w.st # "relock" => Keeps(p, t, w, w2)
           /\ Code[p][t][w.pc].op # "skip" => NotSpending(p, t, w, w2)
  <1> DEFINE c == Code[p][t]
  <1>1. w.pc \in 1..Len(c)
    <2>1. Len(c) \in Nat /\ w.pc \in Positions(c)
      BY Rules DEF ThreadInv, PlaceInv
    <2> QED BY <2>1 DEF Positions
  <1>2. PlaceInv(p, t, w2)
    BY PlaceStep DEF ThreadInv
  <1>3. MarkAt(p, t, w2.pc) = MarkAt(p, t, w.pc)
    BY <1>1, PlainMark
  <1>4. \A r \in Blocks : Kept(w2, r) = Kept(w, r)
    BY DEF Kept
  <1>5. BlockInv(p, t, w2)
    BY <1>3, <1>4 DEF ThreadInv, BlockInv, Ending
  <1>6. EndInv(p, t, w2)
    BY DEF EndInv, Gone
  <1>7. ThreadInv(p, t, w2)
    BY <1>2, <1>5, <1>6 DEF ThreadInv
  <1>8. Onward(p, t, w, w2)
    BY <1>3, <1>7 DEF Onward
  <1>9. /\ Owns(p, t, w2) = MarkAt(p, t, w.pc).held
        /\ w.st # "relock" => Keeps(p, t, w, w2)
    BY <1>3 DEF Keeps, Owns
  <1>10. c[w.pc].op # "skip" => NotSpending(p, t, w, w2)
    BY <1>1, NoSpend DEF NotSpending
  <1> QED BY <1>8, <1>9, <1>10 DEF Mild

(* A thread that ends by itself or is canceled where it may end. *)
LEMMA Finishes ==
    ASSUME Disciplined, NEW p \in DOMAIN Code, NEW t \in DOMAIN Code[p],
           NEW w \in Thread, ThreadInv(p, t, w),
           w.st \in {"run", "wait"}, MayEndAt(p, t, w.pc), ~Lends(p, t)
    PROVE  /\ Onward(p, t, w, [w EXCEPT !.st = "unwind"])
           /\ NotSpending(p, t, w, [w EXCEPT !.st = "unwind"])
           /\ Owns(p, t, [w EXCEPT !.st = "unwind"])
                = MarkAt(p, t, w.pc).held
  <1> DEFINE w2 == [w EXCEPT !.st = "unwind"]
             k == MarkAt(p, t, w.pc)
  <1>1. /\ w2 \in Thread /\ w2.st = "unwind" /\ w2.pc = w.pc
        /\ w2.heap = w.heap /\ w2.stack = w.stack /\ w2.specific = w.specific
        /\ w2.async = w.async /\ w2.pend = w.pend
    BY DEF Thread, Ending
  <1> HIDE DEF w2
  <1>2. /\ w.pc \in Positions(Code[p][t]) /\ k \in MarkSet
        /\ k.held = HandlerLocks(k.stack)
        /\ ~MayLeak(p, t, w.pc) => \A r \in Blocks : k.local[r] = 0
    BY Rules DEF ThreadInv, PlaceInv, EndOK, MarkAt
  <1>3. PlaceInv(p, t, w2)
    BY <1>1 DEF ThreadInv, PlaceInv, Ending
  <1>4. \A r \in Blocks : Kept(w2, r) = Kept(w, r) /\ Kept(w, r) \in Nat
    BY <1>1 DEF Kept
  <1>5. /\ w.stack = k.stack
        /\ \A r \in Blocks : w.heap[r] = k.local[r] + Kept(w, r)
    BY DEF ThreadInv, BlockInv, Ending
  <1>6. \A r \in Blocks : k.local[r] \in Nat
    BY <1>2 DEF MarkSet
  <1>7. EndInv(p, t, w2)
    BY <1>1, <1>2, <1>4, <1>5, <1>6 DEF EndInv, Gone
  <1>8. BlockInv(p, t, w2)
    BY <1>1 DEF BlockInv, Ending
  <1>9. ThreadInv(p, t, w2)
    BY <1>1, <1>3, <1>7, <1>8 DEF ThreadInv
  <1>10. Owns(p, t, w2) = k.held
    BY <1>1, <1>2, <1>5 DEF Owns
  <1> QED BY <1>1, <1>9, <1>10 DEF Onward, NotSpending, w2

-----------------------------------------------------------------------------
(* The stack of cleanup handlers. *)

(* To take the handler on top off the stack takes its block and its lock   *)
(* out of the sets of those that have a handler, and no other.             *)
LEMMA PopHandler ==
    ASSUME NEW s \in Seq(Handlers), s # <<>>, Distinct(s)
    PROVE  /\ Head(s) \in Handlers /\ Tail(s) \in Seq(Handlers)
           /\ Distinct(Tail(s))
           /\ Head(s).block \in HandlerBlocks(s)
           /\ HandlerBlocks(Tail(s)) = HandlerBlocks(s) \ {Head(s).block}
           /\ Head(s).lock \in Locks => Head(s).lock \in HandlerLocks(s)
           /\ HandlerLocks(Tail(s)) = HandlerLocks(s) \ {Head(s).lock}
  <1>1. /\ Len(s) \in Nat \ {0} /\ DOMAIN s = 1..Len(s)
        /\ \A i \in 1..Len(s) : s[i] \in Handlers
    OBVIOUS
  <1>2. /\ Tail(s) \in Seq(Handlers) /\ Len(Tail(s)) = Len(s) - 1
        /\ \A i \in 1..Len(s) - 1 : Tail(s)[i] = s[i + 1]
        /\ DOMAIN Tail(s) = 1..Len(s) - 1
    OBVIOUS
  <1>3. Head(s) = s[1] /\ 1 \in 1..Len(s)
    BY <1>1
  <1>4. Distinct(Tail(s))
    <2>1. \A i \in 1..Len(s) - 1 : i + 1 \in 1..Len(s)
      BY <1>1
    <2>2. \A i, j \in 1..Len(s) - 1 : i # j => i + 1 # j + 1
      OBVIOUS
    <2> QED BY <2>1, <2>2, <1>1, <1>2 DEF Distinct
  <1>5. ASSUME NEW i \in 1..Len(s) - 1
        PROVE  /\ Tail(s)[i].block # s[1].block
               /\ s[1].lock \in Locks => Tail(s)[i].lock # s[1].lock
               /\ \E j \in 1..Len(s) : Tail(s)[i] = s[j]
    <2>1. i + 1 \in 1..Len(s) /\ i + 1 # 1
      BY <1>1
    <2> QED BY <2>1, <1>1, <1>2 DEF Distinct
  <1>6. ASSUME NEW j \in 1..Len(s), j # 1
        PROVE  \E i \in 1..Len(s) - 1 : Tail(s)[i] = s[j]
    <2>1. j - 1 \in 1..Len(s) - 1 /\ (j - 1) + 1 = j
      BY <1>1, <1>6
    <2> QED BY <2>1, <1>2
  <1>7. HandlerBlocks(Tail(s)) = HandlerBlocks(s) \ {s[1].block}
    <2>1. ASSUME NEW b \in HandlerBlocks(Tail(s))
          PROVE  b \in HandlerBlocks(s) \ {s[1].block}
      BY <1>1, <1>2, <1>5 DEF HandlerBlocks
    <2>2. ASSUME NEW b \in HandlerBlocks(s), b # s[1].block
          PROVE  b \in HandlerBlocks(Tail(s))
      <3>1. PICK j \in 1..Len(s) : b = s[j].block
        BY <1>1 DEF HandlerBlocks
      <3>2. PICK i \in 1..Len(s) - 1 : Tail(s)[i] = s[j]
        BY <3>1, <2>2, <1>6
      <3> QED BY <3>1, <3>2, <1>2 DEF HandlerBlocks
    <2> QED BY <2>1, <2>2
  <1>8. HandlerLocks(Tail(s)) = HandlerLocks(s) \ {s[1].lock}
    <2>1. ASSUME NEW b \in HandlerLocks(Tail(s))
          PROVE  b \in HandlerLocks(s) \ {s[1].lock}
      BY <1>1, <1>2, <1>5 DEF HandlerLocks
    <2>2. ASSUME NEW b \in HandlerLocks(s), b # s[1].lock
          PROVE  b \in HandlerLocks(Tail(s))
      <3>1. PICK j \in 1..Len(s) : b = s[j].lock
        BY <1>1 DEF HandlerLocks
      <3>2. PICK i \in 1..Len(s) - 1 : Tail(s)[i] = s[j]
        BY <3>1, <2>2, <1>6
      <3> QED BY <2>2, <3>1, <3>2, <1>2 DEF HandlerLocks
    <2> QED BY <2>1, <2>2
  <1>9. /\ s[1].block \in HandlerBlocks(s)
        /\ s[1].lock \in Locks => s[1].lock \in HandlerLocks(s)
    BY <1>1, <1>3 DEF HandlerBlocks, HandlerLocks
  <1> QED BY <1>1, <1>2, <1>3, <1>4, <1>7, <1>8, <1>9

(* A handler for a block and a lock that have none keeps the stack without *)
(* doubles.                                                                *)
LEMMA PushHandler ==
    ASSUME NEW s \in Seq(Handlers), NEW h \in Handlers, Distinct(s),
           h.block \notin HandlerBlocks(s), h.lock \notin HandlerLocks(s)
    PROVE  /\ <<h>> \o s \in Seq(Handlers) /\ Distinct(<<h>> \o s)
           /\ HandlerBlocks(<<h>> \o s) = HandlerBlocks(s) \cup {h.block}
  <1> DEFINE q == <<h>> \o s
  <1>1. /\ Len(s) \in Nat /\ DOMAIN s = 1..Len(s)
        /\ \A i \in 1..Len(s) : s[i] \in Handlers
    OBVIOUS
  <1>2. /\ q \in Seq(Handlers) /\ Len(q) = Len(s) + 1
        /\ q[1] = h /\ DOMAIN q = 1..Len(s) + 1
        /\ \A i \in 1..Len(s) + 1 : i # 1 => q[i] = s[i - 1]
    OBVIOUS
  <1> HIDE DEF q
  <1>3. \A i \in 1..Len(s) + 1 : i # 1 => i - 1 \in 1..Len(s)
    BY <1>1
  <1>4. \A i \in 1..Len(s) : /\ s[i].block # h.block
                             /\ h.lock \in Locks => s[i].lock # h.lock
    BY <1>1 DEF HandlerBlocks, HandlerLocks
  <1>5. Distinct(q)
    <2> SUFFICES ASSUME NEW i \in 1..Len(s) + 1, NEW j \in 1..Len(s) + 1,
                        i # j
                 PROVE  /\ q[i].block # q[j].block
                        /\ q[i].lock \in Locks => q[i].lock # q[j].lock
      BY <1>2 DEF Distinct
    <2>1. CASE i = 1
      <3>1. q[j] = s[j - 1] /\ j - 1 \in 1..Len(s)
        BY <2>1, <1>2, <1>3
      <3> QED BY <2>1, <3>1, <1>2, <1>4
    <2>2. CASE j = 1
      <3>1. q[i] = s[i - 1] /\ i - 1 \in 1..Len(s)
        BY <2>2, <1>2, <1>3
      <3> QED BY <2>2, <3>1, <1>2, <1>4
    <2>3. CASE i # 1 /\ j # 1
      <3>1. /\ q[i] = s[i - 1] /\ i - 1 \in 1..Len(s)
            /\ q[j] = s[j - 1] /\ j - 1 \in 1..Len(s) /\ i - 1 # j - 1
        BY <2>3, <1>2, <1>3
      <3> QED BY <3>1, <1>1 DEF Distinct
    <2> QED BY <2>1, <2>2, <2>3
  <1>6. \A i \in 1..Len(s) : i + 1 \in 1..Len(s) + 1 /\ q[i + 1] = s[i]
    <2> TAKE i \in 1..Len(s)
    <2>1. i + 1 \in 1..Len(s) + 1 /\ i + 1 # 1 /\ (i + 1) - 1 = i
      BY <1>1
    <2> QED BY <2>1, <1>2
  <1>7. 1 \in 1..Len(s) + 1
    BY <1>1
  <1>8. HandlerBlocks(q) = HandlerBlocks(s) \cup {h.block}
    <2>1. ASSUME NEW b \in HandlerBlocks(q)
          PROVE  b \in HandlerBlocks(s) \cup {h.block}
      BY <1>1, <1>2, <1>3 DEF HandlerBlocks
    <2>2. ASSUME NEW b \in HandlerBlocks(s) PROVE b \in HandlerBlocks(q)
      <3>1. PICK i \in 1..Len(s) : b = s[i].block
        BY <1>1 DEF HandlerBlocks
      <3> QED BY <3>1, <1>6, <1>2 DEF HandlerBlocks
    <2>3. h.block \in HandlerBlocks(q)
      BY <1>2, <1>7 DEF HandlerBlocks
    <2> QED BY <2>1, <2>2, <2>3
  <1> QED BY <1>2, <1>5, <1>8 DEF q

-----------------------------------------------------------------------------
(* The calls that change the mark.  What all of them leave to show is that *)
(* the thread has the handlers, the blocks and the locks of its next mark. *)

(* What such a call has in common with the others: the place after it, and *)
(* what the marks before and after it say.                                 *)
LEMMA Marked ==
    ASSUME Disciplined, NEW p \in DOMAIN Code, NEW t \in DOMAIN Code[p],
           NEW w \in Thread, NEW w2 \in Thread, ThreadInv(p, t, w),
           w.st = "run", w.pc <= Len(Code[p][t]),
           Code[p][t][w.pc].op \in MarkedOps,
           w2.st = "run", w2.pc \in Successors(Code[p][t], w.pc),
           w2.async = w.async, w2.pend = w.pend
    PROVE  /\ PlaceInv(p, t, w2) /\ EndInv(p, t, w2)
           /\ NotSpending(p, t, w, w2)
           /\ w.pc \in 1..Len(Code[p][t]) /\ CallOK(p, t, w.pc)
           /\ MarkAt(p, t, w.pc) \in MarkSet /\ MarkAt(p, t, w2.pc) \in MarkSet
           /\ w2.pc = w.pc + 1 =>
                MarkAt(p, t, w2.pc)
                  = MarkAfter(Code[p][t][w.pc], MarkAt(p, t, w.pc))
           /\ w.stack = MarkAt(p, t, w.pc).stack
           /\ MarkAt(p, t, w.pc).novalue => w.specific = ""
           /\ \A r \in Blocks :
                w.heap[r] = MarkAt(p, t, w.pc).local[r] + Kept(w, r)
           /\ Owns(p, t, w) = MarkAt(p, t, w.pc).held
           /\ Owns(p, t, w2) = MarkAt(p, t, w2.pc).held
  <1> DEFINE c == Code[p][t]
  <1>1. Len(c) \in Nat /\ w.pc \in Positions(c)
    BY Rules DEF ThreadInv, PlaceInv
  <1>2. w.pc \in 1..Len(c)
    BY <1>1 DEF Positions
  <1>3. PlaceInv(p, t, w2)
    BY PlaceStep DEF ThreadInv, PlaceInv, MarkedOps
  <1>4. EndInv(p, t, w2)
    BY DEF EndInv, Gone
  <1>5. NotSpending(p, t, w, w2)
    BY <1>2, NoSpend DEF NotSpending, MarkedOps
  <1>6. /\ CallOK(p, t, w.pc) /\ FlowOK(c, w.pc)
        /\ MarkAt(p, t, w.pc) \in MarkSet /\ MarkAt(p, t, w2.pc) \in MarkSet
    <2>1. w2.pc \in Positions(c)
      BY <1>3 DEF PlaceInv
    <2> QED BY <1>1, <1>2, <2>1, Rules
  <1>7. w2.pc = w.pc + 1 =>
          MarkAt(p, t, w2.pc) = MarkAfter(c[w.pc], MarkAt(p, t, w.pc))
    BY <1>6 DEF FlowOK, MarkAt
  <1>8. /\ w.stack = MarkAt(p, t, w.pc).stack
        /\ MarkAt(p, t, w.pc).novalue => w.specific = ""
        /\ \A r \in Blocks :
             w.heap[r] = MarkAt(p, t, w.pc).local[r] + Kept(w, r)
    BY DEF ThreadInv, BlockInv, Ending
  <1>9. /\ Owns(p, t, w) = MarkAt(p, t, w.pc).held
        /\ Owns(p, t, w2) = MarkAt(p, t, w2.pc).held
    BY DEF Owns
  <1> QED BY <1>2, <1>3, <1>4, <1>5, <1>6, <1>7, <1>8, <1>9

(* The thread record with another program counter. *)
LEMMA NextPc ==
    ASSUME NEW w \in Thread
    PROVE  LET w2 == [w EXCEPT !.pc = @ + 1]
           IN  /\ w2 \in Thread /\ w2.st = w.st /\ w2.pc = w.pc + 1
               /\ w2.stack = w.stack /\ w2.heap = w.heap
               /\ w2.specific = w.specific /\ w2.async = w.async
               /\ w2.pend = w.pend /\ w2.loc = w.loc
  <1>0. w.pc \in Nat
    BY DEF Thread
  <1>1. w.pc + 1 \in Nat
    BY <1>0
  <1> QED BY <1>1 DEF Thread

(* Only the call of a function that jumps has another successor. *)
LEMMA OneSuccessor ==
    ASSUME NEW c, NEW i, c[i].op \in MarkedOps
    PROVE  i + 1 \in Successors(c, i)
  BY DEF Successors, MarkedOps

(* pthread_create(), as the creator sees it. *)
LEMMA Creates ==
    ASSUME Disciplined, NEW p \in DOMAIN Code, NEW t \in DOMAIN Code[p],
           NEW w \in Thread, ThreadInv(p, t, w),
           w.st = "run", w.pc <= Len(Code[p][t]),
           IsCreate(Code[p][t][w.pc])
    PROVE  LET w2 == [w EXCEPT !.pc = @ + 1]
           IN  /\ Mild(p, t, w, w2)
               /\ MarkAt(p, t, w2.pc).made
                    = MarkAt(p, t, w.pc).made \cup {Code[p][t][w.pc].x}
  <1> DEFINE w2 == [w EXCEPT !.pc = @ + 1]
             c == Code[p][t]
             k == MarkAt(p, t, w.pc)
             k2 == MarkAt(p, t, w2.pc)
  <1>1. c[w.pc].op \in MarkedOps
    BY DEF IsCreate, MarkedOps
  <1>2. /\ w2 \in Thread /\ w2.st = "run" /\ w2.pc = w.pc + 1
        /\ w2.stack = w.stack /\ w2.heap = w.heap
        /\ w2.specific = w.specific /\ w2.async = w.async /\ w2.pend = w.pend
    BY NextPc
  <1> HIDE DEF w2
  <1>3. w2.pc \in Successors(c, w.pc)
    BY <1>1, <1>2, OneSuccessor
  <1>4. /\ PlaceInv(p, t, w2) /\ EndInv(p, t, w2) /\ NotSpending(p, t, w, w2)
        /\ k \in MarkSet /\ k2 = MarkAfter(c[w.pc], k)
        /\ w.stack = k.stack /\ (k.novalue => w.specific = "")
        /\ \A r \in Blocks : w.heap[r] = k.local[r] + Kept(w, r)
        /\ Owns(p, t, w) = k.held /\ Owns(p, t, w2) = k2.held
    BY <1>1, <1>2, <1>3, Marked
  <1> HIDE DEF k, k2
  <1>5. k2 = [k EXCEPT !.made = @ \cup {c[w.pc].x}]
    BY <1>4 DEF MarkAfter, IsCreate
  <1>6. /\ k2.held = k.held /\ k2.stack = k.stack /\ k2.local = k.local
        /\ k2.novalue = k.novalue /\ k2.made = k.made \cup {c[w.pc].x}
    BY <1>4, <1>5 DEF MarkSet
  <1>7. \A r \in Blocks : Kept(w2, r) = Kept(w, r)
    BY <1>2 DEF Kept
  <1>8. BlockInv(p, t, w2)
    BY <1>2, <1>4, <1>6, <1>7 DEF BlockInv, k2
  <1>9. ThreadInv(p, t, w2)
    BY <1>2, <1>4, <1>8 DEF ThreadInv
  <1>10. Onward(p, t, w, w2)
    BY <1>2, <1>6, <1>9 DEF Onward, k, k2
  <1> QED BY <1>4, <1>6, <1>10 DEF Mild, Keeps, k, k2, w2

(* Taking and giving back a lock or a unit of a semaphore. *)
LEMMA Holds ==
    ASSUME Disciplined, NEW p \in DOMAIN Code, NEW t \in DOMAIN Code[p],
           NEW w \in Thread, ThreadInv(p, t, w),
           w.st = "run", w.pc <= Len(Code[p][t]),
           Code[p][t][w.pc].op \in {"lock", "sem_wait", "unlock", "sem_post"}
    PROVE  LET w2 == [w EXCEPT !.pc = @ + 1]
               call == Code[p][t][w.pc]
           IN  /\ Onward(p, t, w, w2) /\ NotSpending(p, t, w, w2)
               /\ call.op \in {"lock", "sem_wait"} =>
                    Owns(p, t, w2) = Owns(p, t, w) \cup {call.x}
               /\ call.op \in {"unlock", "sem_post"} =>
                    Owns(p, t, w2) = Owns(p, t, w) \ {call.x}
  <1> DEFINE w2 == [w EXCEPT !.pc = @ + 1]
             c == Code[p][t]
             k == MarkAt(p, t, w.pc)
             k2 == MarkAt(p, t, w2.pc)
  <1>1. c[w.pc].op \in MarkedOps
    BY DEF MarkedOps
  <1>2. /\ w2 \in Thread /\ w2.st = "run" /\ w2.pc = w.pc + 1
        /\ w2.stack = w.stack /\ w2.heap = w.heap
        /\ w2.specific = w.specific /\ w2.async = w.async /\ w2.pend = w.pend
    BY NextPc
  <1> HIDE DEF w2
  <1>3. w2.pc \in Successors(c, w.pc)
    BY <1>1, <1>2, OneSuccessor
  <1>4. /\ PlaceInv(p, t, w2) /\ EndInv(p, t, w2) /\ NotSpending(p, t, w, w2)
        /\ k \in MarkSet /\ k2 = MarkAfter(c[w.pc], k)
        /\ w.stack = k.stack /\ (k.novalue => w.specific = "")
        /\ \A r \in Blocks : w.heap[r] = k.local[r] + Kept(w, r)
        /\ Owns(p, t, w) = k.held /\ Owns(p, t, w2) = k2.held
    BY <1>1, <1>2, <1>3, Marked
  <1> HIDE DEF k, k2
  <1>5. k2 = IF c[w.pc].op \in {"lock", "sem_wait"}
             THEN [k EXCEPT !.held = @ \cup {c[w.pc].x}]
             ELSE [k EXCEPT !.held = @ \ {c[w.pc].x}]
    BY <1>4 DEF MarkAfter, IsCreate
  <1>6. /\ k2.stack = k.stack /\ k2.local = k.local
        /\ k2.novalue = k.novalue /\ k2.made = k.made
        /\ k2.held = IF c[w.pc].op \in {"lock", "sem_wait"}
                     THEN k.held \cup {c[w.pc].x} ELSE k.held \ {c[w.pc].x}
    BY <1>4, <1>5 DEF MarkSet
  <1>7. \A r \in Blocks : Kept(w2, r) = Kept(w, r)
    BY <1>2 DEF Kept
  <1>8. BlockInv(p, t, w2)
    BY <1>2, <1>4, <1>6, <1>7 DEF BlockInv, k2
  <1>9. ThreadInv(p, t, w2)
    BY <1>2, <1>4, <1>8 DEF ThreadInv
  <1>10. Onward(p, t, w, w2)
    BY <1>2, <1>6, <1>9 DEF Onward, k, k2
  <1> QED BY <1>4, <1>6, <1>10 DEF w2

(* malloc(): a block that only a local variable knows. *)
LEMMA Allocates ==
    ASSUME Disciplined, NEW p \in DOMAIN Code, NEW t \in DOMAIN Code[p],
           NEW w \in Thread, NEW w2 \in Thread, ThreadInv(p, t, w),
           w.st = "run", w.pc <= Len(Code[p][t]),
           Code[p][t][w.pc].op = "malloc",
           w2.st = "run", w2.pc = w.pc + 1, w2.stack = w.stack,
           \A r \in Blocks : w2.heap[r] = w.heap[r]
             + (IF r = Code[p][t][w.pc].x THEN 1 ELSE 0),
           w2.specific = w.specific, w2.async = w.async, w2.pend = w.pend
    PROVE  Mild(p, t, w, w2)
  <1> DEFINE c == Code[p][t]
             k == MarkAt(p, t, w.pc)
             k2 == MarkAt(p, t, w2.pc)
  <1>1. c[w.pc].op \in MarkedOps /\ w2.pc \in Successors(c, w.pc)
    BY OneSuccessor DEF MarkedOps
  <1>2. /\ PlaceInv(p, t, w2) /\ EndInv(p, t, w2) /\ NotSpending(p, t, w, w2)
        /\ k \in MarkSet /\ k2 = MarkAfter(c[w.pc], k) /\ CallOK(p, t, w.pc)
        /\ w.stack = k.stack /\ (k.novalue => w.specific = "")
        /\ \A r \in Blocks : w.heap[r] = k.local[r] + Kept(w, r)
        /\ Owns(p, t, w) = k.held /\ Owns(p, t, w2) = k2.held
    BY <1>1, Marked
  <1> HIDE DEF k, k2
  <1>3. c[w.pc].x \in Blocks
    BY <1>2 DEF CallOK
  <1>4. k2 = [k EXCEPT !.local[c[w.pc].x] = @ + 1]
    BY <1>2 DEF MarkAfter, IsCreate
  <1>5. /\ k2.held = k.held /\ k2.stack = k.stack /\ k2.novalue = k.novalue
        /\ k2.made = k.made /\ k2.local = [k.local EXCEPT ![c[w.pc].x] = @ + 1]
    BY <1>2, <1>4 DEF MarkSet
  <1>6. k.local \in [Blocks -> Nat] /\ w.heap \in [Blocks -> Int]
    BY <1>2 DEF MarkSet, Thread
  <1>7. \A r \in Blocks : Kept(w2, r) = Kept(w, r) /\ Kept(w, r) \in Nat
    BY DEF Kept
  <1>8. \A r \in Blocks : w2.heap[r] = k2.local[r] + Kept(w2, r)
    <2> TAKE r \in Blocks
    <2> DEFINE d == IF r = c[w.pc].x THEN 1 ELSE 0
    <2>1. k2.local[r] = k.local[r] + d /\ w2.heap[r] = w.heap[r] + d
      BY <1>3, <1>5, <1>6
    <2>2. k.local[r] \in Int /\ d \in Int
      BY <1>6
    <2> HIDE DEF d
    <2>3. w.heap[r] = k.local[r] + Kept(w, r)
      BY <1>2
    <2>4. Kept(w, r) \in Int /\ Kept(w2, r) = Kept(w, r)
      BY <1>7
    <2> QED BY <2>1, <2>2, <2>3, <2>4
  <1>9. BlockInv(p, t, w2)
    BY <1>2, <1>5, <1>8 DEF BlockInv, k2
  <1>10. ThreadInv(p, t, w2)
    BY <1>2, <1>9 DEF ThreadInv
  <1> QED BY <1>2, <1>5, <1>10 DEF Mild, Onward, Keeps, k, k2

(* free() of a block that only a local variable knows. *)
LEMMA Frees ==
    ASSUME Disciplined, NEW p \in DOMAIN Code, NEW t \in DOMAIN Code[p],
           NEW w \in Thread, NEW w2 \in Thread, ThreadInv(p, t, w),
           w.st = "run", w.pc <= Len(Code[p][t]),
           Code[p][t][w.pc].op = "free",
           w2.st = "run", w2.pc = w.pc + 1, w2.stack = w.stack,
           \A r \in Blocks : w2.heap[r] = w.heap[r]
             - (IF r = Code[p][t][w.pc].x THEN 1 ELSE 0),
           w2.specific = w.specific, w2.async = w.async, w2.pend = w.pend
    PROVE  Mild(p, t, w, w2)
  <1> DEFINE c == Code[p][t]
             k == MarkAt(p, t, w.pc)
             k2 == MarkAt(p, t, w2.pc)
  <1>1. c[w.pc].op \in MarkedOps /\ w2.pc \in Successors(c, w.pc)
    BY OneSuccessor DEF MarkedOps
  <1>2. /\ PlaceInv(p, t, w2) /\ EndInv(p, t, w2) /\ NotSpending(p, t, w, w2)
        /\ k \in MarkSet /\ k2 = MarkAfter(c[w.pc], k) /\ CallOK(p, t, w.pc)
        /\ w.stack = k.stack /\ (k.novalue => w.specific = "")
        /\ \A r \in Blocks : w.heap[r] = k.local[r] + Kept(w, r)
        /\ Owns(p, t, w) = k.held /\ Owns(p, t, w2) = k2.held
    BY <1>1, Marked
  <1> HIDE DEF k, k2
  <1>3. c[w.pc].x \in Blocks
    BY <1>2 DEF CallOK
  <1>4. k2 = [k EXCEPT !.local[c[w.pc].x] = @ - 1]
    BY <1>2 DEF MarkAfter, IsCreate
  <1>5. /\ k2.held = k.held /\ k2.stack = k.stack /\ k2.novalue = k.novalue
        /\ k2.made = k.made /\ k2.local = [k.local EXCEPT ![c[w.pc].x] = @ - 1]
    BY <1>2, <1>4 DEF MarkSet
  <1>6. k.local \in [Blocks -> Nat] /\ w.heap \in [Blocks -> Int]
    BY <1>2 DEF MarkSet, Thread
  <1>7. \A r \in Blocks : Kept(w2, r) = Kept(w, r) /\ Kept(w, r) \in Nat
    BY DEF Kept
  <1>8. \A r \in Blocks : w2.heap[r] = k2.local[r] + Kept(w2, r)
    <2> TAKE r \in Blocks
    <2> DEFINE d == IF r = c[w.pc].x THEN 1 ELSE 0
    <2>1. k.local[r] \in Int /\ d \in Int
      BY <1>6
    <2>2. k2.local[r] = k.local[r] - d /\ w2.heap[r] = w.heap[r] - d
      <3>1. k2.local[r] = IF r = c[w.pc].x THEN k.local[r] - 1 ELSE k.local[r]
        BY <1>5, <1>6
      <3> QED BY <3>1, <2>1
    <2> HIDE DEF d
    <2>3. w.heap[r] = k.local[r] + Kept(w, r)
      BY <1>2
    <2>4. Kept(w, r) \in Int /\ Kept(w2, r) = Kept(w, r)
      BY <1>7
    <2> QED BY <2>1, <2>2, <2>3, <2>4
  <1>9. BlockInv(p, t, w2)
    BY <1>2, <1>5, <1>8 DEF BlockInv, k2
  <1>10. ThreadInv(p, t, w2)
    BY <1>2, <1>9 DEF ThreadInv
  <1> QED BY <1>2, <1>5, <1>10 DEF Mild, Onward, Keeps, k, k2

(* pthread_getspecific(), when there is no value and when there is one. *)
LEMMA GetsSpecific ==
    ASSUME Disciplined, NEW p \in DOMAIN Code, NEW t \in DOMAIN Code[p],
           NEW w \in Thread, NEW w2 \in Thread, ThreadInv(p, t, w),
           w.st = "run", w.pc <= Len(Code[p][t]),
           Code[p][t][w.pc].op = "getspecific",
           w2.st = "run", w2.stack = w.stack, w2.heap = w.heap,
           w2.specific = w.specific, w2.async = w.async, w2.pend = w.pend,
           w2.pc = w.pc + (IF w.specific = "" THEN 1 ELSE Code[p][t][w.pc].n)
    PROVE  Mild(p, t, w, w2)
  <1> DEFINE c == Code[p][t]
             k == MarkAt(p, t, w.pc)
             k2 == MarkAt(p, t, w2.pc)
  <1>1. c[w.pc].op \in MarkedOps /\ w2.pc \in Successors(c, w.pc)
    BY DEF MarkedOps, Successors
  <1>2. /\ PlaceInv(p, t, w2) /\ EndInv(p, t, w2) /\ NotSpending(p, t, w, w2)
        /\ k \in MarkSet /\ (w2.pc = w.pc + 1 => k2 = MarkAfter(c[w.pc], k))
        /\ w.pc \in 1..Len(c)
        /\ w.stack = k.stack /\ (k.novalue => w.specific = "")
        /\ \A r \in Blocks : w.heap[r] = k.local[r] + Kept(w, r)
        /\ Owns(p, t, w) = k.held /\ Owns(p, t, w2) = k2.held
    BY <1>1, Marked
  <1>3. w.specific # "" => k2 = [k EXCEPT !.novalue = FALSE]
    <2>1. FlowOK(c, w.pc)
      BY <1>2, Rules
    <2> QED BY <2>1 DEF FlowOK, MarkAt
  <1> HIDE DEF k, k2
  <1>4. w.specific = "" => k2 = [k EXCEPT !.novalue = TRUE]
    BY <1>2 DEF MarkAfter, IsCreate
  <1>5. /\ k2.held = k.held /\ k2.stack = k.stack /\ k2.made = k.made
        /\ k2.local = k.local /\ (k2.novalue => w.specific = "")
    BY <1>2, <1>3, <1>4 DEF MarkSet
  <1>6. \A r \in Blocks : Kept(w2, r) = Kept(w, r)
    BY DEF Kept
  <1>7. BlockInv(p, t, w2)
    BY <1>2, <1>5, <1>6 DEF BlockInv, k2
  <1>8. ThreadInv(p, t, w2)
    BY <1>2, <1>7 DEF ThreadInv
  <1> QED BY <1>2, <1>5, <1>8 DEF Mild, Onward, Keeps, k, k2

(* pthread_setspecific(): the key keeps the block. *)
LEMMA SetsSpecific ==
    ASSUME Disciplined, NEW p \in DOMAIN Code, NEW t \in DOMAIN Code[p],
           NEW w \in Thread, NEW w2 \in Thread, ThreadInv(p, t, w),
           w.st = "run", w.pc <= Len(Code[p][t]),
           Code[p][t][w.pc].op = "setspecific",
           w2.st = "run", w2.pc = w.pc + 1, w2.stack = w.stack,
           w2.heap = w.heap, w2.specific = Code[p][t][w.pc].x,
           w2.async = w.async, w2.pend = w.pend
    PROVE  Mild(p, t, w, w2)
  <1> DEFINE c == Code[p][t]
             k == MarkAt(p, t, w.pc)
             k2 == MarkAt(p, t, w2.pc)
  <1>1. c[w.pc].op \in MarkedOps /\ w2.pc \in Successors(c, w.pc)
    BY OneSuccessor DEF MarkedOps
  <1>2. /\ PlaceInv(p, t, w2) /\ EndInv(p, t, w2) /\ NotSpending(p, t, w, w2)
        /\ k \in MarkSet /\ k2 = MarkAfter(c[w.pc], k) /\ CallOK(p, t, w.pc)
        /\ w.stack = k.stack /\ (k.novalue => w.specific = "")
        /\ \A r \in Blocks : w.heap[r] = k.local[r] + Kept(w, r)
        /\ Owns(p, t, w) = k.held /\ Owns(p, t, w2) = k2.held
    BY <1>1, Marked
  <1> HIDE DEF k, k2
  <1>3. c[w.pc].x \in Blocks /\ w.specific = "" /\ "" \notin Blocks
    BY <1>2, Names DEF CallOK, MarkAt, k
  <1>4. k2 = [k EXCEPT !.novalue = FALSE, !.local[c[w.pc].x] = @ - 1]
    BY <1>2 DEF MarkAfter, IsCreate
  <1>5. /\ k2.held = k.held /\ k2.stack = k.stack /\ k2.novalue = FALSE
        /\ k2.made = k.made /\ k2.local = [k.local EXCEPT ![c[w.pc].x] = @ - 1]
    BY <1>2, <1>4 DEF MarkSet
  <1>6. k.local \in [Blocks -> Nat] /\ w.heap \in [Blocks -> Int]
    BY <1>2 DEF MarkSet, Thread
  <1>7. \A r \in Blocks :
          /\ Kept(w, r) \in Nat
          /\ Kept(w2, r) = Kept(w, r) + (IF r = c[w.pc].x THEN 1 ELSE 0)
    <2> TAKE r \in Blocks
    <2>1. r # w.specific
      BY <1>3
    <2> QED BY <2>1 DEF Kept
  <1>8. \A r \in Blocks : w2.heap[r] = k2.local[r] + Kept(w2, r)
    <2> TAKE r \in Blocks
    <2> DEFINE d == IF r = c[w.pc].x THEN 1 ELSE 0
    <2>1. k.local[r] \in Int /\ d \in Int
      BY <1>6
    <2>2. k2.local[r] = k.local[r] - d
      <3>1. k2.local[r] = IF r = c[w.pc].x THEN k.local[r] - 1 ELSE k.local[r]
        BY <1>5, <1>6
      <3> QED BY <3>1, <2>1
    <2>3. Kept(w, r) \in Int /\ Kept(w2, r) = Kept(w, r) + d
      BY <1>7
    <2> HIDE DEF d
    <2>4. w.heap[r] = k.local[r] + Kept(w, r)
      BY <1>2
    <2> QED BY <2>1, <2>2, <2>3, <2>4
  <1>9. BlockInv(p, t, w2)
    BY <1>2, <1>5, <1>8 DEF BlockInv, k2
  <1>10. ThreadInv(p, t, w2)
    BY <1>2, <1>9 DEF ThreadInv
  <1> QED BY <1>2, <1>5, <1>10 DEF Mild, Onward, Keeps, k, k2

(* pthread_cleanup_push(): the handler keeps the block. *)
LEMMA Pushes ==
    ASSUME Disciplined, NEW p \in DOMAIN Code, NEW t \in DOMAIN Code[p],
           NEW w \in Thread, NEW w2 \in Thread, ThreadInv(p, t, w),
           w.st = "run", w.pc <= Len(Code[p][t]),
           Code[p][t][w.pc].op = "cleanup_push",
           w2.st = "run", w2.pc = w.pc + 1, w2.heap = w.heap,
           w2.stack = <<[block |-> Code[p][t][w.pc].x,
                         lock |-> Code[p][t][w.pc].n]>> \o w.stack,
           w2.specific = w.specific, w2.async = w.async, w2.pend = w.pend
    PROVE  Mild(p, t, w, w2)
  <1> DEFINE c == Code[p][t]
             k == MarkAt(p, t, w.pc)
             k2 == MarkAt(p, t, w2.pc)
             h == [block |-> c[w.pc].x, lock |-> c[w.pc].n]
  <1>1. c[w.pc].op \in MarkedOps /\ w2.pc \in Successors(c, w.pc)
    BY OneSuccessor DEF MarkedOps
  <1>2. /\ PlaceInv(p, t, w2) /\ EndInv(p, t, w2) /\ NotSpending(p, t, w, w2)
        /\ k \in MarkSet /\ k2 = MarkAfter(c[w.pc], k) /\ CallOK(p, t, w.pc)
        /\ w.stack = k.stack /\ (k.novalue => w.specific = "")
        /\ \A r \in Blocks : w.heap[r] = k.local[r] + Kept(w, r)
        /\ Owns(p, t, w) = k.held /\ Owns(p, t, w2) = k2.held
    BY <1>1, Marked
  <1> HIDE DEF k, k2
  <1>3. /\ c[w.pc].x \in Blocks /\ c[w.pc].n \in Locks \cup {""}
        /\ c[w.pc].x \notin HandlerBlocks(w.stack)
        /\ c[w.pc].n \notin HandlerLocks(w.stack)
    BY <1>2 DEF CallOK, MarkAt, k
  <1>4. k2 = [k EXCEPT !.stack = <<h>> \o @, !.local[c[w.pc].x] = @ - 1]
    BY <1>2 DEF MarkAfter, IsCreate
  <1>5. /\ k2.held = k.held /\ k2.stack = <<h>> \o k.stack
        /\ k2.novalue = k.novalue /\ k2.made = k.made
        /\ k2.local = [k.local EXCEPT ![c[w.pc].x] = @ - 1]
    BY <1>2, <1>4 DEF MarkSet
  <1>6. k.local \in [Blocks -> Nat] /\ w.heap \in [Blocks -> Int]
    BY <1>2 DEF MarkSet, Thread
  <1>7. h \in Handlers /\ h.block = c[w.pc].x /\ h.lock = c[w.pc].n
    BY <1>3 DEF Handlers
  <1>8. w.stack \in Seq(Handlers) /\ Distinct(w.stack)
    BY DEF Thread, ThreadInv
  <1>9. /\ Distinct(w2.stack)
        /\ HandlerBlocks(w2.stack) = HandlerBlocks(w.stack) \cup {c[w.pc].x}
    BY <1>3, <1>7, <1>8, PushHandler
  <1>10. \A r \in Blocks :
          /\ Kept(w, r) \in Nat
          /\ Kept(w2, r) = Kept(w, r) + (IF r = c[w.pc].x THEN 1 ELSE 0)
    <2> TAKE r \in Blocks
    <2>1. r \in HandlerBlocks(w2.stack) <=>
            r \in HandlerBlocks(w.stack) \/ r = c[w.pc].x
      BY <1>9
    <2>2. CASE r = c[w.pc].x
      <3>1. r \notin HandlerBlocks(w.stack)
        BY <2>2, <1>3
      <3> QED BY <2>1, <2>2, <3>1 DEF Kept
    <2>3. CASE r # c[w.pc].x
      BY <2>1, <2>3 DEF Kept
    <2> QED BY <2>2, <2>3
  <1>11. \A r \in Blocks : w2.heap[r] = k2.local[r] + Kept(w2, r)
    <2> TAKE r \in Blocks
    <2> DEFINE d == IF r = c[w.pc].x THEN 1 ELSE 0
    <2>1. k.local[r] \in Int /\ d \in Int
      BY <1>6
    <2>2. k2.local[r] = k.local[r] - d
      <3>1. k2.local[r] = IF r = c[w.pc].x THEN k.local[r] - 1 ELSE k.local[r]
        BY <1>5, <1>6
      <3> QED BY <3>1, <2>1
    <2>3. Kept(w, r) \in Int /\ Kept(w2, r) = Kept(w, r) + d
      BY <1>10
    <2> HIDE DEF d
    <2>4. w.heap[r] = k.local[r] + Kept(w, r)
      BY <1>2
    <2> QED BY <2>1, <2>2, <2>3, <2>4
  <1>12. BlockInv(p, t, w2)
    BY <1>2, <1>5, <1>11 DEF BlockInv, k2
  <1>13. ThreadInv(p, t, w2)
    BY <1>2, <1>9, <1>12 DEF ThreadInv
  <1> QED BY <1>2, <1>5, <1>13 DEF Mild, Onward, Keeps, k, k2

(* pthread_cleanup_pop(): again only a local variable knows the block. *)
LEMMA Pops ==
    ASSUME Disciplined, NEW p \in DOMAIN Code, NEW t \in DOMAIN Code[p],
           NEW w \in Thread, NEW w2 \in Thread, ThreadInv(p, t, w),
           w.st = "run", w.pc <= Len(Code[p][t]),
           Code[p][t][w.pc].op = "cleanup_pop",
           w2.st = "run", w2.pc = w.pc + 1, w2.stack = Tail(w.stack),
           w2.heap = w.heap,
           w2.specific = w.specific, w2.async = w.async, w2.pend = w.pend
    PROVE  Mild(p, t, w, w2)
  <1> DEFINE c == Code[p][t]
             k == MarkAt(p, t, w.pc)
             k2 == MarkAt(p, t, w2.pc)
             h == Head(w.stack)
  <1>1. c[w.pc].op \in MarkedOps /\ w2.pc \in Successors(c, w.pc)
    BY OneSuccessor DEF MarkedOps
  <1>2. /\ PlaceInv(p, t, w2) /\ EndInv(p, t, w2) /\ NotSpending(p, t, w, w2)
        /\ k \in MarkSet /\ k2 = MarkAfter(c[w.pc], k) /\ CallOK(p, t, w.pc)
        /\ w.stack = k.stack /\ (k.novalue => w.specific = "")
        /\ \A r \in Blocks : w.heap[r] = k.local[r] + Kept(w, r)
        /\ Owns(p, t, w) = k.held /\ Owns(p, t, w2) = k2.held
    BY <1>1, Marked
  <1> HIDE DEF k, k2
  <1>3. w.stack # <<>>
    BY <1>2 DEF CallOK, MarkAt, k
  <1>4. w.stack \in Seq(Handlers) /\ Distinct(w.stack)
    BY DEF Thread, ThreadInv
  <1>5. /\ h \in Handlers /\ Distinct(w2.stack)
        /\ h.block \in HandlerBlocks(w.stack)
        /\ HandlerBlocks(w2.stack) = HandlerBlocks(w.stack) \ {h.block}
    BY <1>3, <1>4, PopHandler
  <1>6. h.block \in Blocks
    BY <1>5 DEF Handlers
  <1>7. k2 = [k EXCEPT !.stack = Tail(@), !.local[h.block] = @ + 1]
    BY <1>2 DEF MarkAfter, IsCreate
  <1>8. k.local \in [Blocks -> Nat] /\ w.heap \in [Blocks -> Int]
    BY <1>2 DEF MarkSet, Thread
  <1>9. /\ k2.stack = Tail(k.stack) /\ k2.novalue = k.novalue
        /\ k2.made = k.made /\ k2.held = k.held
        /\ k2.local = [k.local EXCEPT ![h.block] = @ + 1]
    BY <1>2, <1>7 DEF MarkSet
  <1>10. \A r \in Blocks : w2.heap[r] = k2.local[r] + Kept(w2, r)
    <2> TAKE r \in Blocks
    <2>1. k.local[r] \in Int
      BY <1>8
    <2>2. w.heap[r] = k.local[r] + Kept(w, r)
      BY <1>2
    <2>3. Kept(w, r) \in Int
      BY DEF Kept
    <2>4. CASE r = h.block
      <3>1. Kept(w2, r) = Kept(w, r) - 1
        BY <1>5, <2>4 DEF Kept
      <3>2. k2.local[r] = k.local[r] + 1
        BY <1>8, <1>9, <2>4
      <3> QED BY <2>1, <2>2, <2>3, <3>1, <3>2
    <2>5. CASE r # h.block
      <3>1. Kept(w2, r) = Kept(w, r)
        BY <1>5, <2>5 DEF Kept
      <3>2. k2.local[r] = k.local[r]
        BY <1>8, <1>9, <2>5
      <3> QED BY <2>2, <3>1, <3>2
    <2> QED BY <2>4, <2>5
  <1>11. BlockInv(p, t, w2)
    BY <1>2, <1>9, <1>10 DEF BlockInv, k2
  <1>12. ThreadInv(p, t, w2)
    BY <1>2, <1>5, <1>11 DEF ThreadInv
  <1> QED BY <1>2, <1>9, <1>12 DEF Mild, Onward, Keeps, k, k2

(* A thread begins to wait: for a condition, without the mutex, or at a    *)
(* barrier.                                                                *)
LEMMA Waits ==
    ASSUME Disciplined, NEW p \in DOMAIN Code, NEW t \in DOMAIN Code[p],
           NEW w \in Thread, ThreadInv(p, t, w),
           w.st = "run", w.pc <= Len(Code[p][t]),
           NEW st,
           \/ st = "wait" /\ Code[p][t][w.pc].op = "cond_wait"
           \/ st = "barrier" /\ Code[p][t][w.pc].op = "barrier_wait"
    PROVE  LET w2 == [w EXCEPT !.st = st]
               x == Code[p][t][w.pc].x
           IN  /\ Onward(p, t, w, w2) /\ NotSpending(p, t, w, w2)
               /\ st = "barrier" => Keeps(p, t, w, w2)
               /\ st = "wait" =>
                    /\ x \in Locks /\ x \in Owns(p, t, w)
                    /\ Owns(p, t, w2) = Owns(p, t, w) \ {x}
  <1> DEFINE w2 == [w EXCEPT !.st = st]
             c == Code[p][t]
  <1>1. /\ w2 \in Thread /\ w2.st = st /\ w2.pc = w.pc
        /\ w2.stack = w.stack /\ w2.heap = w.heap
        /\ w2.specific = w.specific /\ w2.async = w.async /\ w2.pend = w.pend
    BY DEF Thread
  <1> HIDE DEF w2
  <1>2. Len(c) \in Nat /\ w.pc \in Positions(c)
    BY Rules DEF ThreadInv, PlaceInv
  <1>3. w.pc \in 1..Len(c)
    BY <1>2 DEF Positions
  <1>4. CallOK(p, t, w.pc)
    BY <1>3, Rules
  <1>5. PlaceInv(p, t, w2)
    BY <1>1 DEF ThreadInv, PlaceInv, Ending
  <1>6. \A r \in Blocks : Kept(w2, r) = Kept(w, r)
    BY <1>1 DEF Kept
  <1>7. BlockInv(p, t, w2)
    BY <1>1, <1>6 DEF ThreadInv, BlockInv, Ending
  <1>8. EndInv(p, t, w2)
    BY <1>1 DEF EndInv, Gone
  <1>9. ThreadInv(p, t, w2)
    BY <1>1, <1>5, <1>7, <1>8 DEF ThreadInv
  <1>10. st = "wait" => c[w.pc].x \in Locks /\ c[w.pc].x \in Owns(p, t, w)
    BY <1>4 DEF CallOK, Owns, MarkAt
  <1>11. /\ st = "barrier" => Keeps(p, t, w, w2)
         /\ st = "wait" => Owns(p, t, w2) = Owns(p, t, w) \ {c[w.pc].x}
    BY <1>1 DEF Keeps, Owns
  <1>12. Onward(p, t, w, w2) /\ NotSpending(p, t, w, w2)
    BY <1>1, <1>9 DEF Onward, NotSpending
  <1> QED BY <1>10, <1>11, <1>12 DEF w2

(* A thread that runs its next handler while it ends. *)
LEMMA Unwinds ==
    ASSUME Disciplined, NEW p \in DOMAIN Code, NEW t \in DOMAIN Code[p],
           NEW w \in Thread, NEW w2 \in Thread, ThreadInv(p, t, w),
           w.st = "unwind", w.stack # <<>>,
           w2.st = "unwind", w2.pc = w.pc, w2.stack = Tail(w.stack),
           \A r \in Blocks : w2.heap[r] =
             IF r = Head(w.stack).block THEN w.heap[r] - 1 ELSE w.heap[r],
           w2.specific = w.specific, w2.async = w.async, w2.pend = w.pend
    PROVE  LET h == Head(w.stack)
           IN  /\ Onward(p, t, w, w2) /\ NotSpending(p, t, w, w2)
               /\ Owns(p, t, w2) = Owns(p, t, w) \ {h.lock}
               /\ h.lock \in Locks => h.lock \in Owns(p, t, w)
  <1> DEFINE h == Head(w.stack)
  <1>1. w.stack \in Seq(Handlers) /\ Distinct(w.stack)
    BY DEF Thread, ThreadInv
  <1>2. /\ h \in Handlers /\ Distinct(w2.stack)
        /\ h.block \in HandlerBlocks(w.stack)
        /\ HandlerBlocks(w2.stack) = HandlerBlocks(w.stack) \ {h.block}
        /\ HandlerLocks(w2.stack) = HandlerLocks(w.stack) \ {h.lock}
        /\ h.lock \in Locks => h.lock \in HandlerLocks(w.stack)
    BY <1>1, PopHandler
  <1>3. PlaceInv(p, t, w2)
    BY DEF ThreadInv, PlaceInv, Ending
  <1>4. BlockInv(p, t, w2)
    BY DEF BlockInv, Ending
  <1>5. w.heap \in [Blocks -> Int]
    BY DEF Thread
  <1>6. \A r \in Blocks : /\ w.heap[r] >= Kept(w, r)
                          /\ ~MayLeak(p, t, w.pc) => w.heap[r] = Kept(w, r)
    BY DEF ThreadInv, EndInv
  <1>7. ASSUME NEW r \in Blocks
        PROVE  /\ w2.heap[r] >= Kept(w2, r)
               /\ ~MayLeak(p, t, w.pc) => w2.heap[r] = Kept(w2, r)
    <2>1. Kept(w, r) \in Int /\ w.heap[r] \in Int
      BY <1>5 DEF Kept
    <2>2. CASE r = h.block
      <3>1. Kept(w2, r) = Kept(w, r) - 1
        BY <1>2, <2>2 DEF Kept
      <3>2. w2.heap[r] = w.heap[r] - 1
        BY <2>2
      <3> QED BY <1>6, <2>1, <3>1, <3>2
    <2>3. CASE r # h.block
      <3>1. Kept(w2, r) = Kept(w, r)
        BY <1>2, <2>3 DEF Kept
      <3>2. w2.heap[r] = w.heap[r]
        BY <2>3
      <3> QED BY <1>6, <3>1, <3>2
    <2> QED BY <2>2, <2>3
  <1>8. EndInv(p, t, w2)
    BY <1>7 DEF EndInv, Gone
  <1>9. ThreadInv(p, t, w2)
    BY <1>2, <1>3, <1>4, <1>8 DEF ThreadInv
  <1>10. /\ Owns(p, t, w2) = Owns(p, t, w) \ {h.lock}
         /\ h.lock \in Locks => h.lock \in Owns(p, t, w)
    BY <1>2 DEF Owns
  <1> QED BY <1>9, <1>10 DEF Onward, NotSpending

(* The end of a thread: the destructor frees the value of the key. *)
LEMMA Dies ==
    ASSUME Disciplined, NEW p \in DOMAIN Code, NEW t \in DOMAIN Code[p],
           NEW w \in Thread, NEW w2 \in Thread, ThreadInv(p, t, w),
           w.st = "unwind", w.stack = <<>>,
           w2.st = "ended", w2.pc = w.pc, w2.stack = w.stack,
           \A r \in Blocks : w2.heap[r] =
             IF r = w.specific THEN w.heap[r] - 1 ELSE w.heap[r],
           w2.specific = w.specific, w2.async = w.async, w2.pend = w.pend
    PROVE  Mild(p, t, w, w2)
  <1>1. HandlerBlocks(w.stack) = {} /\ HandlerLocks(w.stack) = {}
    BY DEF HandlerBlocks, HandlerLocks
  <1>2. PlaceInv(p, t, w2)
    BY DEF ThreadInv, PlaceInv, Ending
  <1>3. BlockInv(p, t, w2)
    BY DEF BlockInv, Ending
  <1>4. w.heap \in [Blocks -> Int]
    BY DEF Thread
  <1>5. \A r \in Blocks : /\ w.heap[r] >= Kept(w, r)
                          /\ ~MayLeak(p, t, w.pc) => w.heap[r] = Kept(w, r)
    BY DEF ThreadInv, EndInv
  <1>6. ASSUME NEW r \in Blocks
        PROVE  /\ w2.heap[r] >= 0
               /\ ~MayLeak(p, t, w.pc) => w2.heap[r] = 0
    <2>1. w.heap[r] \in Int
      BY <1>4
    <2>2. Kept(w, r) = IF r = w.specific THEN 1 ELSE 0
      BY <1>1 DEF Kept
    <2>3. CASE r = w.specific
      BY <1>5, <2>1, <2>2, <2>3
    <2>4. CASE r # w.specific
      BY <1>5, <2>1, <2>2, <2>4
    <2> QED BY <2>3, <2>4
  <1>7. EndInv(p, t, w2)
    BY <1>6 DEF EndInv, Gone
  <1>8. ThreadInv(p, t, w2)
    BY <1>2, <1>3, <1>7 DEF ThreadInv
  <1>9. Owns(p, t, w2) = Owns(p, t, w)
    BY <1>1 DEF Owns
  <1> QED BY <1>8, <1>9 DEF Mild, Onward, Keeps, NotSpending

(* A thread that another joins with. *)
LEMMA IsJoined ==
    ASSUME NEW p, NEW t, NEW w \in Thread, ThreadInv(p, t, w),
           w.st = "ended"
    PROVE  Mild(p, t, w, [w EXCEPT !.st = "joined"])
  <1> DEFINE w2 == [w EXCEPT !.st = "joined"]
  <1>1. /\ w2 \in Thread /\ w2.st = "joined" /\ w2.pc = w.pc
        /\ w2.stack = w.stack /\ w2.heap = w.heap
        /\ w2.specific = w.specific /\ w2.async = w.async /\ w2.pend = w.pend
    BY DEF Thread, Ending
  <1> HIDE DEF w2
  <1>2. PlaceInv(p, t, w2)
    BY <1>1 DEF ThreadInv, PlaceInv, Ending
  <1>3. BlockInv(p, t, w2) /\ EndInv(p, t, w2)
    BY <1>1 DEF ThreadInv, BlockInv, EndInv, Gone, Ending
  <1>4. ThreadInv(p, t, w2)
    BY <1>1, <1>2, <1>3 DEF ThreadInv
  <1>5. Owns(p, t, w2) = Owns(p, t, w)
    BY <1>1 DEF Owns
  <1> QED BY <1>1, <1>4, <1>5 DEF Mild, Onward, Keeps, NotSpending, w2

(* A thread that waits for a condition is woken. *)
LEMMA IsWoken ==
    ASSUME NEW p, NEW t, NEW w \in Thread, NEW w2 \in Thread,
           ThreadInv(p, t, w), w.st = "wait", w2.st = "relock",
           w2.pc = w.pc, w2.stack = w.stack, w2.heap = w.heap,
           w2.specific = w.specific, w2.async = w.async, w2.pend = w.pend
    PROVE  Mild(p, t, w, w2)
  <1>1. PlaceInv(p, t, w2)
    BY DEF ThreadInv, PlaceInv, Ending
  <1>2. \A r \in Blocks : Kept(w2, r) = Kept(w, r)
    BY DEF Kept
  <1>3. BlockInv(p, t, w2)
    BY <1>2 DEF ThreadInv, BlockInv, Ending
  <1>4. EndInv(p, t, w2)
    BY DEF EndInv, Gone
  <1>5. ThreadInv(p, t, w2)
    BY <1>1, <1>3, <1>4 DEF ThreadInv
  <1>6. Owns(p, t, w2) = Owns(p, t, w)
    BY DEF Owns
  <1> QED BY <1>5, <1>6 DEF Mild, Onward, Keeps, NotSpending

(* A thread that has just been created. *)
LEMMA Starts ==
    ASSUME Disciplined, NEW p \in DOMAIN Code, NEW t \in DOMAIN Code[p],
           NEW w \in Thread, NEW w2 \in Thread, ThreadInv(p, t, w),
           w.st = "none", w2.st = "run", w2.pc = w.pc, w2.stack = w.stack,
           w2.heap = w.heap, w2.specific = w.specific,
           w2.async = w.async, w2.pend = w.pend
    PROVE  /\ ThreadInv(p, t, w2) /\ Keeps(p, t, w, w2)
           /\ NotSpending(p, t, w, w2)
  <1> DEFINE c == Code[p][t]
  <1>1. /\ Len(c) \in Nat /\ MarkAt(p, t, 1) = NoMark
        /\ \A i \in 1..Len(c) : SpendOK(p, c, i)
    BY Rules
  <1>2. w.pc = 1 /\ w2.pc = 1
    BY DEF ThreadInv, PlaceInv
  <1>3. 1 <= Len(c) => ~Spends(c, 1)
    <2>1. 1 <= Len(c) => 1 \in 1..Len(c)
      BY <1>1
    <2> QED BY <2>1, <1>1 DEF SpendOK
  <1>4. 1 < Len(c) => ~Spends(c, 1 + 1)
    <2>1. 1 < Len(c) => 1 + 1 \in 1..Len(c)
      BY <1>1
    <2> QED BY <2>1, <1>1 DEF SpendOK
  <1>5. PlaceInv(p, t, w2)
    BY <1>2, <1>3 DEF ThreadInv, PlaceInv, Ending
  <1>6. \A r \in Blocks : Kept(w2, r) = Kept(w, r)
    BY DEF Kept
  <1>7. BlockInv(p, t, w2)
    BY <1>6 DEF ThreadInv, BlockInv, Ending
  <1>8. EndInv(p, t, w2)
    BY DEF EndInv, Gone
  <1>9. ThreadInv(p, t, w2)
    BY <1>5, <1>7, <1>8 DEF ThreadInv
  <1>10. Owns(p, t, w2) = {} /\ Owns(p, t, w) = {}
    BY <1>1, <1>2 DEF Owns, NoMark
  <1> QED BY <1>2, <1>4, <1>9, <1>10 DEF Keeps, NotSpending

-----------------------------------------------------------------------------
(* From the threads to the whole invariant.                                *)

ProcStates == {"run", "exit", "failed", "killed"}

(* The threads after a step, as a function. *)
ThrShape == DOMAIN thr = Threads /\ thr = [t \in Threads |-> thr[t]]

(* A step that replaces the record of one thread leaves the others. *)
LEMMA OneThread ==
    ASSUME ThrShape, UNCHANGED program, NEW t \in Threads, NEW w2,
           thr' = [thr EXCEPT ![t] = w2]
    PROVE  /\ ThrShape' /\ thr'[t] = w2
           /\ \A u \in Threads : u # t => thr'[u] = thr[u]
  BY DEF ThrShape, Threads, program

(* The shape of the state after a step whose threads are fine. *)
LEMMA ShapeStep ==
    ASSUME IInv, UNCHANGED program, ThrShape', proc' \in ProcStates,
           mem' \in [Vars -> Nat], owner' \in [Locks -> Threads \cup {NoThread}],
           \A u \in Threads : ThreadInv(prog, u, thr'[u])
    PROVE  ShapeInv' /\ ThreadsInv'
  <1>1. Threads' = Threads /\ prog' = prog /\ code' = code
    BY DEF Threads, program
  <1>2. ShapeInv'
    BY <1>1 DEF IInv, ShapeInv, ThrShape, ProcStates
  <1>3. ThreadsInv'
    BY <1>1 DEF ThreadsInv
  <1> QED BY <1>2, <1>3

(* Threads that only go on have been created by a thread that still knows  *)
(* it.                                                                     *)
LEMMA MadeStep ==
    ASSUME Disciplined, IInv, UNCHANGED program,
           \A u \in Threads : Onward(prog, u, thr[u], thr'[u])
    PROVE  MadeInv'
  <1>1. Threads' = Threads /\ prog' = prog
    BY DEF Threads, program
  <1>2. "main" \in Threads
    BY Names DEF IInv, ShapeInv, Threads
  <1>3. ASSUME NEW u \in Threads \ {"main"}, thr'[u].st # "none"
        PROVE  \E t \in Threads : u \in MarkAt(prog, t, thr'[t].pc).made
    <2>1. thr[u].st # "none"
      BY <1>3 DEF Onward
    <2>2. PICK t \in Threads : u \in MarkAt(prog, t, thr[t].pc).made
      BY <2>1 DEF IInv, MadeInv
    <2> QED BY <2>2 DEF Onward
  <1>4. ASSUME MarkAt(prog, "main", thr'["main"].pc).made = {},
               NEW u \in Threads \ {"main"}
        PROVE  thr'[u].st = "none"
    <2>1. MarkAt(prog, "main", thr["main"].pc).made = {}
      BY <1>2, <1>4 DEF Onward
    <2>2. thr[u].st = "none"
      BY <2>1 DEF IInv, MadeInv
    <2> QED BY <2>2 DEF Onward
  <1> QED BY <1>1, <1>3, <1>4 DEF MadeInv

(* Locks that are not touched keep their owners. *)
LEMMA QuietLocks ==
    ASSUME IInv, UNCHANGED <<program, owner>>,
           \A u \in Threads : Keeps(prog, u, thr[u], thr'[u])
    PROVE  LockInv'
  <1>1. Threads' = Threads /\ prog' = prog
    BY DEF Threads, program
  <1> QED BY <1>1 DEF IInv, LockInv, Keeps

(* A free lock that a thread takes is its own. *)
LEMMA TakenLock ==
    ASSUME IInv, UNCHANGED program, NEW t \in Threads, NEW x \in Locks,
           owner[x] = NoThread, NoThread \notin Threads,
           owner' = [owner EXCEPT ![x] = t],
           Owns(prog, t, thr'[t]) = Owns(prog, t, thr[t]) \cup {x},
           \A u \in Threads : u # t => Keeps(prog, u, thr[u], thr'[u])
    PROVE  LockInv' /\ owner' \in [Locks -> Threads \cup {NoThread}]
  <1>1. Threads' = Threads /\ prog' = prog
    BY DEF Threads, program
  <1>2. owner \in [Locks -> Threads \cup {NoThread}]
    BY DEF IInv, ShapeInv
  <1>3. \A u \in Threads : x \notin Owns(prog, u, thr[u])
    BY DEF IInv, LockInv
  <1>4. ASSUME NEW u \in Threads, NEW m \in Locks
        PROVE  owner'[m] = u <=> m \in Owns(prog, u, thr'[u])
    <2>1. owner[m] = u <=> m \in Owns(prog, u, thr[u])
      BY DEF IInv, LockInv
    <2>2. CASE m = x
      BY <2>2, <1>2, <1>3 DEF Keeps
    <2>3. CASE m # x
      BY <2>1, <2>3, <1>2 DEF Keeps
    <2> QED BY <2>2, <2>3
  <1> QED BY <1>1, <1>2, <1>4 DEF LockInv

(* A lock that its owner gives back is free. *)
LEMMA GivenLock ==
    ASSUME IInv, UNCHANGED program, NEW t \in Threads, NEW x,
           NoThread \notin Threads,
           owner' = IF x \in Locks THEN [owner EXCEPT ![x] = NoThread]
                    ELSE owner,
           x \in Locks => x \in Owns(prog, t, thr[t]),
           Owns(prog, t, thr'[t]) = Owns(prog, t, thr[t]) \ {x},
           \A u \in Threads : u # t => Keeps(prog, u, thr[u], thr'[u])
    PROVE  LockInv' /\ owner' \in [Locks -> Threads \cup {NoThread}]
  <1>1. Threads' = Threads /\ prog' = prog
    BY DEF Threads, program
  <1>2. owner \in [Locks -> Threads \cup {NoThread}]
    BY DEF IInv, ShapeInv
  <1>3. x \in Locks => owner[x] = t
    BY DEF IInv, LockInv
  <1>4. ASSUME NEW u \in Threads, NEW m \in Locks
        PROVE  owner'[m] = u <=> m \in Owns(prog, u, thr'[u])
    <2>1. owner[m] = u <=> m \in Owns(prog, u, thr[u])
      BY DEF IInv, LockInv
    <2>2. CASE m = x
      <3>1. owner'[m] = NoThread /\ owner[m] = t
        BY <2>2, <1>2, <1>3
      <3> QED BY <3>1, <2>1, <2>2 DEF Keeps
    <2>3. CASE m # x
      <3>1. owner'[m] = owner[m]
        BY <2>3, <1>2
      <3> QED BY <3>1, <2>1, <2>3 DEF Keeps
    <2> QED BY <2>2, <2>3
  <1>5. owner' \in [Locks -> Threads \cup {NoThread}]
    BY <1>2
  <1> QED BY <1>1, <1>5, <1>4 DEF LockInv

(* A step that takes no unit of a semaphore leaves the units right. *)
LEMMA QuietSems ==
    ASSUME IInv, UNCHANGED program,
           \A s \in Semaphores(prog) : mem'[s] = mem[s],
           \A u \in Threads : \A s \in Semaphores(prog) :
             s \in Owns(prog, u, thr'[u]) => s \in Owns(prog, u, thr[u])
    PROVE  SemInv'
  <1>1. Threads' = Threads /\ prog' = prog
    BY DEF Threads, program
  <1> QED BY <1>1 DEF IInv, SemInv

(* What a thread is about to spend is still there when nobody writes it    *)
(* and no thread comes to a call that spends.                              *)
LEMMA QuietSpends ==
    ASSUME IInv, UNCHANGED program,
           \A u \in Threads : NotSpending(prog, u, thr[u], thr'[u]),
           \A u \in Threads :
             /\ thr[u].st = "run" /\ thr[u].pc < Len(code[u])
             /\ Spends(code[u], thr[u].pc + 1)
             => mem'[code[u][thr[u].pc].x] = mem[code[u][thr[u].pc].x]
    PROVE  SpendInv'
  <1>1. Threads' = Threads /\ prog' = prog /\ code' = code /\ code = Code[prog]
    BY DEF Threads, program, IInv, ShapeInv
  <1> SUFFICES ASSUME NEW u \in Threads, thr'[u].st = "run",
                      thr'[u].pc < Len(code[u]),
                      Spends(code[u], thr'[u].pc + 1)
               PROVE  mem'[code[u][thr'[u].pc].x] >= 1
    BY <1>1 DEF SpendInv
  <1>2. thr[u].st = "run" /\ thr'[u].pc = thr[u].pc
    BY <1>1 DEF NotSpending
  <1>3. mem[code[u][thr[u].pc].x] >= 1
    BY <1>2 DEF IInv, SpendInv
  <1> QED BY <1>2, <1>3

(* A step that leaves memory and locks alone and all threads mild. *)
LEMMA MildStep ==
    ASSUME Disciplined, IInv, UNCHANGED <<program, mem, owner>>, ThrShape',
           proc' \in ProcStates,
           \A u \in Threads : Mild(prog, u, thr[u], thr'[u])
    PROVE  IInv'
  <1>1. \A u \in Threads : /\ Onward(prog, u, thr[u], thr'[u])
                           /\ ThreadInv(prog, u, thr'[u])
                           /\ Keeps(prog, u, thr[u], thr'[u])
                           /\ NotSpending(prog, u, thr[u], thr'[u])
    BY DEF Mild, Onward
  <1>2. /\ mem' = mem /\ owner' = owner /\ mem' \in [Vars -> Nat]
        /\ owner' \in [Locks -> Threads \cup {NoThread}]
    BY DEF IInv, ShapeInv
  <1>3. ShapeInv' /\ ThreadsInv'
    BY <1>1, <1>2, ShapeStep
  <1>4. MadeInv'
    BY <1>1, MadeStep
  <1>5. LockInv'
    BY <1>1, <1>2, QuietLocks
  <1>6. SemInv'
    BY <1>1, <1>2, QuietSems DEF Keeps
  <1>7. SpendInv'
    BY <1>1, <1>2, QuietSpends
  <1> QED BY <1>3, <1>4, <1>5, <1>6, <1>7 DEF IInv

(* What is known of the threads before a step. *)
LEMMA Before ==
    ASSUME Disciplined, IInv
    PROVE  /\ prog \in DOMAIN Code /\ code = Code[prog]
           /\ Threads = DOMAIN Code[prog] /\ ThrShape
           /\ NoThread \notin Threads /\ "main" \in Threads
           /\ \A u \in Threads :
                /\ thr[u] \in Thread /\ ThreadInv(prog, u, thr[u])
                /\ Mild(prog, u, thr[u], thr[u])
                /\ Len(code[u]) \in Nat /\ thr[u].pc \in Nat
  <1>1. /\ prog \in DOMAIN Code /\ code = Code[prog]
        /\ Threads = DOMAIN Code[prog] /\ ThrShape
    BY DEF IInv, ShapeInv, Threads, ThrShape
  <1>2. NoThread \notin Threads /\ "main" \in Threads
    BY <1>1, Names DEF NoThread
  <1>3. ASSUME NEW u \in Threads
        PROVE  /\ thr[u] \in Thread /\ ThreadInv(prog, u, thr[u])
               /\ Mild(prog, u, thr[u], thr[u])
               /\ Len(code[u]) \in Nat /\ thr[u].pc \in Nat
    <2>1. ThreadInv(prog, u, thr[u])
      BY DEF IInv, ThreadsInv
    <2>2. thr[u] \in Thread
      BY <2>1 DEF ThreadInv
    <2>3. thr[u].pc \in Nat
      BY <2>2 DEF Thread
    <2>4. Len(code[u]) \in Nat
      BY <1>1, Rules
    <2> QED BY <2>1, <2>2, <2>3, <2>4, Unmoved
  <1> QED BY <1>1, <1>2, <1>3

(* The same for a step of one thread, *)
LEMMA MildOne ==
    ASSUME Disciplined, IInv, UNCHANGED <<program, mem, owner>>,
           proc' \in ProcStates, NEW t \in Threads, NEW w2,
           thr' = [thr EXCEPT ![t] = w2], Mild(prog, t, thr[t], w2)
    PROVE  IInv'
  <1>1. ThrShape /\ \A u \in Threads : Mild(prog, u, thr[u], thr[u])
    BY Before
  <1>2. /\ ThrShape' /\ thr'[t] = w2
        /\ \A u \in Threads : u # t => thr'[u] = thr[u]
    BY <1>1, OneThread
  <1>3. \A u \in Threads : Mild(prog, u, thr[u], thr'[u])
    BY <1>1, <1>2
  <1> QED BY <1>2, <1>3, MildStep

(* and for a step of two, or of one that is both. *)
LEMMA MildTwo ==
    ASSUME Disciplined, IInv, UNCHANGED <<program, mem, owner>>,
           proc' \in ProcStates, NEW t \in Threads, NEW u \in Threads,
           ThrShape', Mild(prog, t, thr[t], thr'[t]),
           Mild(prog, u, thr[u], thr'[u]),
           \A x \in Threads : x # t /\ x # u => thr'[x] = thr[x]
    PROVE  IInv'
  <1>1. \A x \in Threads : Mild(prog, x, thr[x], thr[x])
    BY Before
  <1>2. \A x \in Threads : Mild(prog, x, thr[x], thr'[x])
    BY <1>1
  <1> QED BY <1>2, MildStep

(* A thread that makes a call. *)
LEMMA Calling ==
    ASSUME Disciplined, IInv, NEW t \in Threads, NEW op, Calls(t, op)
    PROVE  /\ proc = "run" /\ thr[t].st = "run"
           /\ thr[t].pc <= Len(Code[prog][t])
           /\ thr[t].pc \in 1..Len(Code[prog][t])
           /\ NextCall(t) = Code[prog][t][thr[t].pc]
           /\ NextCall(t).op = op /\ X(t) = Code[prog][t][thr[t].pc].x
           /\ N(t) = Code[prog][t][thr[t].pc].n
           /\ Code[prog][t][thr[t].pc].op = op
           /\ CallOK(prog, t, thr[t].pc)
           /\ FlowOK(Code[prog][t], thr[t].pc)
  <1>1. /\ prog \in DOMAIN Code /\ code = Code[prog]
        /\ t \in DOMAIN Code[prog] /\ ThreadInv(prog, t, thr[t])
        /\ Len(code[t]) \in Nat /\ thr[t].pc \in Nat
    BY Before
  <1>2. thr[t].pc <= Len(code[t]) /\ thr[t].pc \in 1..Len(code[t]) + 1
    <2>1. ~(thr[t].pc > Len(code[t]))
      BY DEF Calls, Returns
    <2>2. thr[t].pc \in Positions(code[t])
      BY <1>1 DEF ThreadInv, PlaceInv
    <2> QED BY <1>1, <2>1, <2>2 DEF Positions
  <1>3. thr[t].pc \in 1..Len(code[t])
    BY <1>1, <1>2
  <1>4. CallOK(prog, t, thr[t].pc) /\ FlowOK(Code[prog][t], thr[t].pc)
    BY <1>1, <1>3, Rules
  <1> QED BY <1>1, <1>2, <1>3, <1>4 DEF Calls, Runs, NextCall, X, N

(* The fields of a thread that goes on by one. *)
LEMMA Pends ==
    ASSUME Disciplined, IInv, NEW t \in Threads
    PROVE  /\ thr[t].async => IsAsync(Code[prog][t])
           /\ thr[t].pend => IsCanceled(prog, t)
  BY Before DEF ThreadInv, PlaceInv

-----------------------------------------------------------------------------
(* One lemma per action.                                                   *)

(* The process ends. *)
LEMMA ProcessEnds ==
    ASSUME Disciplined, IInv, UNCHANGED <<program, thr, mem, owner>>,
           proc' \in ProcStates
    PROVE  IInv'
  <1>1. ThrShape /\ \A u \in Threads : Mild(prog, u, thr[u], thr[u])
    BY Before
  <1>2. UNCHANGED <<program, mem, owner>> /\ thr' = thr
    OBVIOUS
  <1>3. ThrShape'
    BY <1>1, <1>2 DEF ThrShape, Threads, program
  <1> QED BY <1>1, <1>2, <1>3, MildStep

(* A load: what the next call spends has been loaded. *)
LEMMA LoadStep ==
    ASSUME Disciplined, IInv, NEW t \in Threads, load(t)
    PROVE  IInv'
  <1> DEFINE w == thr[t]
             c == Code[prog][t]
             w2 == [w EXCEPT !.pc = @ + 1, !.loc = mem[X(t)]]
  <1>1. /\ Calls(t, "load") /\ UNCHANGED <<program, mem, owner>>
        /\ thr' = [thr EXCEPT ![t].pc = @ + 1, ![t].loc = mem[X(t)]]
        /\ proc' = proc
    BY DEF load
  <1>2. /\ prog \in DOMAIN Code /\ t \in DOMAIN Code[prog] /\ code = Code[prog]
        /\ w \in Thread /\ ThreadInv(prog, t, w) /\ ThrShape
    BY Before
  <1>3. /\ proc = "run" /\ w.st = "run" /\ w.pc <= Len(c) /\ w.pc \in 1..Len(c)
        /\ c[w.pc].op = "load" /\ X(t) = c[w.pc].x /\ CallOK(prog, t, w.pc)
    BY <1>1, Calling
  <1>4. thr' = [thr EXCEPT ![t] = w2]
    BY <1>1, <1>2 DEF ThrShape
  <1>5. mem[X(t)] \in Nat
    BY <1>3 DEF CallOK, IInv, ShapeInv
  <1>6. w.pc \in Nat /\ w.pc + 1 \in Nat
    BY <1>3
  <1>7. /\ w2 \in Thread /\ w2.st = w.st /\ w2.pc = w.pc + 1
        /\ w2.stack = w.stack /\ w2.heap = w.heap
        /\ w2.specific = w.specific /\ w2.async = w.async
        /\ w2.pend = w.pend /\ w2.loc = mem[X(t)]
    BY <1>2, <1>5, <1>6 DEF Thread
  <1>8. w2.pc <= Len(c) /\ Spends(c, w2.pc) => w2.loc >= 1
    <2>1. ASSUME w.pc + 1 <= Len(c), Spends(c, w.pc + 1)
          PROVE  mem[c[w.pc].x] >= 1
      <3>1. w.pc < Len(c)
        BY <2>1, <1>2, <1>6, Before
      <3> QED BY <1>2, <1>3, <2>1, <3>1 DEF IInv, SpendInv
    <2> QED BY <1>3, <1>7, <2>1
  <1> HIDE DEF w2
  <1>9. w2.pc \in Successors(c, w.pc)
    BY <1>3, <1>7 DEF Successors
  <1>10. /\ w2.async => IsAsync(c)
         /\ w2.pend => IsCanceled(prog, t)
    BY <1>7, Pends
  <1>11. Mild(prog, t, w, w2)
    BY <1>2, <1>3, <1>7, <1>8, <1>9, <1>10, GoesOn DEF Mild, MarkedOps
  <1>12. proc' \in ProcStates
    BY <1>1, <1>3 DEF ProcStates
  <1> QED BY <1>1, <1>4, <1>11, <1>12, MildOne

(* A thread that makes a call which changes nothing of what the marks say. *)
LEMMA PlainCall ==
    ASSUME Disciplined, IInv, NEW t \in Threads, NEW op, Calls(t, op),
           op \notin MarkedOps \cup {"load", "skip"}, NEW w2 \in Thread,
           w2.st = "run", w2.pc \in Successors(Code[prog][t], thr[t].pc),
           w2.heap = thr[t].heap, w2.specific = thr[t].specific,
           w2.stack = thr[t].stack,
           w2.async => IsAsync(Code[prog][t]), w2.pend => IsCanceled(prog, t)
    PROVE  Mild(prog, t, thr[t], w2)
  <1>1. /\ prog \in DOMAIN Code /\ t \in DOMAIN Code[prog]
        /\ thr[t] \in Thread /\ ThreadInv(prog, t, thr[t])
    BY Before
  <1>2. /\ thr[t].st = "run" /\ thr[t].pc <= Len(Code[prog][t])
        /\ Code[prog][t][thr[t].pc].op = op
    BY Calling
  <1>3. /\ Onward(prog, t, thr[t], w2) /\ Keeps(prog, t, thr[t], w2)
        /\ NotSpending(prog, t, thr[t], w2)
    BY <1>1, <1>2, GoesOn
  <1> QED BY <1>3 DEF Mild

(* and goes on by one. *)
LEMMA PlainNext ==
    ASSUME Disciplined, IInv, NEW t \in Threads, NEW op, Calls(t, op),
           op \notin MarkedOps \cup {"load", "skip", "jump", "exit",
                                     "pthread_exit"}
    PROVE  /\ Mild(prog, t, thr[t], [thr[t] EXCEPT !.pc = @ + 1])
           /\ thr[t].pc + 1 \in Successors(Code[prog][t], thr[t].pc)
  <1> DEFINE w2 == [thr[t] EXCEPT !.pc = @ + 1]
  <1>1. /\ w2 \in Thread /\ w2.st = thr[t].st /\ w2.pc = thr[t].pc + 1
        /\ w2.stack = thr[t].stack /\ w2.heap = thr[t].heap
        /\ w2.specific = thr[t].specific /\ w2.async = thr[t].async
        /\ w2.pend = thr[t].pend
    BY Before, NextPc
  <1> HIDE DEF w2
  <1>2. thr[t].st = "run" /\ Code[prog][t][thr[t].pc].op = op
    BY Calling
  <1>3. thr[t].pc + 1 \in Successors(Code[prog][t], thr[t].pc)
    BY <1>2 DEF Successors, MarkedOps
  <1>4. /\ w2.async => IsAsync(Code[prog][t])
        /\ w2.pend => IsCanceled(prog, t)
    BY <1>1, Pends
  <1>5. Mild(prog, t, thr[t], w2)
    BY <1>1, <1>2, <1>3, <1>4, PlainCall
  <1> QED BY <1>3, <1>5 DEF w2

(* exit(). *)
LEMMA ExitStep ==
    ASSUME Disciplined, IInv, NEW t \in Threads, exit(t)
    PROVE  IInv'
  BY ProcessEnds DEF exit, ProcStates

(* errExit(): the call failed, and the process ends. *)
LEMMA ErrExit ==
    ASSUME Disciplined, IInv, errExit
    PROVE  IInv'
  BY ProcessEnds DEF errExit, ProcStates

(* A thread that runs and begins to end. *)
LEMMA UnwindFrom ==
    ASSUME Disciplined, IInv, NEW t \in Threads, proc = "run", proc' = proc,
           thr[t].st = "run", MayEndAt(prog, t, thr[t].pc), ~Lends(prog, t),
           thr' = [thr EXCEPT ![t].st = "unwind"],
           UNCHANGED <<program, mem, owner>>
    PROVE  IInv'
  <1> DEFINE w2 == [thr[t] EXCEPT !.st = "unwind"]
  <1>1. /\ prog \in DOMAIN Code /\ t \in DOMAIN Code[prog] /\ ThrShape
        /\ thr[t] \in Thread /\ ThreadInv(prog, t, thr[t])
    BY Before
  <1>2. thr' = [thr EXCEPT ![t] = w2]
    BY <1>1 DEF ThrShape
  <1>3. /\ Onward(prog, t, thr[t], w2) /\ NotSpending(prog, t, thr[t], w2)
        /\ Owns(prog, t, w2) = MarkAt(prog, t, thr[t].pc).held
    BY <1>1, Finishes
  <1> HIDE DEF w2
  <1>4. Keeps(prog, t, thr[t], w2)
    BY <1>3 DEF Keeps, Owns
  <1>5. Mild(prog, t, thr[t], w2)
    BY <1>3, <1>4 DEF Mild
  <1>6. proc' \in ProcStates
    BY DEF ProcStates
  <1> QED BY <1>2, <1>5, <1>6, MildOne

(* pthread_exit() and the return from the start function: a thread ends    *)
(* only where its handlers have all it holds.                              *)
LEMMA PthreadExitStep ==
    ASSUME Disciplined, IInv, NEW t \in Threads, pthread_exit(t)
    PROVE  IInv'
  <1>1. /\ prog \in DOMAIN Code /\ t \in DOMAIN Code[prog]
        /\ code = Code[prog] /\ ThreadInv(prog, t, thr[t])
        /\ Len(code[t]) \in Nat /\ thr[t].pc \in Nat
    BY Before
  <1>2. /\ proc = "run" /\ thr[t].st = "run"
        /\ MayEndAt(prog, t, thr[t].pc) /\ ~Lends(prog, t)
    <2>1. CASE Calls(t, "pthread_exit")
      <3>1. /\ proc = "run" /\ thr[t].st = "run"
            /\ thr[t].pc \in 1..Len(Code[prog][t])
            /\ Code[prog][t][thr[t].pc].op = "pthread_exit"
        BY <2>1, Calling
      <3>2. Lends(prog, t) => LenderOK(prog, t)
        BY <1>1, Rules
      <3> QED BY <3>1, <3>2 DEF MayEndAt, LenderOK
    <2>2. CASE Runs(t) /\ Returns(t)
      <3>1. thr[t].pc > Len(Code[prog][t])
        BY <1>1, <2>2 DEF Returns
      <3>2. /\ thr[t].pc \in Positions(Code[prog][t])
            /\ Lends(prog, t) => thr[t].pc <= Len(Code[prog][t])
        BY <1>1 DEF ThreadInv, PlaceInv
      <3>3. thr[t].pc = Len(Code[prog][t]) + 1
        BY <1>1, <3>1, <3>2 DEF Positions
      <3>4. ~Lends(prog, t)
        BY <1>1, <3>1, <3>2
      <3> QED BY <2>2, <3>3, <3>4 DEF MayEndAt, Runs
    <2> QED BY <2>1, <2>2 DEF pthread_exit
  <1> QED BY <1>2, UnwindFrom DEF pthread_exit

(* A canceled thread ends at a cancellation point, or anywhere when it is  *)
(* canceled asynchronously: the rules speak of all these places.           *)
LEMMA ActOnCancelStep ==
    ASSUME Disciplined, IInv, NEW t \in Threads, ActOnCancel(t)
    PROVE  IInv'
  <1>1. /\ prog \in DOMAIN Code /\ t \in DOMAIN Code[prog]
        /\ code = Code[prog] /\ ThreadInv(prog, t, thr[t])
    BY Before
  <1>2. IsCanceled(prog, t)
    BY Pends DEF ActOnCancel, Canceled
  <1>3. MayEndAt(prog, t, thr[t].pc)
    BY <1>1, <1>2, Pends DEF ActOnCancel, MayEndAt, NextCall
  <1>4. ~Lends(prog, t)
    BY <1>1, <1>2, Rules DEF LenderOK
  <1>5. proc = "run" /\ thr[t].st = "run"
    BY DEF ActOnCancel, Runs
  <1> QED BY <1>3, <1>4, <1>5, UnwindFrom DEF ActOnCancel

(* A step of one thread that goes on by one and changes nothing else. *)
LEMMA PlainAdvance ==
    ASSUME Disciplined, IInv, NEW t \in Threads, NEW op, Calls(t, op),
           op \notin MarkedOps \cup {"load", "skip", "jump", "exit",
                                     "pthread_exit"},
           Advance(t, 1), UNCHANGED <<program, proc, mem, owner>>
    PROVE  IInv'
  <1> DEFINE w2 == [thr[t] EXCEPT !.pc = @ + 1]
  <1>1. thr' = [thr EXCEPT ![t] = w2]
    BY Before DEF ThrShape, Advance
  <1>2. Mild(prog, t, thr[t], w2)
    BY PlainNext
  <1> HIDE DEF w2
  <1>3. proc' \in ProcStates
    BY Calling DEF ProcStates
  <1> QED BY <1>1, <1>2, <1>3, MildOne

(* sleep() and printf(). *)
LEMMA SleepStep ==
    ASSUME Disciplined, IInv, NEW t \in Threads, sleep(t)
    PROVE  IInv'
  <1>1. Calls(t, "sleep") \/ Calls(t, "printf")
    BY DEF sleep
  <1>2. Advance(t, 1) /\ UNCHANGED <<program, proc, mem, owner>>
    BY DEF sleep
  <1>3. CASE Calls(t, "sleep")
    BY <1>2, <1>3, PlainAdvance DEF MarkedOps
  <1>4. CASE Calls(t, "printf")
    BY <1>2, <1>4, PlainAdvance DEF MarkedOps
  <1> QED BY <1>1, <1>3, <1>4

(* Two threads are never about to use one variable, one of them to write   *)
(* it: they would hold one lock or one unit of a semaphore at a time.      *)
LEMMA NoRace ==
    ASSUME Disciplined, IInv, NEW t \in Threads, NEW u \in Threads, t # u,
           prog \notin Racy, thr[t].st = "run", thr[u].st = "run",
           thr[t].pc \in 1..Len(Code[prog][t]),
           thr[u].pc \in 1..Len(Code[prog][u]),
           Code[prog][t][thr[t].pc].op \in {"store", "set"},
           Uses(Code[prog][u][thr[u].pc], Code[prog][t][thr[t].pc].x)
    PROVE  FALSE
  <1>1. /\ prog \in DOMAIN Code /\ t \in DOMAIN Code[prog]
        /\ u \in DOMAIN Code[prog]
        /\ ThreadInv(prog, t, thr[t])
    BY Before
  <1>2. Excluded(prog, t, u)
    BY <1>1, Rules
  <1>3. PICK m : m \in Owns(prog, t, thr[t]) /\ m \in Owns(prog, u, thr[u])
    <2>1. Marks(Code[prog][t])[thr[t].pc].held
            \cap Marks(Code[prog][u])[thr[u].pc].held # {}
      BY <1>2 DEF Excluded
    <2>2. /\ Owns(prog, t, thr[t]) = Marks(Code[prog][t])[thr[t].pc].held
          /\ Owns(prog, u, thr[u]) = Marks(Code[prog][u])[thr[u].pc].held
      BY DEF Owns, MarkAt
    <2> QED BY <2>1, <2>2
  <1>4. m \in Locks \cup Semaphores(prog)
    <2>1. thr[t].pc \in Positions(Code[prog][t])
      BY <1>1 DEF ThreadInv, PlaceInv
    <2>2. Owns(prog, t, thr[t]) \subseteq Locks \cup Semaphores(prog)
      BY <1>1, <2>1, Rules DEF Owns
    <2> QED BY <1>3, <2>2
  <1>5. CASE m \in Locks
    BY <1>3, <1>5 DEF IInv, LockInv
  <1>6. CASE m \in Semaphores(prog)
    BY <1>3, <1>6 DEF IInv, SemInv
  <1> QED BY <1>4, <1>5, <1>6

(* A position before a call that spends is a load of what is spent. *)
LEMMA SpendAt ==
    ASSUME Disciplined, NEW p \in DOMAIN Code, NEW t \in DOMAIN Code[p],
           NEW i \in Nat, i < Len(Code[p][t]), i >= 1,
           Spends(Code[p][t], i + 1)
    PROVE  /\ p \notin Racy /\ Code[p][t][i].op = "load"
           /\ i \in 1..Len(Code[p][t])
           /\ Code[p][t][i].x = Code[p][t][i + 1].x
           /\ Code[p][t][i].x \in SpentVars(p)
           /\ \A j \in 1..Len(Code[p][t]) : i \in Successors(Code[p][t], j) =>
                /\ Code[p][t][j].op = "skip" /\ j # i - 1
                /\ Code[p][t][j].x = Code[p][t][i].x
                /\ Code[p][t][j].n[1] >= 1
  <1> DEFINE c == Code[p][t]
  <1>1. Len(c) \in Nat /\ \A k \in 1..Len(c) : SpendOK(p, c, k) /\ CallOK(p, t, k)
    BY Rules
  <1>2. i + 1 \in 1..Len(c) /\ (i + 1) - 1 = i /\ (i + 1) - 2 = i - 1
    BY <1>1
  <1>3. i \in 1..Len(c)
    BY <1>1
  <1>4. SpendOK(p, c, i + 1) /\ CallOK(p, t, i)
    BY <1>1, <1>2, <1>3
  <1>5. /\ p \notin Racy /\ c[i].op = "load" /\ c[i].x = c[i + 1].x
        /\ \A j \in 1..Len(c) : i \in Successors(c, j) =>
             /\ c[j].op = "skip" /\ j # i - 1 /\ c[j].x = c[i + 1].x
             /\ c[j].n[1] >= 1
    BY <1>2, <1>4 DEF SpendOK
  <1>6. c[i].x \in Vars
    BY <1>4, <1>5 DEF CallOK
  <1>7. c[i].x \in SpentVars(p)
    BY <1>2, <1>5, <1>6 DEF SpentVars
  <1> QED BY <1>3, <1>5, <1>7

(* A store: no other thread is about to load or to spend the variable, and *)
(* a semaphore is set only before there is a second thread.                *)
LEMMA StoreStep ==
    ASSUME Disciplined, IInv, NEW t \in Threads, store(t)
    PROVE  IInv'
  <1> DEFINE w == thr[t]
             c == Code[prog][t]
             x == c[w.pc].x
             w2 == [w EXCEPT !.pc = @ + 1]
             n == IF NextCall(t).op = "set" THEN N(t) ELSE w.loc + N(t)
  <1>1. PICK op \in {"store", "set"} : Calls(t, op)
    BY DEF store
  <1>2. /\ prog \in DOMAIN Code /\ t \in DOMAIN Code[prog]
        /\ code = Code[prog] /\ Threads = DOMAIN Code[prog]
        /\ w \in Thread /\ ThreadInv(prog, t, w) /\ ThrShape
        /\ \A u \in Threads : Mild(prog, u, thr[u], thr[u])
    BY Before
  <1>3. /\ proc = "run" /\ w.st = "run" /\ w.pc <= Len(c) /\ w.pc \in 1..Len(c)
        /\ c[w.pc].op = op /\ X(t) = x /\ CallOK(prog, t, w.pc)
        /\ NextCall(t).op = op /\ N(t) = c[w.pc].n
    BY <1>1, Calling
  <1>4. thr' = [thr EXCEPT ![t] = w2]
    BY <1>2 DEF ThrShape, store, Advance
  <1>5. Mild(prog, t, w, w2)
    BY <1>1, PlainNext DEF MarkedOps
  <1> HIDE DEF w2
  <1>6. /\ ThrShape' /\ thr'[t] = w2
        /\ \A u \in Threads : u # t => thr'[u] = thr[u]
        /\ UNCHANGED <<program, proc, owner>>
    BY <1>2, <1>4, OneThread DEF store
  <1>7. \A u \in Threads : /\ Onward(prog, u, thr[u], thr'[u])
                           /\ ThreadInv(prog, u, thr'[u])
                           /\ Keeps(prog, u, thr[u], thr'[u])
                           /\ NotSpending(prog, u, thr[u], thr'[u])
    BY <1>2, <1>5, <1>6 DEF Mild, Onward
  <1>8. /\ mem \in [Vars -> Nat]
        /\ owner \in [Locks -> Threads \cup {NoThread}]
    BY DEF IInv, ShapeInv
  <1>9. x \in Vars /\ n \in Nat
    <2>1. x \in Vars
      BY <1>3 DEF CallOK
    <2>2. CASE op = "set"
      BY <2>1, <2>2, <1>3 DEF CallOK
    <2>3. CASE op = "store"
      <3>1. c[w.pc].n \in Int /\ SpendOK(prog, c, w.pc)
        BY <1>2, <1>3, <2>3, Rules DEF CallOK
      <3>2. w.loc \in Nat
        BY <1>2 DEF Thread
      <3>3. c[w.pc].n < 0 => w.loc >= 1 /\ c[w.pc].n = -1
        BY <1>2, <1>3, <2>3, <3>1 DEF ThreadInv, PlaceInv, Spends, SpendOK
      <3>4. w.loc + c[w.pc].n \in Nat
        BY <3>1, <3>2, <3>3
      <3> QED BY <2>1, <2>3, <1>3, <3>4
    <2> QED BY <1>1, <2>2, <2>3
  <1>10. mem' = [mem EXCEPT ![x] = n]
    BY <1>3 DEF store
  <1> HIDE DEF n
  <1>11. /\ mem' \in [Vars -> Nat] /\ mem'[x] = n
         /\ \A v \in Vars : v # x => mem'[v] = mem[v]
    BY <1>8, <1>9, <1>10
  <1>12. ShapeInv' /\ ThreadsInv'
    <2>1. proc' \in ProcStates /\ owner' \in [Locks -> Threads \cup {NoThread}]
      BY <1>3, <1>6, <1>8 DEF ProcStates
    <2> QED BY <1>6, <1>7, <1>11, <2>1, ShapeStep
  <1>13. MadeInv'
    BY <1>6, <1>7, MadeStep
  <1>14. LockInv'
    BY <1>6, <1>7, QuietLocks
  <1>15. SpendInv'
    <2>1. ASSUME NEW u \in Threads, thr[u].st = "run",
                 thr[u].pc < Len(code[u]), Spends(code[u], thr[u].pc + 1)
          PROVE  mem'[code[u][thr[u].pc].x] = mem[code[u][thr[u].pc].x]
      <3>1. thr[u].pc \in Nat /\ thr[u].pc >= 1
        <4>1. thr[u].pc \in Positions(Code[prog][u]) /\ thr[u].pc \in Nat
          BY <2>1, Before DEF ThreadInv, PlaceInv
        <4> QED BY <4>1 DEF Positions
      <3>2. /\ prog \notin Racy /\ Code[prog][u][thr[u].pc].op = "load"
            /\ thr[u].pc \in 1..Len(Code[prog][u])
            /\ Code[prog][u][thr[u].pc].x \in SpentVars(prog)
        BY <1>2, <2>1, <3>1, SpendAt
      <3>3. Code[prog][u][thr[u].pc].x # x
        <4>1. u # t
          BY <1>1, <1>3, <3>2
        <4>2. SUFFICES ASSUME Code[prog][u][thr[u].pc].x = x PROVE FALSE
          OBVIOUS
        <4>3. Uses(Code[prog][u][thr[u].pc], x)
          BY <3>2, <4>2 DEF Uses
        <4> QED BY <1>1, <1>3, <2>1, <3>2, <4>1, <4>3, NoRace
      <3> QED BY <1>2, <1>11, <3>2, <3>3 DEF SpentVars
    <2> QED BY <1>6, <1>7, <2>1, QuietSpends
  <1>16. SemInv'
    <2>1. CASE x \notin Semaphores(prog)
      <3>1. \A s \in Semaphores(prog) : mem'[s] = mem[s]
        BY <1>11, <2>1 DEF Semaphores
      <3> QED BY <1>6, <1>7, <3>1, QuietSems DEF Keeps
    <2>2. CASE x \in Semaphores(prog)
      <3>1. /\ op = "set" /\ c[w.pc].n = 1 /\ t = "main"
            /\ MarkAt(prog, t, w.pc).made = {}
            /\ x \notin MarkAt(prog, t, w.pc).held
        BY <1>1, <1>3, <2>2 DEF CallOK, MarkAt
      <3>2. \A u \in Threads : u # t => thr[u].st = "none"
        BY <3>1 DEF IInv, MadeInv
      <3>3. \A u \in Threads : x \notin Owns(prog, u, thr[u])
        BY <1>3, <3>1, <3>2 DEF Owns
      <3>4. n = 1
        BY <1>3, <3>1 DEF n
      <3>5. Threads' = Threads /\ prog' = prog
        BY <1>6 DEF Threads, program
      <3>6. \A u \in Threads : Owns(prog, u, thr'[u]) = Owns(prog, u, thr[u])
        BY <1>7 DEF Keeps
      <3>7. ASSUME NEW s \in Semaphores(prog)
            PROVE  /\ mem'[s] \in {0, 1}
                   /\ \A u \in Threads : s \in Owns(prog, u, thr'[u]) =>
                        /\ mem'[s] = 0
                        /\ \A v \in Threads \ {u} :
                             s \notin Owns(prog, v, thr'[v])
        <4>1. CASE s = x
          BY <4>1, <3>3, <3>4, <3>6, <1>11
        <4>2. CASE s # x
          <5>1. mem'[s] = mem[s]
            BY <4>2, <1>11 DEF Semaphores
          <5> QED BY <5>1, <3>6 DEF IInv, SemInv
        <4> QED BY <4>1, <4>2
      <3> QED BY <3>5, <3>7 DEF SemInv
    <2> QED BY <2>1, <2>2
  <1> QED BY <1>12, <1>13, <1>14, <1>15, <1>16 DEF IInv

(* A test and a jump: behind a test that succeeds there is something to    *)
(* spend.                                                                  *)
LEMMA BranchStep ==
    ASSUME Disciplined, IInv, NEW t \in Threads, branch(t)
    PROVE  IInv'
  <1> DEFINE w == thr[t]
             c == Code[prog][t]
  <1>1. /\ prog \in DOMAIN Code /\ t \in DOMAIN Code[prog]
        /\ code = Code[prog] /\ Threads = DOMAIN Code[prog]
        /\ w \in Thread /\ ThreadInv(prog, t, w) /\ ThrShape
        /\ w.pc \in Nat /\ Len(c) \in Nat
        /\ \A u \in Threads : Mild(prog, u, thr[u], thr[u])
    BY Before
  <1>2. UNCHANGED <<program, proc, mem, owner>>
    BY DEF branch
  <1>3. CASE Calls(t, "arg") /\ Advance(t, 1)
    BY <1>2, <1>3, PlainAdvance DEF MarkedOps
  <1>4. ASSUME NEW op \in {"jump", "skip"}, Calls(t, op), NEW n, Advance(t, n),
               w.pc + n \in Successors(c, w.pc),
               op = "skip" => \/ n = 1
                              \/ mem[c[w.pc].x] >= c[w.pc].n[1]
        PROVE  IInv'
    <2> DEFINE w2 == [w EXCEPT !.pc = w.pc + n]
    <2>1. /\ proc = "run" /\ w.st = "run" /\ w.pc <= Len(c)
          /\ w.pc \in 1..Len(c) /\ c[w.pc].op = op
          /\ CallOK(prog, t, w.pc) /\ FlowOK(c, w.pc)
      BY <1>4, Calling
    <2>2. w.pc + n \in Positions(c)
      BY <1>4, <2>1 DEF FlowOK
    <2>3. w.pc + n \in Nat /\ w.pc + n >= 1
      BY <1>1, <2>2 DEF Positions
    <2>4. thr' = [thr EXCEPT ![t] = w2]
      BY <1>1, <1>4 DEF ThrShape, Advance
    <2>5. /\ w2 \in Thread /\ w2.st = w.st /\ w2.pc = w.pc + n
          /\ w2.stack = w.stack /\ w2.heap = w.heap
          /\ w2.specific = w.specific /\ w2.async = w.async
          /\ w2.pend = w.pend
      BY <1>1, <2>3 DEF Thread
    <2> HIDE DEF w2
    <2>6. /\ w2.async => IsAsync(c)
          /\ w2.pend => IsCanceled(prog, t)
      BY <2>5, Pends
    <2>7. /\ Onward(prog, t, w, w2) /\ Keeps(prog, t, w, w2)
          /\ op # "skip" => NotSpending(prog, t, w, w2)
      BY <1>1, <1>4, <2>1, <2>5, <2>6, GoesOn DEF MarkedOps
    <2>8. proc' \in ProcStates
      BY <1>2, <2>1 DEF ProcStates
    <2>9. CASE op = "jump"
      <3>1. Mild(prog, t, w, w2)
        BY <2>7, <2>9 DEF Mild
      <3> QED BY <1>2, <2>4, <2>8, <3>1, MildOne
    <2>10. CASE op = "skip"
      <3>1. /\ ThrShape' /\ thr'[t] = w2
            /\ \A u \in Threads : u # t => thr'[u] = thr[u]
        BY <1>1, <1>2, <2>4, OneThread
      <3>2. \A u \in Threads : /\ Onward(prog, u, thr[u], thr'[u])
                               /\ ThreadInv(prog, u, thr'[u])
                               /\ Keeps(prog, u, thr[u], thr'[u])
        BY <1>1, <2>7, <3>1 DEF Mild, Onward
      <3>3. /\ mem' = mem /\ owner' = owner /\ mem' \in [Vars -> Nat]
            /\ owner' \in [Locks -> Threads \cup {NoThread}]
        BY <1>2 DEF IInv, ShapeInv
      <3>4. ShapeInv' /\ ThreadsInv'
        BY <1>2, <2>8, <3>1, <3>2, <3>3, ShapeStep
      <3>5. MadeInv'
        BY <1>2, <3>2, MadeStep
      <3>6. LockInv'
        BY <1>2, <3>2, QuietLocks
      <3>7. SemInv'
        BY <1>2, <3>2, <3>3, QuietSems DEF Keeps
      <3>8. SpendInv'
        <4>1. Threads' = Threads /\ code' = code
          BY <1>2 DEF Threads, program
        <4> SUFFICES ASSUME NEW u \in Threads, thr'[u].st = "run",
                            thr'[u].pc < Len(code[u]),
                            Spends(code[u], thr'[u].pc + 1)
                     PROVE  mem[code[u][thr'[u].pc].x] >= 1
          BY <3>3, <4>1 DEF SpendInv
        <4>2. CASE u # t
          BY <3>1, <4>2 DEF IInv, SpendInv
        <4>3. CASE u = t
          <5>1. w2.pc \in Nat /\ w2.pc < Len(c) /\ w2.pc >= 1
                /\ Spends(c, w2.pc + 1)
            BY <1>1, <2>3, <2>5, <3>1, <4>3
          <5>2. /\ c[w.pc].x = c[w2.pc].x /\ c[w.pc].n[1] >= 1
                /\ w.pc # w2.pc - 1
            BY <1>1, <1>4, <2>1, <2>5, <5>1, SpendAt
          <5>3. n # 1
            BY <1>1, <2>5, <5>2
          <5>4. mem[c[w.pc].x] >= c[w.pc].n[1]
            BY <1>4, <2>10, <5>3
          <5>5. mem[c[w.pc].x] \in Nat /\ c[w.pc].n[1] \in Nat
            BY <2>1, <2>10, <3>3 DEF CallOK
          <5>6. mem[c[w2.pc].x] >= 1
            BY <5>2, <5>4, <5>5
          <5> QED BY <1>1, <3>1, <4>3, <5>6
        <4> QED BY <4>2, <4>3
      <3> QED BY <3>4, <3>5, <3>6, <3>7, <3>8 DEF IInv
    <2> QED BY <1>4, <2>9, <2>10
  <1>5. CASE Calls(t, "jump") /\ Advance(t, N(t))
    <2>1. N(t) = c[w.pc].n /\ c[w.pc].op = "jump"
      BY <1>5, Calling
    <2>2. w.pc + N(t) \in Successors(c, w.pc)
      BY <2>1 DEF Successors
    <2> QED BY <1>5, <2>2, <1>4
  <1>6. ASSUME Calls(t, "skip"),
               Advance(t, IF mem[X(t)] >= N(t)[1] THEN N(t)[2] ELSE 1)
        PROVE  IInv'
    <2>1. N(t) = c[w.pc].n /\ X(t) = c[w.pc].x /\ c[w.pc].op = "skip"
      BY <1>6, Calling
    <2>2. CASE mem[X(t)] >= N(t)[1]
      <3>1. w.pc + N(t)[2] \in Successors(c, w.pc)
        BY <2>1 DEF Successors
      <3>2. Advance(t, N(t)[2])
        BY <1>6, <2>2
      <3> QED BY <1>4, <1>6, <2>1, <2>2, <3>1, <3>2
    <2>3. CASE ~(mem[X(t)] >= N(t)[1])
      <3>1. w.pc + 1 \in Successors(c, w.pc)
        BY <2>1 DEF Successors
      <3>2. Advance(t, 1)
        BY <1>6, <2>3
      <3> QED BY <1>4, <1>6, <2>1, <3>1, <3>2
    <2> QED BY <2>2, <2>3
  <1> QED BY <1>3, <1>5, <1>6 DEF branch

(* A step that changes the owner of a lock. *)
LEMMA OwnerStep ==
    ASSUME Disciplined, IInv, UNCHANGED <<program, mem>>, ThrShape',
           proc' \in ProcStates, LockInv',
           owner' \in [Locks -> Threads \cup {NoThread}],
           NEW t \in Threads, Onward(prog, t, thr[t], thr'[t]),
           NotSpending(prog, t, thr[t], thr'[t]), NEW x,
           x \in Locks \/ Owns(prog, t, thr'[t]) \subseteq Owns(prog, t, thr[t]),
           Owns(prog, t, thr'[t]) \subseteq Owns(prog, t, thr[t]) \cup {x},
           \A u \in Threads : u # t => thr'[u] = thr[u]
    PROVE  IInv'
  <1>1. \A u \in Threads : Mild(prog, u, thr[u], thr[u])
    BY Before
  <1>2. \A u \in Threads : /\ Onward(prog, u, thr[u], thr'[u])
                           /\ ThreadInv(prog, u, thr'[u])
                           /\ NotSpending(prog, u, thr[u], thr'[u])
    BY <1>1 DEF Mild, Onward
  <1>3. mem' = mem /\ mem' \in [Vars -> Nat]
    BY DEF IInv, ShapeInv
  <1>4. ShapeInv' /\ ThreadsInv'
    BY <1>2, <1>3, ShapeStep
  <1>5. MadeInv'
    BY <1>2, MadeStep
  <1>6. SpendInv'
    BY <1>2, <1>3, QuietSpends
  <1>7. \A s \in Semaphores(prog) : s \notin Locks
    BY Names DEF Semaphores
  <1>8. \A u \in Threads : \A s \in Semaphores(prog) :
          s \in Owns(prog, u, thr'[u]) => s \in Owns(prog, u, thr[u])
    BY <1>7
  <1>9. SemInv'
    BY <1>3, <1>8, QuietSems
  <1> QED BY <1>4, <1>5, <1>6, <1>9 DEF IInv

(* pthread_mutex_lock(), the other locks, and their release. *)
LEMMA LockStep ==
    ASSUME Disciplined, IInv, NEW t \in Threads, lock(t) \/ unlock(t)
    PROVE  IInv'
  <1> DEFINE w == thr[t]
             c == Code[prog][t]
             x == c[w.pc].x
             w2 == [w EXCEPT !.pc = @ + 1]
  <1>1. PICK op \in {"lock", "unlock"} : Calls(t, op)
    BY DEF lock, unlock
  <1>2. /\ prog \in DOMAIN Code /\ t \in DOMAIN Code[prog]
        /\ w \in Thread /\ ThreadInv(prog, t, w) /\ ThrShape
        /\ NoThread \notin Threads
        /\ \A u \in Threads : Mild(prog, u, thr[u], thr[u])
    BY Before
  <1>3. /\ proc = "run" /\ w.st = "run" /\ w.pc <= Len(c)
        /\ c[w.pc].op = op /\ X(t) = x /\ CallOK(prog, t, w.pc)
    BY <1>1, Calling
  <1>4. UNCHANGED <<program, proc, mem>> /\ Advance(t, 1)
    BY DEF lock, unlock
  <1>5. thr' = [thr EXCEPT ![t] = w2]
    BY <1>2, <1>4 DEF ThrShape, Advance
  <1>6. /\ Onward(prog, t, w, w2) /\ NotSpending(prog, t, w, w2)
        /\ op = "lock" => Owns(prog, t, w2) = Owns(prog, t, w) \cup {x}
        /\ op = "unlock" => Owns(prog, t, w2) = Owns(prog, t, w) \ {x}
    BY <1>1, <1>2, <1>3, Holds
  <1> HIDE DEF w2
  <1>7. /\ ThrShape' /\ thr'[t] = w2
        /\ \A u \in Threads : u # t => thr'[u] = thr[u]
    BY <1>2, <1>4, <1>5, OneThread
  <1>8. \A u \in Threads : u # t => Keeps(prog, u, thr[u], thr'[u])
    BY <1>7 DEF Keeps
  <1>9. x \in Locks
    BY <1>1, <1>3 DEF CallOK
  <1>10. LockInv' /\ owner' \in [Locks -> Threads \cup {NoThread}]
    <2>1. CASE op = "lock"
      <3>1. owner[x] = NoThread /\ owner' = [owner EXCEPT ![x] = t]
        BY <1>1, <1>3, <2>1 DEF lock, unlock, Calls
      <3> QED BY <1>2, <1>4, <1>6, <1>7, <1>8, <1>9, <2>1, <3>1, TakenLock
    <2>2. CASE op = "unlock"
      <3>1. owner' = [owner EXCEPT ![x] = NoThread]
        BY <1>1, <1>3, <2>2 DEF lock, unlock, Calls
      <3>2. x \in Owns(prog, t, w)
        BY <1>3, <2>2 DEF CallOK, Owns, MarkAt
      <3> QED BY <1>2, <1>4, <1>6, <1>7, <1>8, <1>9, <2>2, <3>1, <3>2,
                 GivenLock
    <2> QED BY <1>1, <2>1, <2>2
  <1>11. proc' \in ProcStates
    BY <1>3, <1>4 DEF ProcStates
  <1>12. Owns(prog, t, thr'[t]) \subseteq Owns(prog, t, w) \cup {x}
    BY <1>1, <1>6, <1>7
  <1> QED BY <1>4, <1>6, <1>7, <1>9, <1>10, <1>11, <1>12, OwnerStep

(* pthread_cond_wait() gives the mutex back, *)
LEMMA CondWaitStep ==
    ASSUME Disciplined, IInv, NEW t \in Threads, cond_wait(t)
    PROVE  IInv'
  <1>0. PICK st : st = "wait"
    OBVIOUS
  <1> DEFINE w == thr[t]
             c == Code[prog][t]
             x == c[w.pc].x
             w2 == [w EXCEPT !.st = st]
  <1>1. /\ Calls(t, "cond_wait") /\ UNCHANGED <<program, proc, mem>>
        /\ owner' = [owner EXCEPT ![X(t)] = NoThread]
        /\ thr' = [thr EXCEPT ![t].st = "wait"]
    BY DEF cond_wait
  <1>2. /\ prog \in DOMAIN Code /\ t \in DOMAIN Code[prog]
        /\ w \in Thread /\ ThreadInv(prog, t, w) /\ ThrShape
        /\ NoThread \notin Threads
    BY Before
  <1>3. /\ proc = "run" /\ w.st = "run" /\ w.pc <= Len(c)
        /\ c[w.pc].op = "cond_wait" /\ X(t) = x
    BY <1>1, Calling
  <1>4. thr' = [thr EXCEPT ![t] = w2]
    BY <1>0, <1>1, <1>2 DEF ThrShape
  <1>5. /\ Onward(prog, t, w, w2) /\ NotSpending(prog, t, w, w2)
        /\ x \in Locks /\ x \in Owns(prog, t, w)
        /\ Owns(prog, t, w2) = Owns(prog, t, w) \ {x}
    BY <1>0, <1>2, <1>3, Waits
  <1> HIDE DEF w2
  <1>6. /\ ThrShape' /\ thr'[t] = w2
        /\ \A u \in Threads : u # t => thr'[u] = thr[u]
    BY <1>1, <1>2, <1>4, OneThread
  <1>7. \A u \in Threads : u # t => Keeps(prog, u, thr[u], thr'[u])
    BY <1>6 DEF Keeps
  <1>8. LockInv' /\ owner' \in [Locks -> Threads \cup {NoThread}]
    BY <1>1, <1>2, <1>3, <1>5, <1>6, <1>7, GivenLock
  <1>9. proc' \in ProcStates
    BY <1>1, <1>3 DEF ProcStates
  <1>10. Owns(prog, t, thr'[t]) \subseteq Owns(prog, t, w) \cup {x}
    BY <1>5, <1>6
  <1> QED BY <1>1, <1>5, <1>6, <1>8, <1>9, <1>10, OwnerStep

(* and takes it again, to go on or, when the thread was canceled, to run   *)
(* the handlers.                                                           *)
LEMMA RelockStep ==
    ASSUME Disciplined, IInv, NEW t \in Threads, relock(t)
    PROVE  IInv'
  <1> DEFINE w == thr[t]
             c == Code[prog][t]
             x == c[w.pc].x
             w2 == thr'[t]
  <1>1. /\ proc = "run" /\ w.st \in {"wait", "relock"}
        /\ owner[X(t)] = NoThread /\ owner' = [owner EXCEPT ![X(t)] = t]
        /\ UNCHANGED <<program, proc, mem>>
    BY DEF relock
  <1>2. /\ prog \in DOMAIN Code /\ t \in DOMAIN Code[prog]
        /\ code = Code[prog]
        /\ w \in Thread /\ ThreadInv(prog, t, w) /\ ThrShape
        /\ NoThread \notin Threads /\ Len(c) \in Nat /\ w.pc \in Nat
    BY Before
  <1>3. /\ w.pc \in Positions(c) /\ w.pc <= Len(c)
        /\ c[w.pc].op = "cond_wait"
    BY <1>1, <1>2 DEF ThreadInv, PlaceInv
  <1>4. w.pc \in 1..Len(c)
    BY <1>2, <1>3 DEF Positions
  <1>5. CallOK(prog, t, w.pc)
    BY <1>2, <1>4, Rules
  <1>6. /\ x \in Locks /\ x \in MarkAt(prog, t, w.pc).held /\ X(t) = x
        /\ Owns(prog, t, w) = MarkAt(prog, t, w.pc).held \ {x}
    BY <1>1, <1>2, <1>3, <1>5 DEF CallOK, MarkAt, Owns, X, NextCall
  <1>7. /\ ThrShape' /\ \A u \in Threads : u # t => thr'[u] = thr[u]
        /\ Onward(prog, t, w, thr'[t]) /\ NotSpending(prog, t, w, thr'[t])
        /\ Owns(prog, t, thr'[t]) = MarkAt(prog, t, w.pc).held
    <2>1. ASSUME w.st = "relock",
                 thr' = [thr EXCEPT ![t].st = "run", ![t].pc = @ + 1]
          PROVE  <1>7!:
      <3> DEFINE v2 == [w EXCEPT !.st = "run", !.pc = @ + 1]
      <3>1. thr' = [thr EXCEPT ![t] = v2]
        BY <1>2, <2>1 DEF ThrShape
      <3>2. w.pc + 1 \in Nat
        BY <1>2
      <3>3. /\ v2 \in Thread /\ v2.st = "run" /\ v2.pc = w.pc + 1
            /\ v2.stack = w.stack /\ v2.heap = w.heap
            /\ v2.specific = w.specific /\ v2.async = w.async
            /\ v2.pend = w.pend
        BY <1>2, <3>2 DEF Thread
      <3> HIDE DEF v2
      <3>4. v2.pc \in Successors(c, w.pc)
        BY <1>3, <3>3 DEF Successors
      <3>5. /\ v2.async => IsAsync(c)
            /\ v2.pend => IsCanceled(prog, t)
        BY <3>3, Pends
      <3>6. /\ Onward(prog, t, w, v2) /\ NotSpending(prog, t, w, v2)
            /\ Owns(prog, t, v2) = MarkAt(prog, t, w.pc).held
        BY <1>2, <1>3, <2>1, <3>3, <3>4, <3>5, GoesOn DEF MarkedOps
      <3>7. /\ ThrShape' /\ thr'[t] = v2
            /\ \A u \in Threads : u # t => thr'[u] = thr[u]
        BY <1>1, <1>2, <3>1, OneThread
      <3> QED BY <3>6, <3>7
    <2>2. ASSUME w.st = "wait", Canceled(t),
                 thr' = [thr EXCEPT ![t].st = "unwind"]
          PROVE  <1>7!:
      <3> DEFINE v2 == [w EXCEPT !.st = "unwind"]
      <3>1. thr' = [thr EXCEPT ![t] = v2]
        BY <1>2, <2>2 DEF ThrShape
      <3>2. IsCanceled(prog, t)
        BY <2>2, Pends DEF Canceled
      <3>3. MayEndAt(prog, t, w.pc)
        BY <1>3, <3>2 DEF MayEndAt
      <3>4. ~Lends(prog, t)
        BY <1>2, <3>2, Rules DEF LenderOK
      <3>5. /\ Onward(prog, t, w, v2) /\ NotSpending(prog, t, w, v2)
            /\ Owns(prog, t, v2) = MarkAt(prog, t, w.pc).held
        BY <1>2, <2>2, <3>3, <3>4, Finishes
      <3> HIDE DEF v2
      <3>6. /\ ThrShape' /\ thr'[t] = v2
            /\ \A u \in Threads : u # t => thr'[u] = thr[u]
        BY <1>1, <1>2, <3>1, OneThread
      <3> QED BY <3>5, <3>6
    <2> QED BY <2>1, <2>2 DEF relock
  <1>8. \A u \in Threads : u # t => Keeps(prog, u, thr[u], thr'[u])
    BY <1>7 DEF Keeps
  <1>9. Owns(prog, t, thr'[t]) = Owns(prog, t, w) \cup {x}
    BY <1>6, <1>7
  <1>10. LockInv' /\ owner' \in [Locks -> Threads \cup {NoThread}]
    BY <1>1, <1>2, <1>6, <1>8, <1>9, TakenLock
  <1>11. proc' \in ProcStates
    BY <1>1 DEF ProcStates
  <1> QED BY <1>1, <1>6, <1>7, <1>9, <1>10, <1>11, OwnerStep

(* A step that changes a variable which nothing spends. *)
LEMMA MemStep ==
    ASSUME Disciplined, IInv, UNCHANGED <<program, owner>>, ThrShape',
           proc' \in ProcStates, mem' \in [Vars -> Nat],
           \A v \in SpentVars(prog) : mem'[v] = mem[v],
           \A u \in Threads : /\ Onward(prog, u, thr[u], thr'[u])
                              /\ NotSpending(prog, u, thr[u], thr'[u]),
           \A u \in Threads : \A m \in Locks :
             m \in Owns(prog, u, thr'[u]) <=> m \in Owns(prog, u, thr[u]),
           SemInv'
    PROVE  IInv'
  <1>1. \A u \in Threads : ThreadInv(prog, u, thr'[u])
    BY DEF Onward
  <1>2. owner' \in [Locks -> Threads \cup {NoThread}] /\ owner' = owner
    BY DEF IInv, ShapeInv
  <1>3. ShapeInv' /\ ThreadsInv'
    BY <1>1, <1>2, ShapeStep
  <1>4. MadeInv'
    BY MadeStep
  <1>5. LockInv'
    <2>1. Threads' = Threads /\ prog' = prog
      BY DEF Threads, program
    <2> QED BY <1>2, <2>1 DEF IInv, LockInv
  <1>6. SpendInv'
    <2>1. ASSUME NEW u \in Threads, thr[u].st = "run",
                 thr[u].pc < Len(code[u]), Spends(code[u], thr[u].pc + 1)
          PROVE  mem'[code[u][thr[u].pc].x] = mem[code[u][thr[u].pc].x]
      <3>1. /\ prog \in DOMAIN Code /\ u \in DOMAIN Code[prog]
            /\ code = Code[prog] /\ thr[u].pc \in Nat
            /\ ThreadInv(prog, u, thr[u])
        BY Before
      <3>2. thr[u].pc >= 1
        <4>1. thr[u].pc \in Positions(Code[prog][u])
          BY <3>1 DEF ThreadInv, PlaceInv
        <4> QED BY <3>1, <4>1 DEF Positions
      <3>3. code[u][thr[u].pc].x \in SpentVars(prog)
        BY <2>1, <3>1, <3>2, SpendAt
      <3> QED BY <3>3
    <2> QED BY <2>1, QuietSpends
  <1> QED BY <1>3, <1>4, <1>5, <1>6 DEF IInv

(* sem_wait() and sem_post(): there is one unit, in the semaphore or with  *)
(* one thread.                                                             *)
LEMMA SemaphoreStep ==
    ASSUME Disciplined, IInv, NEW t \in Threads, semaphore(t)
    PROVE  IInv'
  <1> DEFINE w == thr[t]
             c == Code[prog][t]
             x == c[w.pc].x
             w2 == [w EXCEPT !.pc = @ + 1]
  <1>1. PICK op \in {"sem_wait", "sem_post"} :
          /\ Calls(t, op)
          /\ op = "sem_wait" => /\ mem[X(t)] > 0
                                /\ mem' = [mem EXCEPT ![X(t)] = @ - 1]
          /\ op = "sem_post" => mem' = [mem EXCEPT ![X(t)] = @ + 1]
    BY DEF semaphore
  <1>2. /\ prog \in DOMAIN Code /\ t \in DOMAIN Code[prog]
        /\ w \in Thread /\ ThreadInv(prog, t, w) /\ ThrShape
        /\ \A u \in Threads : Mild(prog, u, thr[u], thr[u])
    BY Before
  <1>3. /\ proc = "run" /\ w.st = "run" /\ w.pc <= Len(c) /\ w.pc \in 1..Len(c)
        /\ c[w.pc].op = op /\ X(t) = x /\ CallOK(prog, t, w.pc)
        /\ c[w.pc].op \in {"sem_wait", "sem_post"}
    BY <1>1, Calling
  <1>4. UNCHANGED <<program, proc, owner>> /\ Advance(t, 1)
    BY DEF semaphore
  <1>5. thr' = [thr EXCEPT ![t] = w2]
    BY <1>2, <1>4 DEF ThrShape, Advance
  <1>6. /\ Onward(prog, t, w, w2) /\ NotSpending(prog, t, w, w2)
        /\ op = "sem_wait" => Owns(prog, t, w2) = Owns(prog, t, w) \cup {x}
        /\ op = "sem_post" => Owns(prog, t, w2) = Owns(prog, t, w) \ {x}
    BY <1>2, <1>3, Holds
  <1> HIDE DEF w2
  <1>7. /\ ThrShape' /\ thr'[t] = w2
        /\ \A u \in Threads : u # t => thr'[u] = thr[u]
    BY <1>2, <1>4, <1>5, OneThread
  <1>8. \A u \in Threads : /\ Onward(prog, u, thr[u], thr'[u])
                           /\ NotSpending(prog, u, thr[u], thr'[u])
    BY <1>2, <1>6, <1>7 DEF Mild
  <1>9. x \in Vars /\ x \notin SpentVars(prog)
    BY <1>1, <1>3 DEF CallOK
  <1>10. x \in Semaphores(prog) /\ x \notin Locks
    BY <1>1, <1>2, <1>3, <1>9, Names DEF Semaphores
  <1>11. /\ mem \in [Vars -> Nat] /\ mem[x] \in {0, 1}
         /\ \A u \in Threads : x \in Owns(prog, u, thr[u]) =>
              mem[x] = 0 /\ \A v \in Threads \ {u} :
                               x \notin Owns(prog, v, thr[v])
    BY <1>10 DEF IInv, ShapeInv, SemInv
  <1>12. /\ mem' \in [Vars -> Nat]
         /\ \A v \in Vars : v # x => mem'[v] = mem[v]
         /\ op = "sem_wait" =>
              /\ mem[x] = 1 /\ mem'[x] = 0
              /\ \A u \in Threads : x \notin Owns(prog, u, thr[u])
         /\ op = "sem_post" =>
              /\ mem'[x] = 1
              /\ \A u \in Threads : u # t => x \notin Owns(prog, u, thr[u])
    <2>1. CASE op = "sem_wait"
      <3>1. mem[x] = 1
        BY <1>1, <1>3, <1>11, <2>1
      <3>2. mem' = [mem EXCEPT ![x] = 0]
        BY <1>1, <1>3, <2>1, <3>1
      <3> QED BY <1>9, <1>11, <2>1, <3>1, <3>2
    <2>2. CASE op = "sem_post"
      <3>1. x \in Owns(prog, t, w)
        BY <1>3, <2>2 DEF CallOK, Owns, MarkAt
      <3>2. mem[x] = 0
        BY <1>11, <3>1
      <3>3. mem' = [mem EXCEPT ![x] = 1]
        BY <1>1, <1>3, <2>2, <3>2
      <3> QED BY <1>9, <1>11, <2>2, <3>1, <3>3
    <2> QED BY <1>1, <2>1, <2>2
  <1>13. \A v \in SpentVars(prog) : mem'[v] = mem[v]
    BY <1>9, <1>12 DEF SpentVars
  <1>14. \A u \in Threads : \A m \in Locks :
           m \in Owns(prog, u, thr'[u]) <=> m \in Owns(prog, u, thr[u])
    BY <1>1, <1>6, <1>7, <1>10
  <1>15. SemInv'
    <2>1. Threads' = Threads /\ prog' = prog
      BY <1>4 DEF Threads, program
    <2>2. ASSUME NEW s \in Semaphores(prog)
          PROVE  /\ mem'[s] \in {0, 1}
                 /\ \A u \in Threads : s \in Owns(prog, u, thr'[u]) =>
                      /\ mem'[s] = 0
                      /\ \A v \in Threads \ {u} :
                           s \notin Owns(prog, v, thr'[v])
      <3>1. CASE s = x
        <4>1. CASE op = "sem_wait"
          BY <3>1, <4>1, <1>6, <1>7, <1>12
        <4>2. CASE op = "sem_post"
          BY <3>1, <4>2, <1>6, <1>7, <1>12
        <4> QED BY <1>1, <4>1, <4>2
      <3>2. CASE s # x
        <4>1. mem'[s] = mem[s]
          BY <3>2, <1>12 DEF Semaphores
        <4>2. \A u \in Threads : s \in Owns(prog, u, thr'[u]) <=>
                                 s \in Owns(prog, u, thr[u])
          BY <3>2, <1>1, <1>6, <1>7
        <4> QED BY <4>1, <4>2 DEF IInv, SemInv
      <3> QED BY <3>1, <3>2
    <2> QED BY <2>1, <2>2 DEF SemInv
  <1>16. proc' \in ProcStates
    BY <1>3, <1>4 DEF ProcStates
  <1> QED BY <1>4, <1>7, <1>8, <1>12, <1>13, <1>14, <1>15, <1>16, MemStep

(* A variable that is neither spent nor a semaphore. *)
LEMMA FreeVar ==
    ASSUME Disciplined, IInv, UNCHANGED <<program, owner>>, ThrShape',
           proc' \in ProcStates, mem' \in [Vars -> Nat],
           \A v \in Vars : v \in SpentVars(prog) \cup Semaphores(prog) =>
             mem'[v] = mem[v],
           \A u \in Threads : Mild(prog, u, thr[u], thr'[u])
    PROVE  IInv'
  <1>1. \A u \in Threads : /\ Onward(prog, u, thr[u], thr'[u])
                           /\ Keeps(prog, u, thr[u], thr'[u])
                           /\ NotSpending(prog, u, thr[u], thr'[u])
    BY DEF Mild
  <1>2. /\ \A v \in SpentVars(prog) : mem'[v] = mem[v]
        /\ \A v \in Semaphores(prog) : mem'[v] = mem[v]
    BY DEF SpentVars, Semaphores
  <1>3. SemInv'
    BY <1>1, <1>2, QuietSems DEF Keeps
  <1>4. \A u \in Threads : Owns(prog, u, thr'[u]) = Owns(prog, u, thr[u])
    BY <1>1 DEF Keeps
  <1> QED BY <1>1, <1>2, <1>3, <1>4, MemStep

(* pthread_once(). *)
LEMMA OnceStep ==
    ASSUME Disciplined, IInv, NEW t \in Threads, pthread_once(t)
    PROVE  IInv'
  <1> DEFINE w == thr[t]
             c == Code[prog][t]
             x == c[w.pc].x
             n == c[w.pc].n
             w2 == [w EXCEPT !.pc = @ + 1]
  <1>1. /\ Calls(t, "pthread_once") /\ Advance(t, 1)
        /\ UNCHANGED <<program, proc, owner>>
        /\ mem' = IF mem[X(t)] = 0
                  THEN [mem EXCEPT ![X(t)] = 1, ![N(t)] = @ + 1] ELSE mem
    BY DEF pthread_once
  <1>2. ThrShape /\ \A u \in Threads : Mild(prog, u, thr[u], thr[u])
    BY Before
  <1>3. /\ proc = "run" /\ c[w.pc].op = "pthread_once" /\ X(t) = x
        /\ N(t) = n /\ CallOK(prog, t, w.pc)
    BY <1>1, Calling
  <1>4. thr' = [thr EXCEPT ![t] = w2]
    BY <1>1, <1>2 DEF ThrShape, Advance
  <1>5. Mild(prog, t, w, w2)
    BY <1>1, PlainNext DEF MarkedOps
  <1> HIDE DEF w2
  <1>6. /\ ThrShape' /\ thr'[t] = w2
        /\ \A u \in Threads : u # t => thr'[u] = thr[u]
    BY <1>1, <1>2, <1>4, OneThread
  <1>7. \A u \in Threads : Mild(prog, u, thr[u], thr'[u])
    BY <1>2, <1>5, <1>6
  <1>8. /\ x \in Vars /\ x \notin SpentVars(prog) \cup Semaphores(prog)
        /\ n \in Vars /\ n \notin SpentVars(prog) \cup Semaphores(prog)
        /\ n # x
    BY <1>3 DEF CallOK
  <1>9. mem \in [Vars -> Nat]
    BY DEF IInv, ShapeInv
  <1>10. /\ mem' \in [Vars -> Nat]
         /\ \A v \in Vars : v # x /\ v # n => mem'[v] = mem[v]
    <2>1. CASE mem[x] = 0
      <3>1. mem' = [mem EXCEPT ![x] = 1, ![n] = @ + 1]
        BY <1>1, <1>3, <2>1
      <3>2. /\ DOMAIN mem' = Vars /\ mem' = [v \in Vars |-> mem'[v]]
            /\ \A v \in Vars : v # x /\ v # n => mem'[v] = mem[v]
        BY <3>1, <1>9
      <3>3. mem[n] \in Nat /\ mem[n] + 1 \in Nat
        BY <1>8, <1>9
      <3>4. mem'[n] \in Nat
        BY <3>1, <3>3, <1>8, <1>9
      <3>5. mem'[x] = 1
        BY <3>1, <1>8, <1>9
      <3>6. \A v \in Vars : mem'[v] \in Nat
        BY <3>2, <3>4, <3>5, <1>9
      <3> QED BY <3>2, <3>6
    <2>2. CASE mem[x] # 0
      BY <1>1, <1>3, <1>9, <2>2
    <2> QED BY <2>1, <2>2
  <1>11. \A v \in Vars : v \in SpentVars(prog) \cup Semaphores(prog) =>
           mem'[v] = mem[v]
    BY <1>8, <1>10
  <1>12. proc' \in ProcStates
    BY <1>1, <1>3 DEF ProcStates
  <1> QED BY <1>1, <1>6, <1>7, <1>10, <1>11, <1>12, FreeVar

(* A thread that leaves a barrier. *)
LEMMA PassesBarrier ==
    ASSUME Disciplined, IInv, NEW u \in Threads,
           thr[u].st \in {"run", "barrier"},
           thr[u].pc <= Len(Code[prog][u]),
           Code[prog][u][thr[u].pc].op = "barrier_wait"
    PROVE  Mild(prog, u, thr[u], [thr[u] EXCEPT !.st = "run", !.pc = @ + 1])
  <1> DEFINE w == thr[u]
             w2 == [w EXCEPT !.st = "run", !.pc = @ + 1]
  <1>1. /\ prog \in DOMAIN Code /\ u \in DOMAIN Code[prog]
        /\ w \in Thread /\ ThreadInv(prog, u, w) /\ w.pc \in Nat
    BY Before
  <1>2. w.pc + 1 \in Nat
    BY <1>1
  <1>3. /\ w2 \in Thread /\ w2.st = "run" /\ w2.pc = w.pc + 1
        /\ w2.stack = w.stack /\ w2.heap = w.heap
        /\ w2.specific = w.specific /\ w2.async = w.async
        /\ w2.pend = w.pend
    BY <1>1, <1>2 DEF Thread
  <1> HIDE DEF w2
  <1>4. w2.pc \in Successors(Code[prog][u], w.pc)
    BY <1>3 DEF Successors
  <1>5. /\ w2.async => IsAsync(Code[prog][u])
        /\ w2.pend => IsCanceled(prog, u)
    BY <1>3, Pends
  <1>6. /\ Onward(prog, u, w, w2) /\ NotSpending(prog, u, w, w2)
        /\ Keeps(prog, u, w, w2)
    BY <1>1, <1>3, <1>4, <1>5, GoesOn DEF MarkedOps
  <1> QED BY <1>6 DEF Mild, w2

(* pthread_barrier_wait(): the last thread takes all that wait with it. *)
LEMMA BarrierStep ==
    ASSUME Disciplined, IInv, NEW t \in Threads, barrier_wait(t)
    PROVE  IInv'
  <1>0. PICK st : st = "barrier"
    OBVIOUS
  <1> DEFINE w == thr[t]
             c == Code[prog][t]
             x == c[w.pc].x
             v2 == [w EXCEPT !.st = st]
             Past(u) == [thr[u] EXCEPT !.st = "run", !.pc = @ + 1]
  <1>1. Calls(t, "barrier_wait") /\ UNCHANGED <<program, proc, owner>>
    BY DEF barrier_wait
  <1>2. /\ prog \in DOMAIN Code /\ t \in DOMAIN Code[prog]
        /\ Threads = DOMAIN Code[prog]
        /\ w \in Thread /\ ThreadInv(prog, t, w) /\ ThrShape
        /\ \A u \in Threads : Mild(prog, u, thr[u], thr[u])
        /\ \A u \in Threads : ThreadInv(prog, u, thr[u])
    BY Before
  <1>3. /\ proc = "run" /\ w.st = "run" /\ w.pc <= Len(c)
        /\ c[w.pc].op = "barrier_wait" /\ X(t) = x
        /\ CallOK(prog, t, w.pc)
    BY <1>1, Calling
  <1>4. x \in Vars /\ x \notin SpentVars(prog) \cup Semaphores(prog)
    BY <1>3 DEF CallOK
  <1>5. mem \in [Vars -> Nat]
    BY DEF IInv, ShapeInv
  <1>6. proc' \in ProcStates
    BY <1>1, <1>3 DEF ProcStates
  <1>7. ASSUME mem' = [mem EXCEPT ![X(t)] = @ + 1],
               thr' = [thr EXCEPT ![t].st = "barrier"]
        PROVE  IInv'
    <2>1. thr' = [thr EXCEPT ![t] = v2]
      BY <1>0, <1>2, <1>7 DEF ThrShape
    <2>2. Mild(prog, t, w, v2)
      BY <1>0, <1>2, <1>3, Waits DEF Mild
    <2> HIDE DEF v2
    <2>3. /\ ThrShape' /\ thr'[t] = v2
          /\ \A u \in Threads : u # t => thr'[u] = thr[u]
      BY <1>1, <1>2, <2>1, OneThread
    <2>4. \A u \in Threads : Mild(prog, u, thr[u], thr'[u])
      BY <1>2, <2>2, <2>3
    <2>5. mem[x] + 1 \in Nat
      BY <1>4, <1>5
    <2>6. /\ mem' \in [Vars -> Nat]
          /\ \A v \in Vars : v # x => mem'[v] = mem[v]
      BY <1>3, <1>4, <1>5, <1>7, <2>5
    <2>7. \A v \in Vars : v \in SpentVars(prog) \cup Semaphores(prog) =>
            mem'[v] = mem[v]
      BY <1>4, <2>6
    <2> QED BY <1>1, <1>6, <2>3, <2>4, <2>6, <2>7, FreeVar
  <1>8. ASSUME mem' = [mem EXCEPT ![X(t)] = 0],
               thr' = [u \in Threads |->
                         IF u = t \/ thr[u].st = "barrier"
                         THEN Past(u) ELSE thr[u]]
        PROVE  IInv'
    <2>1. ASSUME NEW u \in Threads PROVE Mild(prog, u, thr[u], thr'[u])
      <3>1. CASE u = t \/ thr[u].st = "barrier"
        <4>1. /\ thr[u].st \in {"run", "barrier"}
              /\ thr[u].pc <= Len(Code[prog][u])
              /\ Code[prog][u][thr[u].pc].op = "barrier_wait"
          BY <1>2, <1>3, <3>1 DEF ThreadInv, PlaceInv
        <4>2. thr'[u] = Past(u)
          BY <1>8, <3>1
        <4> HIDE DEF Past
        <4>3. Mild(prog, u, thr[u], Past(u))
          BY <4>1, PassesBarrier DEF Past
        <4> QED BY <4>2, <4>3
      <3>2. CASE ~(u = t \/ thr[u].st = "barrier")
        <4>1. thr'[u] = thr[u]
          BY <1>8, <3>2
        <4> QED BY <1>2, <4>1
      <3> QED BY <3>1, <3>2
    <2>2. ThrShape'
      <3>1. Threads' = Threads
        BY <1>1 DEF Threads, program
      <3> HIDE DEF Past
      <3>2. DOMAIN thr' = Threads /\ thr' = [u \in Threads |-> thr'[u]]
        BY <1>8
      <3> QED BY <3>1, <3>2, Zenon DEF ThrShape
    <2>3. /\ mem' \in [Vars -> Nat]
          /\ \A v \in Vars : v # x => mem'[v] = mem[v]
      BY <1>3, <1>4, <1>5, <1>8
    <2>4. \A v \in Vars : v \in SpentVars(prog) \cup Semaphores(prog) =>
            mem'[v] = mem[v]
      BY <1>4, <2>3
    <2> QED BY <1>1, <1>6, <2>1, <2>2, <2>3, <2>4, FreeVar
  <1> QED BY <1>7, <1>8 DEF barrier_wait

(* pthread_cond_signal() wakes a thread, if one waits. *)
LEMMA CondSignalStep ==
    ASSUME Disciplined, IInv, NEW t \in Threads, cond_signal(t)
    PROVE  IInv'
  <1>1. Calls(t, "cond_signal") /\ UNCHANGED <<program, proc, mem, owner>>
    BY DEF cond_signal
  <1>2. CASE Advance(t, 1)
    BY <1>1, <1>2, PlainAdvance DEF MarkedOps
  <1>3. ASSUME NEW u \in Waiting(N(t)),
               thr' = [thr EXCEPT ![t].pc = @ + 1, ![u].st = "relock"]
        PROVE  IInv'
    <2>1. ThrShape /\ thr[u] \in Thread /\ ThreadInv(prog, u, thr[u])
      BY <1>3, Before DEF Waiting
    <2>2. thr[t].st = "run" /\ thr[u].st = "wait" /\ proc = "run"
      BY <1>1, <1>3, Calling DEF Waiting
    <2>3. u \in Threads /\ u # t
      BY <1>3, <2>2 DEF Waiting
    <2>4. /\ DOMAIN thr' = Threads /\ thr' = [x \in Threads |-> thr'[x]]
          /\ thr'[t] = [thr[t] EXCEPT !.pc = @ + 1]
          /\ thr'[u] = [thr[u] EXCEPT !.st = "relock"]
          /\ \A x \in Threads : x # t /\ x # u => thr'[x] = thr[x]
      BY <1>3, <2>1, <2>3 DEF ThrShape
    <2>5. Mild(prog, t, thr[t], thr'[t])
      BY <1>1, <2>4, PlainNext DEF MarkedOps
    <2>6. Mild(prog, u, thr[u], thr'[u])
      <3> DEFINE v2 == [thr[u] EXCEPT !.st = "relock"]
      <3>1. /\ v2 \in Thread /\ v2.st = "relock" /\ v2.pc = thr[u].pc
            /\ v2.stack = thr[u].stack /\ v2.heap = thr[u].heap
            /\ v2.specific = thr[u].specific /\ v2.async = thr[u].async
            /\ v2.pend = thr[u].pend
        BY <2>1 DEF Thread
      <3> HIDE DEF v2
      <3>2. Mild(prog, u, thr[u], v2)
        BY <2>1, <2>2, <3>1, IsWoken
      <3> QED BY <2>4, <3>2 DEF v2
    <2>7. ThrShape'
      <3>1. Threads' = Threads
        BY <1>1 DEF Threads, program
      <3> QED BY <3>1, <2>4, Zenon DEF ThrShape
    <2>8. proc' \in ProcStates
      BY <1>1, <2>2 DEF ProcStates
    <2> QED BY <1>1, <2>3, <2>4, <2>5, <2>6, <2>7, <2>8, MildTwo
  <1> QED BY <1>2, <1>3 DEF cond_signal

(* A thread is woken for no reason. *)
LEMMA SpuriousStep ==
    ASSUME Disciplined, IInv, NEW t \in Threads, SpuriousWakeup(t)
    PROVE  IInv'
  <1> DEFINE w == thr[t]
             w2 == [w EXCEPT !.st = "relock", !.spurious = @ + 1]
  <1>1. /\ w.st = "wait" /\ UNCHANGED <<program, mem, owner>>
        /\ proc = "run" /\ proc' = proc
        /\ thr' = [thr EXCEPT ![t].st = "relock", ![t].spurious = @ + 1]
    BY DEF SpuriousWakeup
  <1>2. ThrShape /\ w \in Thread /\ ThreadInv(prog, t, w)
    BY Before
  <1>3. thr' = [thr EXCEPT ![t] = w2]
    BY <1>1, <1>2 DEF ThrShape
  <1>4. w.spurious \in Nat
    BY <1>2 DEF Thread
  <1>5. w.spurious + 1 \in Nat
    BY <1>4
  <1>6. /\ w2 \in Thread /\ w2.st = "relock" /\ w2.pc = w.pc
        /\ w2.stack = w.stack /\ w2.heap = w.heap
        /\ w2.specific = w.specific /\ w2.async = w.async
        /\ w2.pend = w.pend
    BY <1>2, <1>5 DEF Thread
  <1> HIDE DEF w2
  <1>7. Mild(prog, t, w, w2)
    BY <1>1, <1>2, <1>6, IsWoken
  <1>8. proc' \in ProcStates
    BY <1>1 DEF ProcStates
  <1> QED BY <1>1, <1>3, <1>7, <1>8, MildOne

(* malloc(). *)
LEMMA MallocStep ==
    ASSUME Disciplined, IInv, NEW t \in Threads, malloc(t)
    PROVE  IInv'
  <1> DEFINE w == thr[t]
             x == Code[prog][t][w.pc].x
             w2 == [w EXCEPT !.pc = @ + 1, !.heap[x] = @ + 1]
  <1>1. /\ Calls(t, "malloc") /\ UNCHANGED <<program, proc, mem, owner>>
        /\ thr' = [thr EXCEPT ![t].pc = @ + 1, ![t].heap[X(t)] = @ + 1]
    BY DEF malloc
  <1>2. /\ prog \in DOMAIN Code /\ t \in DOMAIN Code[prog]
        /\ w \in Thread /\ ThreadInv(prog, t, w) /\ ThrShape
        /\ w.pc \in Nat
    BY Before
  <1>3. /\ proc = "run" /\ w.st = "run" /\ w.pc <= Len(Code[prog][t])
        /\ Code[prog][t][w.pc].op = "malloc" /\ X(t) = x
        /\ CallOK(prog, t, w.pc)
    BY <1>1, Calling
  <1>4. x \in Blocks /\ w.heap \in [Blocks -> Int]
    BY <1>2, <1>3 DEF CallOK, Thread
  <1>5. thr' = [thr EXCEPT ![t] = w2]
    BY <1>1, <1>2, <1>3 DEF ThrShape
  <1>6. w.pc + 1 \in Nat /\ w.heap[x] + 1 \in Int
    BY <1>2, <1>4
  <1>7. /\ w2 \in Thread /\ w2.st = w.st /\ w2.pc = w.pc + 1
        /\ w2.stack = w.stack /\ w2.specific = w.specific
        /\ w2.async = w.async /\ w2.pend = w.pend
        /\ w2.heap = [w.heap EXCEPT ![x] = @ + 1]
    BY <1>2, <1>4, <1>6 DEF Thread
  <1> HIDE DEF w2
  <1>8. \A r \in Blocks :
          w2.heap[r] = w.heap[r] + (IF r = x THEN 1 ELSE 0)
    BY <1>4, <1>7
  <1>9. Mild(prog, t, w, w2)
    BY <1>2, <1>3, <1>7, <1>8, Allocates
  <1>10. proc' \in ProcStates
    BY <1>1, <1>3 DEF ProcStates
  <1> QED BY <1>1, <1>5, <1>9, <1>10, MildOne

(* free(). *)
LEMMA FreeStep ==
    ASSUME Disciplined, IInv, NEW t \in Threads, free(t)
    PROVE  IInv'
  <1> DEFINE w == thr[t]
             x == Code[prog][t][w.pc].x
             w2 == [w EXCEPT !.pc = @ + 1, !.heap[x] = @ - 1]
  <1>1. /\ Calls(t, "free") /\ UNCHANGED <<program, proc, mem, owner>>
        /\ thr' = [thr EXCEPT ![t].pc = @ + 1, ![t].heap[X(t)] = @ - 1]
    BY DEF free
  <1>2. /\ prog \in DOMAIN Code /\ t \in DOMAIN Code[prog]
        /\ w \in Thread /\ ThreadInv(prog, t, w) /\ ThrShape
        /\ w.pc \in Nat
    BY Before
  <1>3. /\ proc = "run" /\ w.st = "run" /\ w.pc <= Len(Code[prog][t])
        /\ Code[prog][t][w.pc].op = "free" /\ X(t) = x
        /\ CallOK(prog, t, w.pc)
    BY <1>1, Calling
  <1>4. x \in Blocks /\ w.heap \in [Blocks -> Int]
    BY <1>2, <1>3 DEF CallOK, Thread
  <1>5. thr' = [thr EXCEPT ![t] = w2]
    BY <1>1, <1>2, <1>3 DEF ThrShape
  <1>6. w.pc + 1 \in Nat /\ w.heap[x] - 1 \in Int
    BY <1>2, <1>4
  <1>7. /\ w2 \in Thread /\ w2.st = w.st /\ w2.pc = w.pc + 1
        /\ w2.stack = w.stack /\ w2.specific = w.specific
        /\ w2.async = w.async /\ w2.pend = w.pend
        /\ w2.heap = [w.heap EXCEPT ![x] = @ - 1]
    BY <1>2, <1>4, <1>6 DEF Thread
  <1> HIDE DEF w2
  <1>8. \A r \in Blocks :
          w2.heap[r] = w.heap[r] - (IF r = x THEN 1 ELSE 0)
    <2> TAKE r \in Blocks
    <2>1. w2.heap[r] = IF r = x THEN w.heap[r] - 1 ELSE w.heap[r]
      BY <1>4, <1>7
    <2>2. w.heap[r] \in Int
      BY <1>4
    <2> QED BY <2>1, <2>2
  <1>9. Mild(prog, t, w, w2)
    BY <1>2, <1>3, <1>7, <1>8, Frees
  <1>10. proc' \in ProcStates
    BY <1>1, <1>3 DEF ProcStates
  <1> QED BY <1>1, <1>5, <1>9, <1>10, MildOne

(* pthread_getspecific() and pthread_setspecific(). *)
LEMMA SpecificStep ==
    ASSUME Disciplined, IInv, NEW t \in Threads, specific(t)
    PROVE  IInv'
  <1> DEFINE w == thr[t]
             c == Code[prog][t]
  <1>1. UNCHANGED <<program, proc, mem, owner>>
    BY DEF specific
  <1>2. /\ prog \in DOMAIN Code /\ t \in DOMAIN Code[prog]
        /\ w \in Thread /\ ThreadInv(prog, t, w) /\ ThrShape
        /\ w.pc \in Nat /\ Len(c) \in Nat
    BY Before
  <1>3. ASSUME Calls(t, "getspecific"),
               Advance(t, IF w.specific = "" THEN 1 ELSE N(t))
        PROVE  IInv'
    <2> DEFINE n == IF w.specific = "" THEN 1 ELSE N(t)
               w2 == [w EXCEPT !.pc = w.pc + n]
    <2>1. /\ proc = "run" /\ w.st = "run" /\ w.pc <= Len(c)
          /\ c[w.pc].op = "getspecific" /\ N(t) = c[w.pc].n
          /\ FlowOK(c, w.pc)
      BY <1>3, Calling
    <2>2. w.pc + n \in Successors(c, w.pc)
      BY <2>1 DEF Successors
    <2>3. w.pc + n \in Nat
      <3>1. w.pc + n \in Positions(c)
        BY <2>1, <2>2 DEF FlowOK
      <3> HIDE DEF n
      <3> QED BY <1>2, <3>1 DEF Positions
    <2>4. thr' = [thr EXCEPT ![t] = w2]
      BY <1>2, <1>3 DEF ThrShape, Advance
    <2>5. n = IF w.specific = "" THEN 1 ELSE c[w.pc].n
      BY <2>1
    <2> HIDE DEF n
    <2>6. /\ w2 \in Thread /\ w2.st = w.st /\ w2.pc = w.pc + n
          /\ w2.stack = w.stack /\ w2.specific = w.specific
          /\ w2.async = w.async /\ w2.pend = w.pend /\ w2.heap = w.heap
      BY <1>2, <2>3 DEF Thread
    <2> HIDE DEF w2
    <2>7. w2.pc = w.pc + (IF w.specific = "" THEN 1 ELSE c[w.pc].n)
      BY <2>5, <2>6
    <2>8. Mild(prog, t, w, w2)
      BY <1>2, <2>1, <2>6, <2>7, GetsSpecific
    <2>9. proc' \in ProcStates
      BY <1>1, <2>1 DEF ProcStates
    <2> QED BY <1>1, <2>4, <2>8, <2>9, MildOne
  <1>4. ASSUME Calls(t, "setspecific"),
               thr' = [thr EXCEPT ![t].pc = @ + 1, ![t].specific = X(t)]
        PROVE  IInv'
    <2> DEFINE x == c[w.pc].x
               w2 == [w EXCEPT !.pc = @ + 1, !.specific = x]
    <2>1. /\ proc = "run" /\ w.st = "run" /\ w.pc <= Len(c)
          /\ c[w.pc].op = "setspecific" /\ X(t) = x
          /\ CallOK(prog, t, w.pc)
      BY <1>4, Calling
    <2>2. x \in Blocks /\ w.pc + 1 \in Nat
      BY <1>2, <2>1 DEF CallOK
    <2>3. thr' = [thr EXCEPT ![t] = w2]
      BY <1>2, <1>4, <2>1 DEF ThrShape
    <2>4. /\ w2 \in Thread /\ w2.st = w.st /\ w2.pc = w.pc + 1
          /\ w2.stack = w.stack /\ w2.specific = x
          /\ w2.async = w.async /\ w2.pend = w.pend /\ w2.heap = w.heap
      BY <1>2, <2>2 DEF Thread
    <2> HIDE DEF w2
    <2>5. Mild(prog, t, w, w2)
      BY <1>2, <2>1, <2>4, SetsSpecific
    <2>6. proc' \in ProcStates
      BY <1>1, <2>1 DEF ProcStates
    <2> QED BY <1>1, <2>3, <2>5, <2>6, MildOne
  <1> QED BY <1>3, <1>4 DEF specific

(* pthread_cleanup_push(). *)
LEMMA PushStep ==
    ASSUME Disciplined, IInv, NEW t \in Threads, cleanup_push(t)
    PROVE  IInv'
  <1> DEFINE w == thr[t]
             c == Code[prog][t]
             h == [block |-> c[w.pc].x, lock |-> c[w.pc].n]
             w2 == [w EXCEPT !.pc = @ + 1, !.stack = <<h>> \o @]
  <1>1. /\ Calls(t, "cleanup_push") /\ UNCHANGED <<program, proc, mem, owner>>
        /\ thr' = [thr EXCEPT ![t].pc = @ + 1,
                     ![t].stack = <<[block |-> X(t), lock |-> N(t)]>> \o @]
    BY DEF cleanup_push
  <1>2. /\ prog \in DOMAIN Code /\ t \in DOMAIN Code[prog]
        /\ w \in Thread /\ ThreadInv(prog, t, w) /\ ThrShape
        /\ w.pc \in Nat
    BY Before
  <1>3. /\ proc = "run" /\ w.st = "run" /\ w.pc <= Len(c)
        /\ c[w.pc].op = "cleanup_push" /\ X(t) = c[w.pc].x
        /\ N(t) = c[w.pc].n /\ CallOK(prog, t, w.pc)
    BY <1>1, Calling
  <1>4. h \in Handlers /\ w.stack \in Seq(Handlers)
    BY <1>2, <1>3 DEF CallOK, Thread, Handlers
  <1>5. thr' = [thr EXCEPT ![t] = w2]
    BY <1>1, <1>2, <1>3 DEF ThrShape
  <1>6. w.pc + 1 \in Nat /\ <<h>> \o w.stack \in Seq(Handlers)
    <2> HIDE DEF h
    <2> QED BY <1>2, <1>4
  <1>7. /\ w2 \in Thread /\ w2.st = w.st /\ w2.pc = w.pc + 1
        /\ w2.stack = <<h>> \o w.stack /\ w2.specific = w.specific
        /\ w2.async = w.async /\ w2.pend = w.pend /\ w2.heap = w.heap
    <2> HIDE DEF h
    <2> QED BY <1>2, <1>6 DEF Thread
  <1> HIDE DEF w2
  <1>8. Mild(prog, t, w, w2)
    BY <1>2, <1>3, <1>7, Pushes
  <1>9. proc' \in ProcStates
    BY <1>1, <1>3 DEF ProcStates
  <1> QED BY <1>1, <1>5, <1>8, <1>9, MildOne

(* pthread_cleanup_pop(). *)
LEMMA PopStep ==
    ASSUME Disciplined, IInv, NEW t \in Threads, cleanup_pop(t)
    PROVE  IInv'
  <1> DEFINE w == thr[t]
             c == Code[prog][t]
             w2 == [w EXCEPT !.pc = @ + 1, !.stack = Tail(@)]
  <1>1. /\ Calls(t, "cleanup_pop") /\ UNCHANGED <<program, proc, mem, owner>>
        /\ thr' = [thr EXCEPT ![t].pc = @ + 1, ![t].stack = Tail(@)]
    BY DEF cleanup_pop
  <1>2. /\ prog \in DOMAIN Code /\ t \in DOMAIN Code[prog]
        /\ w \in Thread /\ ThreadInv(prog, t, w) /\ ThrShape
        /\ w.pc \in Nat
    BY Before
  <1>3. /\ proc = "run" /\ w.st = "run" /\ w.pc <= Len(c)
        /\ c[w.pc].op = "cleanup_pop" /\ CallOK(prog, t, w.pc)
    BY <1>1, Calling
  <1>4. w.stack # <<>>
    BY <1>2, <1>3 DEF CallOK, ThreadInv, BlockInv, Ending, MarkAt
  <1>5. Tail(w.stack) \in Seq(Handlers) /\ w.pc + 1 \in Nat
    <2>1. w.stack \in Seq(Handlers) /\ Distinct(w.stack)
      BY <1>2 DEF Thread, ThreadInv
    <2> QED BY <1>2, <1>4, <2>1, PopHandler
  <1>6. thr' = [thr EXCEPT ![t] = w2]
    BY <1>1, <1>2 DEF ThrShape
  <1>7. /\ w2 \in Thread /\ w2.st = w.st /\ w2.pc = w.pc + 1
        /\ w2.stack = Tail(w.stack) /\ w2.specific = w.specific
        /\ w2.async = w.async /\ w2.pend = w.pend /\ w2.heap = w.heap
    BY <1>2, <1>5 DEF Thread
  <1> HIDE DEF w2
  <1>8. Mild(prog, t, w, w2)
    BY <1>2, <1>3, <1>7, Pops
  <1>9. proc' \in ProcStates
    BY <1>1, <1>3 DEF ProcStates
  <1> QED BY <1>1, <1>6, <1>8, <1>9, MildOne

(* A handler that runs while the thread ends. *)
LEMMA UnwindStep ==
    ASSUME Disciplined, IInv, NEW t \in Threads, Unwind(t)
    PROVE  IInv'
  <1> DEFINE w == thr[t]
             h == Head(w.stack)
             b == h.block
             w2 == [w EXCEPT !.stack = Tail(@), !.heap[b] = @ - 1]
  <1>1. /\ proc = "run" /\ w.st = "unwind" /\ w.stack # <<>>
        /\ UNCHANGED <<program, proc, mem>>
        /\ thr' = [thr EXCEPT ![t].stack = Tail(@), ![t].heap[b] = @ - 1]
        /\ owner' = IF h.lock \in Locks
                    THEN [owner EXCEPT ![h.lock] = NoThread] ELSE owner
    BY DEF Unwind, Unlocked, Handler
  <1>2. /\ prog \in DOMAIN Code /\ t \in DOMAIN Code[prog]
        /\ w \in Thread /\ ThreadInv(prog, t, w) /\ ThrShape
        /\ NoThread \notin Threads
    BY Before
  <1>3. w.stack \in Seq(Handlers) /\ w.heap \in [Blocks -> Int]
    BY <1>2 DEF Thread
  <1>4. b \in Blocks /\ Tail(w.stack) \in Seq(Handlers)
    <2>1. h \in Handlers /\ Tail(w.stack) \in Seq(Handlers)
      BY <1>1, <1>2, <1>3, PopHandler DEF ThreadInv
    <2> QED BY <2>1 DEF Handlers
  <1>5. thr' = [thr EXCEPT ![t] = w2]
    BY <1>1, <1>2 DEF ThrShape
  <1> HIDE DEF b
  <1>6. w.heap[b] - 1 \in Int
    BY <1>3, <1>4
  <1>7. /\ w2 \in Thread /\ w2.st = "unwind" /\ w2.pc = w.pc
        /\ w2.stack = Tail(w.stack) /\ w2.specific = w.specific
        /\ w2.async = w.async /\ w2.pend = w.pend
        /\ w2.heap = [w.heap EXCEPT ![b] = @ - 1]
    BY <1>1, <1>2, <1>4, <1>6 DEF Thread
  <1> HIDE DEF w2
  <1>8. \A r \in Blocks : w2.heap[r] =
          IF r = h.block THEN w.heap[r] - 1 ELSE w.heap[r]
    BY <1>3, <1>4, <1>7 DEF b
  <1>9. /\ Onward(prog, t, w, w2) /\ NotSpending(prog, t, w, w2)
        /\ Owns(prog, t, w2) = Owns(prog, t, w) \ {h.lock}
        /\ h.lock \in Locks => h.lock \in Owns(prog, t, w)
    <2>1. w.st = "unwind" /\ w.stack # <<>>
      BY <1>1
    <2> QED BY <1>2, <1>7, <1>8, <2>1, Unwinds
  <1>10. /\ ThrShape' /\ thr'[t] = w2
         /\ \A u \in Threads : u # t => thr'[u] = thr[u]
    BY <1>1, <1>2, <1>5, OneThread
  <1>11. \A u \in Threads : u # t => Keeps(prog, u, thr[u], thr'[u])
    BY <1>10 DEF Keeps
  <1>12. LockInv' /\ owner' \in [Locks -> Threads \cup {NoThread}]
    <2> HIDE DEF h
    <2> QED BY <1>1, <1>2, <1>9, <1>10, <1>11, GivenLock
  <1>13. proc' \in ProcStates
    BY <1>1 DEF ProcStates
  <1>14. Owns(prog, t, thr'[t]) \subseteq Owns(prog, t, w)
    BY <1>9, <1>10
  <1> QED BY <1>1, <1>9, <1>10, <1>12, <1>13, <1>14, OwnerStep

(* The destructor of the key runs, and the thread is gone. *)
LEMMA ThreadEndsStep ==
    ASSUME Disciplined, IInv, NEW t \in Threads, ThreadEnds(t)
    PROVE  IInv'
  <1> DEFINE w == thr[t]
             g == [r \in Blocks |-> IF r = w.specific
                                    THEN w.heap[r] - 1 ELSE w.heap[r]]
             w2 == [w EXCEPT !.st = "ended", !.heap = g]
  <1>1. /\ w.st = "unwind" /\ w.stack = <<>>
        /\ UNCHANGED <<program, mem, owner>> /\ proc' \in {"exit", "run"}
        /\ thr' = [thr EXCEPT ![t].st = "ended",
                     ![t].heap = [r \in Blocks |-> IF r = thr[t].specific
                                               THEN @[r] - 1 ELSE @[r]]]
    BY DEF ThreadEnds
  <1>2. /\ prog \in DOMAIN Code /\ t \in DOMAIN Code[prog]
        /\ w \in Thread /\ ThreadInv(prog, t, w) /\ ThrShape
    BY Before
  <1>3. thr' = [thr EXCEPT ![t] = w2]
    BY <1>1, <1>2 DEF ThrShape
  <1>4. g \in [Blocks -> Int] /\ \A r \in Blocks : g[r] =
          IF r = w.specific THEN w.heap[r] - 1 ELSE w.heap[r]
    <2>1. \A r \in Blocks : w.heap[r] \in Int
      BY <1>2 DEF Thread
    <2> QED BY <2>1
  <1> HIDE DEF g
  <1>5. /\ w2 \in Thread /\ w2.st = "ended" /\ w2.pc = w.pc
        /\ w2.stack = w.stack /\ w2.specific = w.specific
        /\ w2.async = w.async /\ w2.pend = w.pend /\ w2.heap = g
    BY <1>2, <1>4 DEF Thread, Ending
  <1> HIDE DEF w2
  <1>6. Mild(prog, t, w, w2)
    BY <1>1, <1>2, <1>4, <1>5, Dies
  <1>7. proc' \in ProcStates
    BY <1>1 DEF ProcStates
  <1> QED BY <1>1, <1>3, <1>6, <1>7, MildOne

(* A thread makes a call that sends something to a thread, perhaps itself. *)
LEMMA Sends ==
    ASSUME Disciplined, IInv, NEW t \in Threads, NEW op, Calls(t, op),
           op \notin MarkedOps \cup {"load", "skip", "jump", "exit",
                                     "pthread_exit"},
           UNCHANGED <<program, proc, mem, owner>>, NEW u \in Threads,
           DOMAIN thr' = Threads, thr' = [x \in Threads |-> thr'[x]],
           \A x \in Threads : x # t /\ x # u => thr'[x] = thr[x],
           u # t => thr'[t] = [thr[t] EXCEPT !.pc = @ + 1],
           NEW v2 \in Thread, thr'[u] = v2, v2.st = thr[u].st,
           v2.pc = IF u = t THEN thr[u].pc + 1 ELSE thr[u].pc,
           v2.loc = thr[u].loc, v2.heap = thr[u].heap,
           v2.specific = thr[u].specific, v2.stack = thr[u].stack,
           v2.async = thr[u].async, v2.pend => IsCanceled(prog, u)
    PROVE  IInv'
  <1>1. /\ thr[u] \in Thread /\ ThreadInv(prog, u, thr[u])
    BY Before
  <1>2. proc = "run" /\ thr[t].st = "run"
    BY Calling
  <1>3. v2.async => IsAsync(Code[prog][u])
    BY Pends
  <1>4. /\ Mild(prog, t, thr[t], [thr[t] EXCEPT !.pc = @ + 1])
        /\ thr[t].pc + 1 \in Successors(Code[prog][t], thr[t].pc)
    BY PlainNext
  <1>5. Mild(prog, u, thr[u], v2)
    <2>1. CASE u = t
      <3>1. v2.pc \in Successors(Code[prog][t], thr[t].pc)
        BY <1>4, <2>1
      <3>2. op \notin MarkedOps \cup {"load", "skip"}
        OBVIOUS
      <3> QED BY <1>2, <1>3, <2>1, <3>1, <3>2, PlainCall
    <2>2. CASE u # t
      BY <1>1, <1>3, <2>2, Stays
    <2> QED BY <2>1, <2>2
  <1>6. Mild(prog, t, thr[t], thr'[t])
    BY <1>4, <1>5
  <1>7. ThrShape'
    <2>1. Threads' = Threads
      BY DEF Threads, program
    <2> QED BY <2>1, Zenon DEF ThrShape
  <1>8. proc' \in ProcStates
    BY <1>2 DEF ProcStates
  <1> QED BY <1>5, <1>6, <1>7, <1>8, MildTwo

(* pthread_cancel(): only a thread that some call cancels has a request    *)
(* pending.                                                                *)
LEMMA CancelStep ==
    ASSUME Disciplined, IInv, NEW t \in Threads, pthread_cancel(t)
    PROVE  IInv'
  <1>1. PICK u : u = X(t)
    OBVIOUS
  <1>2. /\ Calls(t, "pthread_cancel") /\ UNCHANGED <<program, proc, mem, owner>>
        /\ thr' = [thr EXCEPT ![t].pc = @ + 1, ![u].pend = TRUE]
    BY <1>1 DEF pthread_cancel
  <1>3. /\ prog \in DOMAIN Code /\ t \in DOMAIN Code[prog] /\ ThrShape
        /\ Threads = DOMAIN Code[prog]
        /\ \A x \in Threads : thr[x] \in Thread /\ thr[x].pc \in Nat
    BY Before
  <1>4. /\ Code[prog][t][thr[t].pc].op = "pthread_cancel"
        /\ Code[prog][t][thr[t].pc].x = u
        /\ thr[t].pc \in 1..Len(Code[prog][t]) /\ CallOK(prog, t, thr[t].pc)
    BY <1>1, <1>2, Calling
  <1>5. u \in Threads
    BY <1>3, <1>4 DEF CallOK
  <1>6. IsCanceled(prog, u)
    BY <1>3, <1>4 DEF IsCanceled
  <1>7. /\ DOMAIN thr' = Threads /\ thr' = [x \in Threads |-> thr'[x]]
        /\ \A x \in Threads : x # t /\ x # u => thr'[x] = thr[x]
        /\ u # t => thr'[t] = [thr[t] EXCEPT !.pc = @ + 1]
    BY <1>2, <1>3, <1>5 DEF ThrShape
  <1>8. PICK v2 : v2 = thr'[u]
    OBVIOUS
  <1>9. /\ v2 \in Thread /\ v2.st = thr[u].st
        /\ v2.pc = IF u = t THEN thr[u].pc + 1 ELSE thr[u].pc
        /\ v2.loc = thr[u].loc /\ v2.heap = thr[u].heap
        /\ v2.specific = thr[u].specific /\ v2.stack = thr[u].stack
        /\ v2.async = thr[u].async
    <2>1. CASE u = t
      <3>1. v2 = [thr[t] EXCEPT !.pc = @ + 1, !.pend = TRUE]
        BY <1>2, <1>3, <1>5, <1>8, <2>1 DEF ThrShape
      <3>2. thr[t].pc + 1 \in Nat
        BY <1>3
      <3> QED BY <1>3, <2>1, <3>1, <3>2 DEF Thread
    <2>2. CASE u # t
      <3>1. v2 = [thr[u] EXCEPT !.pend = TRUE]
        BY <1>2, <1>3, <1>5, <1>8, <2>2 DEF ThrShape
      <3> QED BY <1>3, <1>5, <2>2, <3>1 DEF Thread
    <2> QED BY <2>1, <2>2
  <1>10. PICK op : op = "pthread_cancel"
    OBVIOUS
  <1>11. op \notin MarkedOps \cup {"load", "skip", "jump", "exit",
                                   "pthread_exit"}
    BY <1>10 DEF MarkedOps
  <1>12. Calls(t, op) /\ UNCHANGED <<program, proc, mem, owner>>
    BY <1>2, <1>10
  <1> QED BY <1>5, <1>6, <1>7, <1>8, <1>9, <1>11, <1>12, Sends

(* pthread_setcancelstate() and pthread_setcanceltype(). *)
LEMMA SetCancelStep ==
    ASSUME Disciplined, IInv, NEW t \in Threads, setcancel(t)
    PROVE  IInv'
  <1> DEFINE w == thr[t]
             c == Code[prog][t]
  <1>1. UNCHANGED <<program, proc, mem, owner>>
    BY DEF setcancel
  <1>2. w \in Thread /\ ThrShape /\ w.pc \in Nat
    BY Before
  <1>3. w.pc + 1 \in Nat
    BY <1>2
  <1>4. ASSUME NEW op \in {"setcancelstate", "setcanceltype"}, Calls(t, op),
               NEW w2 \in Thread, thr' = [thr EXCEPT ![t] = w2],
               w2.st = w.st, w2.pc = w.pc + 1, w2.heap = w.heap,
               w2.specific = w.specific, w2.stack = w.stack,
               w2.pend = w.pend, w2.async => IsAsync(c)
        PROVE  IInv'
    <2>1. /\ proc = "run" /\ w.st = "run" /\ c[w.pc].op = op
      BY <1>4, Calling
    <2>2. w2.pc \in Successors(c, w.pc)
      BY <1>4, <2>1 DEF Successors
    <2>3. op \notin MarkedOps \cup {"load", "skip"}
      BY <1>4 DEF MarkedOps
    <2>4. w2.pend => IsCanceled(prog, t)
      BY <1>4, Pends
    <2>5. Mild(prog, t, w, w2)
      BY <1>4, <2>1, <2>2, <2>3, <2>4, PlainCall
    <2>6. proc' \in ProcStates
      BY <1>1, <2>1 DEF ProcStates
    <2> QED BY <1>1, <1>4, <2>5, <2>6, MildOne
  <1>5. ASSUME Calls(t, "setcancelstate"),
               thr' = [thr EXCEPT ![t].pc = @ + 1,
                                  ![t].enabled = (X(t) = "enable")]
        PROVE  IInv'
    <2>1. PICK e \in BOOLEAN : e = (X(t) = "enable")
      OBVIOUS
    <2> DEFINE w2 == [w EXCEPT !.pc = @ + 1, !.enabled = e]
    <2>2. thr' = [thr EXCEPT ![t] = w2]
      BY <1>2, <1>5, <2>1 DEF ThrShape
    <2>3. /\ w2 \in Thread /\ w2.st = w.st /\ w2.pc = w.pc + 1
          /\ w2.stack = w.stack /\ w2.specific = w.specific
          /\ w2.async = w.async /\ w2.pend = w.pend /\ w2.heap = w.heap
      BY <1>2, <1>3 DEF Thread
    <2> HIDE DEF w2
    <2>4. w2.async => IsAsync(c)
      BY <2>3, Pends
    <2> QED BY <1>4, <1>5, <2>2, <2>3, <2>4
  <1>6. ASSUME Calls(t, "setcanceltype"),
               thr' = [thr EXCEPT ![t].pc = @ + 1, ![t].async = (X(t) = "async")]
        PROVE  IInv'
    <2>1. PICK e \in BOOLEAN : e = (X(t) = "async")
      OBVIOUS
    <2> DEFINE w2 == [w EXCEPT !.pc = @ + 1, !.async = e]
    <2>2. thr' = [thr EXCEPT ![t] = w2]
      BY <1>2, <1>6, <2>1 DEF ThrShape
    <2>3. /\ w2 \in Thread /\ w2.st = w.st /\ w2.pc = w.pc + 1
          /\ w2.stack = w.stack /\ w2.specific = w.specific
          /\ w2.async = e /\ w2.pend = w.pend /\ w2.heap = w.heap
      BY <1>2, <1>3 DEF Thread
    <2> HIDE DEF w2
    <2>4. /\ w.pc \in 1..Len(c) /\ c[w.pc].op = "setcanceltype"
          /\ X(t) = c[w.pc].x
      BY <1>6, Calling
    <2>5. w2.async => IsAsync(c)
      BY <2>1, <2>3, <2>4 DEF IsAsync
    <2> QED BY <1>4, <1>6, <2>2, <2>3, <2>5
  <1> QED BY <1>5, <1>6 DEF setcancel

(* A thread takes or blocks signals. *)
LEMMA OwnSignals ==
    ASSUME Disciplined, IInv, NEW t \in Threads, NEW op, Calls(t, op),
           op \in {"sigmask", "sigwait"},
           UNCHANGED <<program, proc, mem, owner>>,
           NEW mask \in SUBSET Signals, NEW sigs \in SUBSET Signals,
           thr' = [thr EXCEPT ![t] = [thr[t] EXCEPT !.pc = @ + 1,
                                        !.mask = mask, !.sigs = sigs]]
    PROVE  IInv'
  <1> DEFINE w == thr[t]
             w2 == [w EXCEPT !.pc = @ + 1, !.mask = mask, !.sigs = sigs]
  <1>1. w \in Thread /\ w.pc \in Nat
    BY Before
  <1>2. w.pc + 1 \in Nat
    BY <1>1
  <1>3. /\ w2 \in Thread /\ w2.st = w.st /\ w2.pc = w.pc + 1
        /\ w2.stack = w.stack /\ w2.specific = w.specific
        /\ w2.async = w.async /\ w2.pend = w.pend /\ w2.heap = w.heap
    BY <1>1, <1>2 DEF Thread
  <1>4. thr' = [thr EXCEPT ![t] = w2]
    OBVIOUS
  <1> HIDE DEF w2
  <1>5. proc = "run" /\ w.st = "run" /\ Code[prog][t][w.pc].op = op
    BY Calling
  <1>6. w2.pc \in Successors(Code[prog][t], w.pc)
    BY <1>3, <1>5 DEF Successors
  <1>7. op \notin MarkedOps \cup {"load", "skip"}
    BY DEF MarkedOps
  <1>8. /\ w2.async => IsAsync(Code[prog][t])
        /\ w2.pend => IsCanceled(prog, t)
    BY <1>3, Pends
  <1>9. Mild(prog, t, w, w2)
    BY <1>3, <1>5, <1>6, <1>7, <1>8, PlainCall
  <1>10. proc' \in ProcStates
    BY <1>5 DEF ProcStates
  <1> QED BY <1>4, <1>9, <1>10, MildOne

(* A thread sends a signal. *)
LEMMA SendsSignal ==
    ASSUME Disciplined, IInv, NEW t \in Threads, NEW op, Calls(t, op),
           op \in {"pthread_kill", "sigqueue"},
           UNCHANGED <<program, proc, mem, owner>>, NEW u \in Threads,
           NEW s \in Signals
    PROVE  thr' = [thr EXCEPT ![t].pc = @ + 1, ![u].sigs = @ \cup {s}] => IInv'
  <1>0. SUFFICES ASSUME thr' = [thr EXCEPT ![t].pc = @ + 1,
                                           ![u].sigs = @ \cup {s}]
                 PROVE  IInv'
    OBVIOUS
  <1>1. /\ ThrShape
        /\ \A x \in Threads : thr[x] \in Thread /\ thr[x].pc \in Nat
    BY Before
  <1>2. /\ DOMAIN thr' = Threads /\ thr' = [x \in Threads |-> thr'[x]]
        /\ \A x \in Threads : x # t /\ x # u => thr'[x] = thr[x]
        /\ u # t => thr'[t] = [thr[t] EXCEPT !.pc = @ + 1]
    BY <1>0, <1>1 DEF ThrShape
  <1>3. PICK v2 : v2 = thr'[u]
    OBVIOUS
  <1>4. PICK sigs \in SUBSET Signals : sigs = thr[u].sigs \cup {s}
    BY <1>1 DEF Thread
  <1>5. /\ v2 \in Thread /\ v2.st = thr[u].st
        /\ v2.pc = IF u = t THEN thr[u].pc + 1 ELSE thr[u].pc
        /\ v2.loc = thr[u].loc /\ v2.heap = thr[u].heap
        /\ v2.specific = thr[u].specific /\ v2.stack = thr[u].stack
        /\ v2.async = thr[u].async /\ v2.pend = thr[u].pend
    <2>1. CASE u = t
      <3>1. v2 = [thr[t] EXCEPT !.pc = @ + 1, !.sigs = sigs]
        <4>1. v2 = [thr[t] EXCEPT !.pc = @ + 1, !.sigs = @ \cup {s}]
          BY <1>0, <1>1, <1>3, <2>1 DEF ThrShape
        <4> QED BY <1>1, <1>4, <2>1, <4>1 DEF Thread
      <3>2. thr[t].pc + 1 \in Nat
        BY <1>1
      <3> QED BY <1>1, <2>1, <3>1, <3>2 DEF Thread
    <2>2. CASE u # t
      <3>1. v2 = [thr[u] EXCEPT !.sigs = sigs]
        BY <1>0, <1>1, <1>3, <1>4, <2>2 DEF ThrShape
      <3> QED BY <1>1, <2>2, <3>1 DEF Thread
    <2> QED BY <2>1, <2>2
  <1>6. v2.pend => IsCanceled(prog, u)
    BY <1>5, Pends
  <1>7. op \notin MarkedOps \cup {"load", "skip", "jump", "exit",
                                  "pthread_exit"}
    BY DEF MarkedOps
  <1>8. /\ thr'[u] = v2
        /\ v2.pc = IF u = t THEN thr[u].pc + 1 ELSE thr[u].pc
    BY <1>3, <1>5
  <1> QED BY <1>2, <1>5, <1>6, <1>7, <1>8, Sends

(* The signal mask, handlers, pthread_kill(), sigqueue() and sigwait(). *)
LEMMA SignalsStep ==
    ASSUME Disciplined, IInv, NEW t \in Threads, signals(t)
    PROVE  IInv'
  <1> DEFINE w == thr[t]
             c == Code[prog][t]
  <1>1. UNCHANGED <<program, proc, mem, owner>>
    BY DEF signals
  <1>2. w \in Thread /\ ThrShape /\ Threads = DOMAIN Code[prog]
    BY Before
  <1>3. w.mask \in SUBSET Signals /\ w.sigs \in SUBSET Signals
    BY <1>2 DEF Thread
  <1>4. ASSUME Calls(t, "sigmask"),
               thr' = [thr EXCEPT ![t].pc = @ + 1, ![t].mask = @ \cup X(t)]
        PROVE  IInv'
    <2>1. CallOK(prog, t, w.pc) /\ c[w.pc].op = "sigmask" /\ X(t) = c[w.pc].x
      BY <1>4, Calling
    <2>2. PICK mask \in SUBSET Signals : mask = w.mask \cup X(t)
      BY <1>3, <2>1 DEF CallOK
    <2>3. PICK sigs \in SUBSET Signals : sigs = w.sigs
      BY <1>3
    <2>4. [w EXCEPT !.pc = @ + 1, !.mask = @ \cup X(t)]
            = [w EXCEPT !.pc = @ + 1, !.mask = mask, !.sigs = sigs]
      BY <1>2, <2>2, <2>3 DEF Thread
    <2>5. thr' = [thr EXCEPT ![t] = [w EXCEPT !.pc = @ + 1,
                                               !.mask = @ \cup X(t)]]
      BY <1>2, <1>4 DEF ThrShape
    <2>6. thr' = [thr EXCEPT ![t] = [w EXCEPT !.pc = @ + 1,
                                       !.mask = mask, !.sigs = sigs]]
      BY <2>4, <2>5
    <2>7. PICK op \in {"sigmask", "sigwait"} : Calls(t, op)
      BY <1>4
    <2> QED BY <1>1, <2>6, <2>7, OwnSignals
  <1>5. CASE Calls(t, "sigaction") /\ Advance(t, 1)
    BY <1>1, <1>5, PlainAdvance DEF MarkedOps
  <1>6. ASSUME Calls(t, "pthread_kill"),
               thr' = [thr EXCEPT ![t].pc = @ + 1, ![X(t)].sigs = @ \cup {N(t)}]
        PROVE  IInv'
    <2>1. /\ CallOK(prog, t, w.pc) /\ c[w.pc].op = "pthread_kill"
          /\ X(t) = c[w.pc].x /\ N(t) = c[w.pc].n
      BY <1>6, Calling
    <2>2. PICK u \in Threads : u = X(t)
      BY <1>2, <2>1 DEF CallOK
    <2>3. PICK s \in Signals : s = N(t)
      BY <2>1 DEF CallOK
    <2>4. thr' = [thr EXCEPT ![t].pc = @ + 1, ![u].sigs = @ \cup {s}]
      BY <1>6, <2>2, <2>3
    <2> QED BY <1>1, <1>6, <2>4, SendsSignal
  <1>7. ASSUME Calls(t, "sigqueue"), NEW u \in Threads,
               thr' = [thr EXCEPT ![t].pc = @ + 1, ![u].sigs = @ \cup {N(t)}]
        PROVE  IInv'
    <2>1. /\ CallOK(prog, t, w.pc) /\ c[w.pc].op = "sigqueue"
          /\ N(t) = c[w.pc].n
      BY <1>7, Calling
    <2>2. PICK s \in Signals : s = N(t)
      BY <2>1 DEF CallOK
    <2>3. thr' = [thr EXCEPT ![t].pc = @ + 1, ![u].sigs = @ \cup {s}]
      BY <1>7, <2>2
    <2> QED BY <1>1, <1>7, <2>3, SendsSignal
  <1>8. ASSUME Calls(t, "sigwait"), NEW s,
               thr' = [thr EXCEPT ![t].pc = @ + 1, ![t].sigs = @ \ {s}]
        PROVE  IInv'
    <2>1. PICK mask \in SUBSET Signals : mask = w.mask
      BY <1>3
    <2>2. PICK sigs \in SUBSET Signals : sigs = w.sigs \ {s}
      BY <1>3
    <2>3. [w EXCEPT !.pc = @ + 1, !.sigs = @ \ {s}]
            = [w EXCEPT !.pc = @ + 1, !.mask = mask, !.sigs = sigs]
      BY <1>2, <2>1, <2>2 DEF Thread
    <2>4. thr' = [thr EXCEPT ![t] = [w EXCEPT !.pc = @ + 1,
                                               !.sigs = @ \ {s}]]
      BY <1>2, <1>8 DEF ThrShape
    <2>5. thr' = [thr EXCEPT ![t] = [w EXCEPT !.pc = @ + 1,
                                       !.mask = mask, !.sigs = sigs]]
      BY <2>3, <2>4
    <2> QED BY <1>1, <1>8, <2>5, OwnSignals
  <1> QED BY <1>4, <1>5, <1>6, <1>7, <1>8 DEF signals

(* A signal is delivered; without a handler it ends the process. *)
LEMMA DeliverStep ==
    ASSUME Disciplined, IInv, NEW t \in Threads, Deliver(t)
    PROVE  IInv'
  <1> DEFINE w == thr[t]
  <1>1. PICK s : thr' = [thr EXCEPT ![t].sigs = @ \ {s}]
    BY DEF Deliver
  <1>2. UNCHANGED <<program, mem, owner>> /\ proc' \in ProcStates
    BY DEF Deliver, ProcStates
  <1>3. w \in Thread /\ ThrShape /\ ThreadInv(prog, t, w)
    BY Before
  <1>4. PICK sigs \in SUBSET Signals : sigs = w.sigs \ {s}
    BY <1>3 DEF Thread
  <1> DEFINE w2 == [w EXCEPT !.sigs = sigs]
  <1>5. thr' = [thr EXCEPT ![t] = w2]
    BY <1>1, <1>3, <1>4 DEF ThrShape
  <1>6. /\ w2 \in Thread /\ w2.st = w.st /\ w2.pc = w.pc /\ w2.loc = w.loc
        /\ w2.stack = w.stack /\ w2.specific = w.specific
        /\ w2.async = w.async /\ w2.pend = w.pend /\ w2.heap = w.heap
    BY <1>3 DEF Thread
  <1> HIDE DEF w2
  <1>7. /\ w2.async => IsAsync(Code[prog][t])
        /\ w2.pend => IsCanceled(prog, t)
    BY <1>6, Pends
  <1>8. Mild(prog, t, w, w2)
    BY <1>3, <1>6, <1>7, Stays
  <1> QED BY <1>2, <1>5, <1>8, MildOne

(* pthread_join() with a thread that has ended, or its error. *)
LEMMA JoinStep ==
    ASSUME Disciplined, IInv, NEW t \in Threads, pthread_join(t)
    PROVE  IInv'
  <1>1. PICK u : u = X(t)
    OBVIOUS
  <1>2. CASE errExit
    BY <1>2, ErrExit
  <1>3. ASSUME u # t, thr[u].st = "ended",
               thr' = [thr EXCEPT ![t].pc = @ + 1, ![u].st = "joined"],
               UNCHANGED <<program, proc, mem, owner>>
        PROVE  IInv'
    <2>1. Calls(t, "pthread_join")
      BY DEF pthread_join
    <2>2. /\ CallOK(prog, t, thr[t].pc) /\ X(t) = Code[prog][t][thr[t].pc].x
          /\ Code[prog][t][thr[t].pc].op = "pthread_join" /\ proc = "run"
      BY <2>1, Calling
    <2>3. u \in Threads /\ ThrShape
      BY <1>1, <2>2, Before DEF CallOK
    <2>4. thr[u] \in Thread /\ ThreadInv(prog, u, thr[u])
      BY <2>3, Before
    <2>5. /\ DOMAIN thr' = Threads /\ thr' = [x \in Threads |-> thr'[x]]
          /\ \A x \in Threads : x # t /\ x # u => thr'[x] = thr[x]
          /\ thr'[t] = [thr[t] EXCEPT !.pc = @ + 1]
          /\ thr'[u] = [thr[u] EXCEPT !.st = "joined"]
      BY <1>3, <2>3 DEF ThrShape
    <2>6. Mild(prog, t, thr[t], thr'[t])
      BY <2>1, <2>5, PlainNext DEF MarkedOps
    <2>7. Mild(prog, u, thr[u], thr'[u])
      BY <1>3, <2>4, <2>5, IsJoined
    <2>8. ThrShape'
      <3>1. Threads' = Threads
        BY <1>3 DEF Threads, program
      <3> QED BY <3>1, <2>5, Zenon DEF ThrShape
    <2>9. proc' \in ProcStates /\ UNCHANGED <<program, mem, owner>>
      BY <1>3, <2>2 DEF ProcStates
    <2> QED BY <2>3, <2>5, <2>6, <2>7, <2>8, <2>9, MildTwo
  <1> QED BY <1>1, <1>2, <1>3 DEF pthread_join

(* A thread that is about to be created has not been created before. *)
LEMMA NotYetCreated ==
    ASSUME Disciplined, IInv, NEW t \in Threads, thr[t].st = "run",
           thr[t].pc \in 1..Len(Code[prog][t]),
           IsCreate(Code[prog][t][thr[t].pc])
    PROVE  LET u == Code[prog][t][thr[t].pc].x
           IN  u \in Threads /\ u # t /\ u # "main" /\ thr[u].st = "none"
  <1> DEFINE u == Code[prog][t][thr[t].pc].x
  <1>1. /\ prog \in DOMAIN Code /\ Threads = DOMAIN Code[prog]
        /\ \A v \in Threads : ThreadInv(prog, v, thr[v])
    BY Before
  <1>2. CallOK(prog, t, thr[t].pc)
    BY <1>1, Rules
  <1>3. /\ u \in Threads /\ u # t /\ u # "main"
        /\ u \notin MarkAt(prog, t, thr[t].pc).made
        /\ \A v \in Threads \ {t} : \A j \in Positions(Code[prog][v]) :
             u \notin MarkAt(prog, v, j).made
    BY <1>1, <1>2 DEF CallOK, MarkAt
  <1>4. \A v \in Threads : thr[v].pc \in Positions(Code[prog][v])
    BY <1>1 DEF ThreadInv, PlaceInv
  <1>5. \A v \in Threads : u \notin MarkAt(prog, v, thr[v].pc).made
    BY <1>3, <1>4
  <1>6. thr[u].st = "none"
    BY <1>3, <1>5 DEF IInv, MadeInv
  <1> QED BY <1>3, <1>6

(* pthread_create(): the new thread holds nothing, and its creator is the  *)
(* only one to have made it.                                               *)
LEMMA CreateStep ==
    ASSUME Disciplined, IInv, NEW t \in Threads, pthread_create(t)
    PROVE  IInv'
  <1>1. PICK u : u = X(t)
    OBVIOUS
  <1>2. PICK d \in BOOLEAN : d = (NextCall(t).op = "create_detached")
    OBVIOUS
  <1>3. PICK op \in {"pthread_create", "create_detached"} : Calls(t, op)
    BY DEF pthread_create
  <1>4. CASE errExit
    BY <1>4, ErrExit
  <1>5. ASSUME thr' = [thr EXCEPT ![t].pc = @ + 1, ![u].st = "run",
                                  ![u].mask = thr[t].mask, ![u].detached = d],
               UNCHANGED <<program, proc, mem, owner>>
        PROVE  IInv'
    <2>1. /\ thr[t].pc \in 1..Len(Code[prog][t]) /\ thr[t].st = "run"
          /\ thr[t].pc <= Len(Code[prog][t])
          /\ X(t) = Code[prog][t][thr[t].pc].x /\ proc = "run"
          /\ IsCreate(Code[prog][t][thr[t].pc])
      BY <1>3, Calling DEF IsCreate
    <2>2. u \in Threads /\ u # t /\ u # "main" /\ thr[u].st = "none"
      BY <1>1, <2>1, NotYetCreated
    <2>3. /\ ThrShape /\ prog \in DOMAIN Code /\ Threads = DOMAIN Code[prog]
          /\ "main" \in Threads
          /\ \A v \in Threads : /\ thr[v] \in Thread
                                /\ ThreadInv(prog, v, thr[v])
                                /\ Mild(prog, v, thr[v], thr[v])
      BY Before
    <2> DEFINE a == [thr[t] EXCEPT !.pc = @ + 1]
               b == [thr[u] EXCEPT !.st = "run", !.mask = thr[t].mask,
                                   !.detached = d]
    <2>4. /\ DOMAIN thr' = Threads /\ thr' = [x \in Threads |-> thr'[x]]
          /\ \A x \in Threads : x # t /\ x # u => thr'[x] = thr[x]
          /\ thr'[t] = a /\ thr'[u] = b
      BY <1>5, <2>2, <2>3 DEF ThrShape
    <2>5. /\ Mild(prog, t, thr[t], a)
          /\ MarkAt(prog, t, a.pc).made
               = MarkAt(prog, t, thr[t].pc).made \cup {u}
      BY <1>1, <2>1, <2>3, Creates
    <2>6. thr[t].mask \in SUBSET Signals
      BY <2>3 DEF Thread
    <2>7. /\ b \in Thread /\ b.st = "run" /\ b.pc = thr[u].pc
          /\ b.stack = thr[u].stack /\ b.specific = thr[u].specific
          /\ b.async = thr[u].async /\ b.pend = thr[u].pend
          /\ b.heap = thr[u].heap
      BY <2>2, <2>3, <2>6 DEF Thread
    <2> HIDE DEF a, b
    <2>8. /\ ThreadInv(prog, u, b) /\ Keeps(prog, u, thr[u], b)
          /\ NotSpending(prog, u, thr[u], b)
      BY <2>2, <2>3, <2>7, Starts
    <2>9. \A v \in Threads : /\ ThreadInv(prog, v, thr'[v])
                             /\ Keeps(prog, v, thr[v], thr'[v])
                             /\ NotSpending(prog, v, thr[v], thr'[v])
      BY <2>2, <2>3, <2>4, <2>5, <2>8 DEF Mild, Onward
    <2>10. ThrShape'
      <3>1. Threads' = Threads
        BY <1>5 DEF Threads, program
      <3> QED BY <3>1, <2>4, Zenon DEF ThrShape
    <2>11. /\ UNCHANGED program /\ mem' = mem /\ owner' = owner
           /\ proc' \in ProcStates
           /\ mem' \in [Vars -> Nat]
           /\ owner' \in [Locks -> Threads \cup {NoThread}]
      BY <1>5, <2>1 DEF ProcStates, IInv, ShapeInv
    <2>12. ShapeInv' /\ ThreadsInv'
      BY <2>9, <2>10, <2>11, ShapeStep
    <2>13. LockInv'
      BY <2>9, <2>11, QuietLocks
    <2>14. SemInv'
      BY <2>9, <2>11, QuietSems DEF Keeps
    <2>15. SpendInv'
      BY <2>9, <2>11, QuietSpends
    <2>16. MadeInv'
      <3>1. Threads' = Threads /\ prog' = prog
        BY <1>5 DEF Threads, program
      <3>2. \A v \in Threads : MarkAt(prog, v, thr[v].pc).made
                                 \subseteq MarkAt(prog, v, thr'[v].pc).made
        BY <2>2, <2>4, <2>5, <2>7
      <3>3. u \in MarkAt(prog, t, thr'[t].pc).made
        BY <2>4, <2>5
      <3>4. ASSUME NEW v \in Threads \ {"main"}, thr'[v].st # "none"
            PROVE  \E x \in Threads : v \in MarkAt(prog, x, thr'[x].pc).made
        <4>1. CASE v = u
          BY <3>3, <4>1
        <4>2. CASE v # u
          <5>1. thr[v].st # "none"
            BY <2>1, <2>4, <3>4, <4>2
          <5>2. PICK x \in Threads : v \in MarkAt(prog, x, thr[x].pc).made
            BY <5>1 DEF IInv, MadeInv
          <5> QED BY <3>2, <5>2
        <4> QED BY <4>1, <4>2
      <3>5. MarkAt(prog, "main", thr'["main"].pc).made # {}
        <4>1. CASE t = "main"
          BY <3>3, <4>1
        <4>2. CASE t # "main"
          <5>1. MarkAt(prog, "main", thr["main"].pc).made # {}
            BY <2>1, <4>2 DEF IInv, MadeInv
          <5> QED BY <2>3, <3>2, <5>1
        <4> QED BY <4>1, <4>2
      <3> QED BY <3>1, <3>4, <3>5 DEF MadeInv
    <2> QED BY <2>12, <2>13, <2>14, <2>15, <2>16 DEF IInv
  <1> QED BY <1>1, <1>2, <1>4, <1>5 DEF pthread_create

-----------------------------------------------------------------------------
(* The invariant holds in the beginning, and every step keeps it. *)

(* The fields of a thread that has not been created. *)
LEMMA FreshFields ==
    /\ Fresh \in Thread /\ Fresh.st = "none" /\ Fresh.pc = 1
    /\ Fresh.specific = "" /\ Fresh.stack = <<>> /\ Fresh.async = FALSE
    /\ Fresh.pend = FALSE /\ \A r \in Blocks : Fresh.heap[r] = 0
  <1> DEFINE z == [r \in Blocks |-> 0]
  <1>1. z \in [Blocks -> Int] /\ \A r \in Blocks : z[r] = 0
    OBVIOUS
  <1> HIDE DEF z
  <1>2. PICK g : g = z
    OBVIOUS
  <1>3. <<>> \in Seq(Handlers)
    OBVIOUS
  <1>4. PICK s : s = <<>>
    OBVIOUS
  <1>5. Fresh = [st |-> "none", pc |-> 1, loc |-> 0, heap |-> g,
                 specific |-> "", stack |-> s, detached |-> FALSE,
                 pend |-> FALSE, enabled |-> TRUE, async |-> FALSE,
                 mask |-> {}, sigs |-> {}, spurious |-> 0]
    BY <1>2, <1>4, Zenon DEF Fresh, z
  <1>6. g \in [Blocks -> Int] /\ s \in Seq(Handlers)
    BY <1>1, <1>2, <1>3, <1>4
  <1>7. Fresh \in Thread
    BY <1>5, <1>6 DEF Thread
  <1>8. /\ Fresh.st = "none" /\ Fresh.pc = 1 /\ Fresh.specific = ""
        /\ Fresh.stack = s /\ Fresh.async = FALSE /\ Fresh.pend = FALSE
        /\ Fresh.heap = g
    BY <1>5
  <1> QED BY <1>1, <1>2, <1>4, <1>7, <1>8

(* Before its first call a thread has the mark that says nothing. *)
LEMMA FreshThread ==
    ASSUME Disciplined, NEW p \in DOMAIN Code, NEW t \in DOMAIN Code[p],
           NEW st \in {"run", "none"}, st = "none" => t # "main"
    PROVE  /\ ThreadInv(p, t, [Fresh EXCEPT !.st = st])
           /\ Owns(p, t, [Fresh EXCEPT !.st = st]) = {}
           /\ 1 < Len(Code[p][t]) => ~Spends(Code[p][t], 2)
  <1> DEFINE w == [Fresh EXCEPT !.st = st]
             c == Code[p][t]
  <1>1. /\ w \in Thread /\ w.st = st /\ w.pc = 1 /\ w.specific = ""
        /\ w.stack = <<>> /\ w.async = FALSE /\ w.pend = FALSE
        /\ \A r \in Blocks : w.heap[r] = 0
    BY FreshFields DEF Thread
  <1> HIDE DEF w
  <1>2. /\ Len(c) \in Nat /\ MarkAt(p, t, 1) = NoMark
        /\ \A i \in 1..Len(c) : SpendOK(p, c, i)
        /\ Lends(p, t) => LenderOK(p, t)
    BY Rules
  <1>3. 1 \in Positions(c)
    BY <1>2 DEF Positions
  <1>4. 1 <= Len(c) => ~Spends(c, 1)
    <2>1. 1 <= Len(c) => 1 \in 1..Len(c)
      BY <1>2
    <2> QED BY <2>1, <1>2 DEF SpendOK
  <1>5. 1 < Len(c) => ~Spends(c, 2)
    <2>1. 1 < Len(c) => 2 \in 1..Len(c)
      BY <1>2
    <2> QED BY <2>1, <1>2 DEF SpendOK
  <1>6. Lends(p, t) => 1 <= Len(c)
    BY <1>2 DEF LenderOK
  <1>7. PlaceInv(p, t, w)
    BY <1>1, <1>3, <1>4, <1>6 DEF PlaceInv, Ending
  <1>8. HandlerBlocks(w.stack) = {} /\ Distinct(w.stack)
    <2>1. w.stack = <<>>
      BY <1>1
    <2>2. DOMAIN w.stack = 1..0
      BY <2>1
    <2>3. \A i \in DOMAIN w.stack : FALSE
      BY <2>2
    <2>4. HandlerBlocks(w.stack) = {}
      BY <2>3 DEF HandlerBlocks
    <2>5. Distinct(w.stack)
      BY <2>3 DEF Distinct
    <2> QED BY <2>4, <2>5
  <1>9. /\ NoMark.stack = <<>> /\ NoMark.novalue = FALSE /\ NoMark.held = {}
        /\ \A r \in Blocks : NoMark.local[r] = 0
    BY DEF NoMark
  <1>10. \A r \in Blocks : Kept(w, r) = 0
    <2> TAKE r \in Blocks
    <2>1. r # w.specific /\ r \notin HandlerBlocks(w.stack)
      BY <1>1, <1>8, Names
    <2> QED BY <2>1 DEF Kept
  <1>11. BlockInv(p, t, w)
    <2>1. \A r \in Blocks : w.heap[r] = NoMark.local[r] + Kept(w, r)
      <3> TAKE r \in Blocks
      <3>1. w.heap[r] = 0 /\ NoMark.local[r] = 0 /\ Kept(w, r) = 0
        BY <1>1, <1>9, <1>10
      <3> QED BY <3>1
    <2>2. /\ w.stack = MarkAt(p, t, w.pc).stack
          /\ MarkAt(p, t, w.pc).novalue = FALSE
      BY <1>1, <1>2, <1>9
    <2> QED BY <1>1, <1>2, <2>1, <2>2 DEF BlockInv
  <1>12. EndInv(p, t, w)
    BY <1>1 DEF EndInv, Gone
  <1>13. ThreadInv(p, t, w)
    BY <1>1, <1>7, <1>8, <1>11, <1>12 DEF ThreadInv
  <1>14. Owns(p, t, w) = {}
    BY <1>1, <1>2, <1>9 DEF Owns
  <1> QED BY <1>5, <1>13, <1>14 DEF w

(* The invariant holds at first, *)
LEMMA Beginning ==
    ASSUME Disciplined, Init
    PROVE  IInv
  <1>1. /\ prog \in DOMAIN Code /\ code = Code[prog] /\ proc = "run"
        /\ Threads = DOMAIN Code[prog]
        /\ thr = [t \in Threads |-> IF t = "main" THEN [Fresh EXCEPT !.st = "run"]
                                    ELSE Fresh]
        /\ mem = [v \in Vars |-> 0] /\ owner = [m \in Locks |-> NoThread]
    BY DEF Init, Threads
  <1>2. "main" \in Threads /\ "" \notin Threads
    BY <1>1, Names
  <1>3. ASSUME NEW t \in Threads
        PROVE  /\ ThreadInv(prog, t, thr[t]) /\ Owns(prog, t, thr[t]) = {}
               /\ 1 < Len(code[t]) => ~Spends(code[t], 2)
               /\ thr[t].pc = 1 /\ (t # "main" => thr[t].st = "none")
    <2>1. PICK st \in {"run", "none"} :
            st = IF t = "main" THEN "run" ELSE "none"
      OBVIOUS
    <2>2. thr[t] = [Fresh EXCEPT !.st = st]
      <3>1. Fresh = [Fresh EXCEPT !.st = "none"]
        BY FreshFields DEF Thread
      <3>2. CASE t = "main"
        BY <1>1, <2>1, <3>2
      <3>3. CASE t # "main"
        BY <1>1, <2>1, <3>1, <3>3
      <3> QED BY <3>2, <3>3
    <2>3. thr[t].pc = 1 /\ (t # "main" => thr[t].st = "none")
      BY <2>1, <2>2, FreshFields DEF Thread
    <2>4. /\ ThreadInv(prog, t, [Fresh EXCEPT !.st = st])
          /\ Owns(prog, t, [Fresh EXCEPT !.st = st]) = {}
          /\ 1 < Len(Code[prog][t]) => ~Spends(Code[prog][t], 2)
      BY <1>1, <2>1, FreshThread
    <2> QED BY <1>1, <2>2, <2>3, <2>4
  <1>4. ShapeInv
    BY <1>1 DEF ShapeInv
  <1>5. ThreadsInv
    BY <1>3 DEF ThreadsInv
  <1>6. LockInv
    BY <1>1, <1>2, <1>3 DEF LockInv, NoThread
  <1>7. SemInv
    BY <1>1, <1>3 DEF SemInv, Semaphores
  <1>8. MadeInv
    BY <1>3 DEF MadeInv
  <1>9. SpendInv
    BY <1>3 DEF SpendInv
  <1> QED BY <1>4, <1>5, <1>6, <1>7, <1>8, <1>9 DEF IInv

(* and every step keeps it. *)
LEMMA Inductive ==
    ASSUME Disciplined, IInv, [Next]_vars
    PROVE  IInv'
  <1>1. ASSUME NEW t \in Threads, ThreadStep(t) PROVE IInv'
    BY <1>1, CreateStep, JoinStep, ExitStep, PthreadExitStep, LoadStep,
       StoreStep, BranchStep, LockStep, CondWaitStep, CondSignalStep,
       RelockStep, SemaphoreStep, BarrierStep, OnceStep, MallocStep,
       FreeStep, SpecificStep, PushStep, PopStep, UnwindStep, ThreadEndsStep,
       CancelStep, SetCancelStep, SleepStep, ActOnCancelStep, SignalsStep,
       DeliverStep DEF ThreadStep
  <1>2. ASSUME NEW t \in Threads, SpuriousWakeup(t) PROVE IInv'
    BY <1>2, SpuriousStep
  <1>3. CASE UNCHANGED vars
    <2>1. UNCHANGED <<program, thr, mem, owner>> /\ proc' = proc
      BY <1>3 DEF vars
    <2>2. proc' \in ProcStates
      BY <2>1 DEF IInv, ShapeInv, ProcStates
    <2> QED BY <2>1, <2>2, ProcessEnds
  <1> QED BY <1>1, <1>2, <1>3 DEF Next

-----------------------------------------------------------------------------
(* What the invariant says of the properties of module Pthreads. *)

(* Every variable is of its type. *)
LEMMA Typed ==
    ASSUME Disciplined, IInv
    PROVE  TypeOK
  <1>1. ASSUME NEW t \in Threads
        PROVE  /\ thr[t].st \in {"none", "run", "wait", "relock", "barrier",
                                 "unwind"} \cup Gone
               /\ thr[t].pc \in 1..Len(code[t]) + 1
               /\ thr[t].loc \in Int /\ thr[t].heap \in [Blocks -> Int]
               /\ {thr[t].detached, thr[t].pend, thr[t].enabled, thr[t].async}
                      \subseteq BOOLEAN
    <2>1. thr[t] \in Thread /\ ThreadInv(prog, t, thr[t]) /\ code = Code[prog]
      BY Before
    <2>2. thr[t].pc \in 1..Len(code[t]) + 1
      BY <2>1 DEF ThreadInv, PlaceInv, Positions
    <2>3. /\ thr[t].st \in {"none", "run", "wait", "relock", "barrier"}
                           \cup Ending
          /\ thr[t].loc \in Nat /\ thr[t].heap \in [Blocks -> Int]
          /\ thr[t].detached \in BOOLEAN /\ thr[t].pend \in BOOLEAN
          /\ thr[t].enabled \in BOOLEAN /\ thr[t].async \in BOOLEAN
      BY <2>1 DEF Thread
    <2>4. {thr[t].detached, thr[t].pend, thr[t].enabled, thr[t].async}
            \subseteq BOOLEAN
      BY <2>3, Zenon
    <2>5. thr[t].loc \in Int
      BY <2>3
    <2>6. thr[t].st \in {"none", "run", "wait", "relock", "barrier",
                         "unwind"} \cup Gone
      BY <2>3 DEF Ending, Gone
    <2> QED BY <2>2, <2>3, <2>4, <2>5, <2>6
  <1> QED BY <1>1 DEF TypeOK, IInv, ShapeInv

(* Who accesses a variable holds what excludes the others, who unlocks has *)
(* the lock, and who lends a variable is still there.                      *)
LEMMA Safe ==
    ASSUME Disciplined, IInv
    PROVE  SafeAccess
  <1>1. /\ prog \in DOMAIN Code /\ Threads = DOMAIN Code[prog]
        /\ code = Code[prog]
        /\ \A t \in Threads : ThreadInv(prog, t, thr[t])
    BY Before
  <1>2. ASSUME prog \notin Racy, NEW t \in Threads, NEW u \in Threads, t # u,
               Accesses(t), Accesses(u), X(t) = X(u),
               NextCall(t).op \in {"store", "set"}
        PROVE  FALSE
    <2>1. PICK op : Calls(t, op)
      BY <1>2 DEF Accesses, Calls
    <2>2. PICK oq \in {"load", "store", "set", "skip"} : Calls(u, oq)
      BY <1>2 DEF Accesses, Calls
    <2>3. /\ thr[t].st = "run" /\ thr[t].pc \in 1..Len(Code[prog][t])
          /\ NextCall(t) = Code[prog][t][thr[t].pc]
          /\ X(t) = Code[prog][t][thr[t].pc].x
      BY <2>1, Calling
    <2>4. /\ thr[u].st = "run" /\ thr[u].pc \in 1..Len(Code[prog][u])
          /\ Code[prog][u][thr[u].pc].op = oq
          /\ X(u) = Code[prog][u][thr[u].pc].x
      BY <2>2, Calling
    <2>5. Uses(Code[prog][u][thr[u].pc], Code[prog][t][thr[t].pc].x)
      BY <1>2, <2>3, <2>4 DEF Uses
    <2> QED BY <1>2, <2>3, <2>4, <2>5, NoRace
  <1>3. ASSUME NEW t \in Threads, Calls(t, "unlock") PROVE owner[X(t)] = t
    <2>1. /\ thr[t].st = "run" /\ X(t) = Code[prog][t][thr[t].pc].x
          /\ Code[prog][t][thr[t].pc].op = "unlock"
          /\ CallOK(prog, t, thr[t].pc)
      BY <1>3, Calling
    <2>2. X(t) \in Locks /\ X(t) \in MarkAt(prog, t, thr[t].pc).held
      BY <2>1 DEF CallOK, MarkAt
    <2>3. X(t) \in Owns(prog, t, thr[t])
      BY <2>1, <2>2 DEF Owns
    <2> QED BY <2>2, <2>3 DEF IInv, LockInv
  <1>4. ASSUME NEW t \in Threads, Calls(t, "arg"), prog \notin Dangling
        PROVE  thr[X(t)].st \notin {"unwind"} \cup Gone
    <2>1. /\ X(t) = Code[prog][t][thr[t].pc].x
          /\ thr[t].pc \in 1..Len(Code[prog][t])
          /\ Code[prog][t][thr[t].pc].op = "arg"
          /\ CallOK(prog, t, thr[t].pc)
      BY <1>4, Calling
    <2>2. X(t) \in Threads
      BY <1>1, <2>1 DEF CallOK
    <2>3. Lends(prog, X(t))
      BY <1>1, <1>4, <2>1 DEF Lends
    <2> QED BY <1>1, <2>2, <2>3 DEF ThreadInv, PlaceInv, Ending, Gone
  <1> QED BY <1>2, <1>3, <1>4 DEF SafeAccess

(* The blocks and locks of a thread that ends are those of its handlers    *)
(* and of its key, and of one that has ended none.                         *)
LEMMA Tidy ==
    ASSUME Disciplined, IInv
    PROVE  NothingLeaked
  <1> SUFFICES ASSUME NEW t \in Threads
               PROVE
        /\ \A r \in Blocks : thr[t].heap[r] >= 0
        /\ thr[t].st \in Gone =>
             /\ t \notin {owner[m] : m \in Locks}
             /\ <<prog, t, EndedIn(t)>> \notin Leaky =>
                  \A r \in Blocks : thr[t].heap[r] = 0
        /\ thr[t].st = "unwind" /\ thr[t].stack # <<>>
             /\ Handler(t).lock \in Locks => owner[Handler(t).lock] = t
    BY DEF NothingLeaked
  <1> DEFINE w == thr[t]
             k == MarkAt(prog, t, w.pc)
  <1>1. /\ prog \in DOMAIN Code /\ t \in DOMAIN Code[prog]
        /\ w \in Thread /\ ThreadInv(prog, t, w)
    BY Before
  <1>2. ASSUME NEW r \in Blocks PROVE w.heap[r] >= 0
    <2>1. Kept(w, r) \in Nat
      BY DEF Kept
    <2>2. CASE w.st \notin Ending
      <3>1. w.pc \in Positions(Code[prog][t])
        BY <1>1 DEF ThreadInv, PlaceInv
      <3>2. k.local[r] \in Nat
        BY <1>1, <3>1, Rules DEF MarkSet
      <3>3. w.heap[r] = k.local[r] + Kept(w, r)
        BY <1>1, <2>2 DEF ThreadInv, BlockInv
      <3> HIDE DEF k
      <3> QED BY <2>1, <3>2, <3>3
    <2>3. CASE w.st \in Ending
      <3>1. w.heap[r] \in Int
        BY <1>1 DEF Thread
      <3>2. w.heap[r] >= Kept(w, r) \/ w.heap[r] >= 0
        BY <1>1, <2>3 DEF ThreadInv, EndInv, Ending, Gone
      <3> QED BY <2>1, <3>1, <3>2
    <2> QED BY <2>2, <2>3
  <1>3. ASSUME w.st \in Gone
        PROVE  /\ t \notin {owner[m] : m \in Locks}
               /\ <<prog, t, EndedIn(t)>> \notin Leaky =>
                    \A r \in Blocks : w.heap[r] = 0
    <2>1. Owns(prog, t, w) = {}
      BY <1>3 DEF Owns, Gone
    <2>2. \A m \in Locks : owner[m] # t
      BY <2>1 DEF IInv, LockInv
    <2>3. MayLeak(prog, t, w.pc) => <<prog, t, EndedIn(t)>> \in Leaky
      BY DEF MayLeak, EndedIn, Returns, NextCall, IInv, ShapeInv
    <2> QED BY <1>1, <1>3, <2>2, <2>3 DEF ThreadInv, EndInv
  <1>4. ASSUME w.st = "unwind", w.stack # <<>>, Handler(t).lock \in Locks
        PROVE  owner[Handler(t).lock] = t
    <2>1. w.stack \in Seq(Handlers) /\ Distinct(w.stack)
      BY <1>1 DEF Thread, ThreadInv
    <2>2. Handler(t).lock \in HandlerLocks(w.stack)
      BY <1>4, <2>1, PopHandler DEF Handler
    <2>3. Handler(t).lock \in Owns(prog, t, w)
      BY <1>4, <2>2 DEF Owns
    <2> QED BY <1>4, <2>3 DEF IInv, LockInv
  <1> QED BY <1>2, <1>3, <1>4

-----------------------------------------------------------------------------
(* Of a program that keeps the rules the invariant holds in every state. *)
THEOREM Invariance ==
    ASSUME Disciplined
    PROVE  Spec => []IInv
  <1>1. Init => IInv
    BY Beginning
  <1>2. IInv /\ [Next]_vars => IInv'
    BY Inductive
  <1> QED BY <1>1, <1>2, PTL DEF Spec

(* In every program that keeps the rules the variables stay of their type: *)
(* no variable, semaphore or barrier goes below zero, no thread leaves its *)
(* code, no lock is owned by what is not a thread.                         *)
THEOREM TypeCorrect ==
    ASSUME Disciplined
    PROVE  Spec => []TypeOK
  <1>1. IInv => TypeOK
    BY Typed
  <1> QED BY <1>1, Invariance, PTL

(* In every program that keeps the rules, however its threads are          *)
(* interleaved, canceled and woken, no two threads are about to access one *)
(* variable with one of them to write it, every lock is given back by the  *)
(* thread that has it, and an argument is read while the thread that lends *)
(* it still runs.                                                          *)
THEOREM AccessIsSafe ==
    ASSUME Disciplined
    PROVE  Spec => []SafeAccess
  <1>1. IInv => SafeAccess
    BY Safe
  <1> QED BY <1>1, Invariance, PTL

(* In every program that keeps the rules, wherever a thread returns, exits *)
(* or is canceled, its cleanup handlers and the destructor of its key free *)
(* every block once and unlock every mutex it has, and only those.         *)
THEOREM NothingIsLeaked ==
    ASSUME Disciplined
    PROVE  Spec => []NothingLeaked
  <1>1. IInv => NothingLeaked
    BY Tidy
  <1> QED BY <1>1, Invariance, PTL
=============================================================================
