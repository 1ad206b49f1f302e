------------------------- MODULE MultiSigchldProofs -------------------------
(***************************************************************************)
(* Proofs about MultiSigchld for every finite nonempty set of children.    *)
(***************************************************************************)
EXTENDS MultiSigchld, FiniteSetTheorems, TLAPS

(* SIGCHLD is blocked from the moment a child can exist. *)
MaskInv ==
    /\ pc \notin {"init", "block"} => "SIGCHLD" \in mask
    /\ pc \in {"init", "block"} => /\ "SIGCHLD" \notin pending /\ caught = 0
                                  /\ \A c \in Children : child[c] = "unborn"

(* The program exits successfully only with every child reaped. *)
ExitInv == pc = "exited" => Unreaped = {}

(* sigCnt lags the runs of the handler by the one not yet counted. *)
CountedInv ==
    sigCnt + (IF pc \in {"reap", "sleep", "woken"} THEN 1 ELSE 0) = caught

(* Every run of the handler used up a generated signal; the pending one,   *)
(* if any, is not used up yet.                                             *)
ConsumedInv == caught + (IF "SIGCHLD" \in pending THEN 1 ELSE 0) <= raised

(* Only the handler reaps. *)
ReaperInv == (\E c \in Children : child[c] = "reaped") => caught >= 1

IInv ==
    /\ TypeOK
    /\ MaskInv
    /\ CounterExact
    /\ NoLostWakeup
    /\ HandlerOnlyInSigsuspend
    /\ ExitInv
    /\ CountedInv
    /\ ConsumedInv
    /\ ReaperInv

(* The initial state satisfies the inductive invariant. *)
LEMMA InitIInv == Init => IInv
  BY DEF Init, IInv, TypeOK, MaskInv, CounterExact, NoLostWakeup,
         HandlerOnlyInSigsuspend, ExitInv, CountedInv, ConsumedInv, ReaperInv,
         MainPc, HandlerPc, ChildState, Signals

(* Unreaped is finite, its cardinality is a number, and it is zero only    *)
(* when every child has been reaped.                                       *)
LEMMA UnreapedFinite ==
  /\ IsFiniteSet(Unreaped)
  /\ Cardinality(Unreaped) \in Nat
  /\ Cardinality(Unreaped) = 0 <=> Unreaped = {}
<1>1. IsFiniteSet(Unreaped)
  <2>1. Unreaped \subseteq Children
    BY DEF Unreaped
  <2> QED BY <2>1, FS_Subset, ChildrenAssumption
<1> QED BY <1>1, FS_CardinalityType, FS_EmptySet

(* The program counter and the children stay in their types. *)
LEMMA NextTypeOK == IInv /\ [Next]_vars => TypeOK'
<1> SUFFICES ASSUME IInv, [Next]_vars PROVE TypeOK'
  OBVIOUS
<1> USE DEF IInv, TypeOK, MainPc, HandlerPc, ChildState, Signals
<1>1. CASE Setup
  BY <1>1, FS_CardinalityType, ChildrenAssumption DEF Setup
<1>2. CASE Block
  BY <1>2 DEF Block
<1>3. ASSUME NEW c \in Children, Fork(c) PROVE TypeOK'
  BY <1>3 DEF Fork
<1>4. CASE ForkFails
  BY <1>4 DEF ForkFails
<1>5. CASE Check \/ Suspend
  BY <1>5 DEF Check, Suspend
<1>6. CASE Woken
  BY <1>6 DEF Woken
<1>7. CASE Deliver
  BY <1>7 DEF Deliver, Deliverable
<1>8. ASSUME NEW c \in Children, HandlerReap(c) PROVE TypeOK'
  <2>1. numLiveChildren = Cardinality(Unreaped) /\ c \in Unreaped
    BY <1>8 DEF HandlerReap, CounterExact, Unreaped
  <2>2. numLiveChildren > 0
    BY <2>1, UnreapedFinite
  <2> QED BY <1>8, <2>2 DEF HandlerReap
<1>9. CASE HandlerNoMore
  BY <1>9 DEF HandlerNoMore
<1>10. CASE HandlerReturn
  BY <1>10 DEF HandlerReturn, HandlerOnlyInSigsuspend
<1>11. ASSUME NEW c \in Children, ChildStep(c) PROVE TypeOK'
  <2>1. PICK t \in ChildState : child' = [child EXCEPT ![c] = t]
    BY <1>11 DEF ChildStep, ChildExit, ChildStop, ChildContinue
  <2>2. /\ pending' = pending \cup {"SIGCHLD"} /\ raised' = raised + 1
        /\ UNCHANGED <<pc, intr, mask, numLiveChildren, sigCnt, caught>>
    BY <1>11 DEF ChildStep, ChildExit, ChildStop, ChildContinue, Raise
  <2> QED BY <2>1, <2>2
<1>12. CASE UNCHANGED vars
  BY <1>12 DEF vars
<1> QED
  BY <1>1, <1>2, <1>3, <1>4, <1>5, <1>6, <1>7, <1>8, <1>9, <1>10, <1>11,
     <1>12 DEF Next, MainStep, HandlerStep, Terminated

(* The counter follows the children through every step: only a reap moves  *)
(* either of them.                                                         *)
LEMMA NextCounterExact == IInv /\ [Next]_vars => CounterExact'
<1> SUFFICES ASSUME IInv, [Next]_vars PROVE CounterExact'
  OBVIOUS
<1> USE DEF IInv, TypeOK, CounterExact
<1>a. ASSUME Unreaped' = Unreaped, numLiveChildren' = numLiveChildren,
             pc # "init"
      PROVE  CounterExact'
  BY <1>a
<1>1. CASE Setup
  <2>1. Unreaped' = Children
    BY <1>1 DEF Setup, Unreaped, MaskInv
  <2> QED BY <1>1, <2>1 DEF Setup
<1>2. CASE Block \/ ForkFails \/ Check \/ Suspend \/ Woken \/ Deliver
           \/ HandlerNoMore \/ HandlerReturn
  <2>1. child' = child /\ numLiveChildren' = numLiveChildren /\ pc # "init"
    BY <1>2 DEF Block, ForkFails, Check, Suspend, Woken, Deliver,
          Deliverable, HandlerNoMore, HandlerReturn, MaskInv, NoLostWakeup,
          MainPc
  <2> QED BY <1>a, <2>1 DEF Unreaped
<1>3. ASSUME NEW c \in Children, Fork(c) PROVE CounterExact'
  <2>1. Unreaped' = Unreaped
    BY <1>3 DEF Fork, Unreaped
  <2> QED BY <1>a, <1>3, <2>1 DEF Fork
<1>4. ASSUME NEW c \in Children, HandlerReap(c) PROVE CounterExact'
  <2>1. c \in Unreaped /\ Unreaped' = Unreaped \ {c}
    BY <1>4 DEF HandlerReap, Unreaped
  <2>2. Cardinality(Unreaped') = Cardinality(Unreaped) - 1
    BY <2>1, UnreapedFinite, FS_RemoveElement
  <2> QED BY <1>4, <2>2 DEF HandlerReap
<1>5. ASSUME NEW c \in Children, ChildStep(c) PROVE CounterExact'
  <2>1. Unreaped' = Unreaped /\ pc # "init"
    BY <1>5 DEF ChildStep, ChildExit, ChildStop, ChildContinue, Unreaped,
                MaskInv
  <2> QED
    BY <1>a, <1>5, <2>1 DEF ChildStep, ChildExit, ChildStop, ChildContinue
<1>6. CASE UNCHANGED vars
  BY <1>6 DEF vars, Unreaped
<1> QED
  BY <1>1, <1>2, <1>3, <1>4, <1>5, <1>6
     DEF Next, MainStep, HandlerStep, Terminated

(* SIGCHLD is blocked before the first fork() and stays blocked, and the   *)
(* handler, which could then only interrupt sigsuspend(), reaps until no   *)
(* zombie is left: no end of a child goes unnoticed.                       *)
LEMMA NextSignals ==
  IInv /\ [Next]_vars => MaskInv' /\ NoLostWakeup' /\ HandlerOnlyInSigsuspend'
<1> SUFFICES ASSUME IInv, [Next]_vars
             PROVE  MaskInv' /\ NoLostWakeup' /\ HandlerOnlyInSigsuspend'
  OBVIOUS
<1> DEFINE Goal == MaskInv' /\ NoLostWakeup' /\ HandlerOnlyInSigsuspend'
<1> USE DEF IInv, TypeOK, MainPc, HandlerPc, ChildState, MaskInv,
            NoLostWakeup, HandlerOnlyInSigsuspend
<1>1. CASE Setup
  BY <1>1 DEF Setup
<1>2. CASE Block
  BY <1>2 DEF Block
<1>3. ASSUME NEW c \in Children, Fork(c) PROVE Goal
  BY <1>3 DEF Fork
<1>4. CASE ForkFails \/ Check \/ Suspend \/ Woken
  BY <1>4 DEF ForkFails, Check, Suspend, Woken
<1>5. CASE Deliver
  BY <1>5 DEF Deliver, Deliverable
<1>6. ASSUME NEW c \in Children, HandlerReap(c) PROVE Goal
  BY <1>6 DEF HandlerReap
<1>7. CASE HandlerNoMore
  BY <1>7 DEF HandlerNoMore
<1>8. CASE HandlerReturn
  BY <1>8 DEF HandlerReturn
<1>9. ASSUME NEW c \in Children, ChildStep(c) PROVE Goal
  <2>1. /\ "SIGCHLD" \in pending'
        /\ child[c] # "unborn"
        /\ UNCHANGED <<pc, intr, mask, caught>>
    BY <1>9 DEF ChildStep, ChildExit, ChildStop, ChildContinue, Raise
  <2> QED BY <2>1
<1>10. CASE UNCHANGED vars
  BY <1>10 DEF vars
<1> QED
  BY <1>1, <1>2, <1>3, <1>4, <1>5, <1>6, <1>7, <1>8, <1>9, <1>10
     DEF Next, MainStep, HandlerStep, Terminated

(* The loop is left only when the counter, which is exact, is zero. *)
LEMMA NextExit == IInv /\ [Next]_vars => ExitInv'
<1> SUFFICES ASSUME IInv, [Next]_vars, pc' = "exited" PROVE Unreaped' = {}
  BY DEF ExitInv
<1> USE DEF IInv, TypeOK, MainPc, HandlerPc, ExitInv
<1>1. CASE Check
  <2>1. numLiveChildren = 0 /\ child' = child
    BY <1>1 DEF Check
  <2> QED BY <1>1, <2>1, UnreapedFinite DEF Check, CounterExact, Unreaped
<1>2. ASSUME NEW c \in Children, ChildStep(c) PROVE Unreaped' = {}
  <2>1. c \in Unreaped /\ pc = "exited"
    BY <1>2 DEF ChildStep, ChildExit, ChildStop, ChildContinue, Unreaped
  <2> QED BY <2>1
<1>3. CASE UNCHANGED vars
  BY <1>3 DEF vars, Unreaped
<1>4. pc' # "exited" \/ Check \/ (\E c \in Children : ChildStep(c))
        \/ UNCHANGED vars
  BY DEF Next, MainStep, HandlerStep, Terminated, Setup, Block, Fork,
         ForkFails, Suspend, Woken, Deliver, HandlerReap, HandlerNoMore,
         HandlerReturn
<1> QED BY <1>1, <1>2, <1>3, <1>4

(* Each run of the handler is counted once by the main program, and used   *)
(* up a signal of its own.                                                 *)
LEMMA NextCounts ==
  IInv /\ [Next]_vars => CountedInv' /\ ConsumedInv' /\ ReaperInv'
<1> SUFFICES ASSUME IInv, [Next]_vars
             PROVE  CountedInv' /\ ConsumedInv' /\ ReaperInv'
  OBVIOUS
<1> DEFINE Goal == CountedInv' /\ ConsumedInv' /\ ReaperInv'
<1> USE DEF IInv, TypeOK, MainPc, HandlerPc, ChildState, CountedInv,
            ConsumedInv, ReaperInv
<1>1. CASE Setup
  BY <1>1 DEF Setup, CounterExact, MaskInv, HandlerOnlyInSigsuspend
<1>2. CASE Block
  BY <1>2 DEF Block
<1>3. ASSUME NEW c \in Children, Fork(c) PROVE Goal
  BY <1>3 DEF Fork
<1>4. CASE ForkFails \/ Check \/ Suspend \/ Woken
  BY <1>4 DEF ForkFails, Check, Suspend, Woken
<1>5. CASE Deliver
  BY <1>5 DEF Deliver, Deliverable, MaskInv
<1>6. ASSUME NEW c \in Children, HandlerReap(c) PROVE Goal
  BY <1>6 DEF HandlerReap
<1>7. CASE HandlerNoMore
  BY <1>7 DEF HandlerNoMore
<1>8. CASE HandlerReturn
  BY <1>8 DEF HandlerReturn, HandlerOnlyInSigsuspend
<1>9. ASSUME NEW c \in Children, ChildStep(c) PROVE Goal
  <2>1. /\ raised' = raised + 1
        /\ UNCHANGED <<pc, sigCnt, caught>>
    BY <1>9 DEF ChildStep, ChildExit, ChildStop, ChildContinue, Raise
  <2>2. (\E d \in Children : child'[d] = "reaped")
          => \E d \in Children : child[d] = "reaped"
    BY <1>9 DEF ChildStep, ChildExit, ChildStop, ChildContinue
  <2> QED BY <2>1, <2>2
<1>10. CASE UNCHANGED vars
  BY <1>10 DEF vars
<1> QED
  BY <1>1, <1>2, <1>3, <1>4, <1>5, <1>6, <1>7, <1>8, <1>9, <1>10
     DEF Next, MainStep, HandlerStep, Terminated

(* The inductive invariant holds of every behaviour. *)
THEOREM Invariance == Spec => []IInv
<1>1. IInv /\ [Next]_vars => IInv'
  BY NextTypeOK, NextCounterExact, NextSignals, NextExit, NextCounts
     DEF IInv
<1> QED BY <1>1, InitIInv, PTL DEF Spec

(* Every variable of the program keeps its type. *)
THEOREM TypeCorrect == Spec => []TypeOK
  BY Invariance, PTL DEF IInv

(* numLiveChildren is always the number of children not yet reaped. *)
THEOREM CounterIsExact == Spec => []CounterExact
  BY Invariance, PTL DEF IInv

(* No child's end is lost between the test of numLiveChildren and          *)
(* sigsuspend(), or behind another child's pending SIGCHLD.                *)
THEOREM NoWakeupIsLost == Spec => []NoLostWakeup
  BY Invariance, PTL DEF IInv

(* The handler never interrupts anything but sigsuspend(). *)
THEOREM HandlerIsConfined == Spec => []HandlerOnlyInSigsuspend
  BY Invariance, PTL DEF IInv

(* The printed number of signals is the number of runs of the handler. *)
THEOREM ReportIsExact == Spec => []ReportExact
<1>1. IInv => ReportExact
  <2> SUFFICES ASSUME IInv, pc = "exited" PROVE ReportExact
    BY DEF ReportExact
  <2>1. \E c \in Children : child[c] = "reaped"
    BY ChildrenAssumption DEF IInv, ExitInv, Unreaped
  <2> QED
    BY <2>1 DEF IInv, TypeOK, CountedInv, ConsumedInv, ReaperInv, ReportExact
<1> QED BY <1>1, Invariance, PTL

(* Every step is a step of CollectAll or leaves its state alone: a child   *)
(* is collected once and only after its end, and the successful exit comes *)
(* after the last one.                                                     *)
THEOREM ImplementsCollectAll == Spec => Abstract!SafeSpec
<1> DEFINE Ended == {c \in Children : child[c] \in {"zombie", "reaped"}}
           Collected == {c \in Children : child[c] = "reaped"}
<1>1. Init => Abstract!Init
  BY DEF Init, Abstract!Init, Outcome
<1>2. IInv /\ [Next]_vars => [Abstract!Next]_(Abstract!vars)
  <2> SUFFICES ASSUME IInv, [Next]_vars
               PROVE  Abstract!Next \/ UNCHANGED Abstract!vars
    OBVIOUS
  <2> USE DEF Abstract!vars, IInv, TypeOK, Outcome, MainPc, HandlerPc,
              ChildState
  <2>1. CASE Setup \/ Block \/ Suspend \/ Woken \/ Deliver
             \/ HandlerNoMore \/ HandlerReturn
    BY <2>1 DEF Setup, Block, Suspend, Woken, Deliver, Deliverable,
                HandlerNoMore, HandlerReturn, HandlerOnlyInSigsuspend, MaskInv
  <2>2. ASSUME NEW c \in Children, Fork(c) PROVE UNCHANGED Abstract!vars
    BY <2>2 DEF Fork
  <2>3. CASE ForkFails
    BY <2>3 DEF ForkFails, Abstract!Next, Abstract!GiveUp
  <2>4. CASE Check
    <3>1. CASE pc' = "exited"
      <4>1. Collected = Children
        BY <2>4, <3>1, UnreapedFinite DEF Check, CounterExact, Unreaped
      <4> QED BY <2>4, <3>1, <4>1 DEF Check, Abstract!Next, Abstract!Finish
    <3>2. CASE pc' = "suspend"
      BY <2>4, <3>2 DEF Check
    <3> QED BY <2>4, <3>1, <3>2 DEF Check
  <2>5. ASSUME NEW c \in Children, HandlerReap(c) PROVE Abstract!Collect(c)
    BY <2>5 DEF HandlerReap, Abstract!Collect
  <2>6. ASSUME NEW c \in Children, ChildExit(c) PROVE Abstract!End(c)
    BY <2>6 DEF ChildExit, Abstract!End
  <2>7. ASSUME NEW c \in Children, ChildStop(c) \/ ChildContinue(c)
        PROVE  UNCHANGED Abstract!vars
    BY <2>7 DEF ChildStop, ChildContinue
  <2>8. CASE UNCHANGED vars
    BY <2>8 DEF vars
  <2> QED
    BY <2>1, <2>2, <2>3, <2>4, <2>5, <2>6, <2>7, <2>8
       DEF Next, MainStep, HandlerStep, ChildStep, Terminated, Abstract!Next
<1> QED BY <1>1, <1>2, Invariance, PTL DEF Spec, Abstract!SafeSpec
=============================================================================
