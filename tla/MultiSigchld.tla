---------------------------- MODULE MultiSigchld ----------------------------
(***************************************************************************)
(* chapter26/multi_SIGCHLD.c: a parent creates one child per command-line  *)
(* argument and reaps them from a SIGCHLD handler.  Standard signals do    *)
(* not queue, so several children may end behind one SIGCHLD; the handler  *)
(* loops over waitpid(-1, WNOHANG) to collect all of them, and SIGCHLD is  *)
(* blocked except inside sigsuspend() and while no child exists.           *)
(*                                                                         *)
(* The handler can interrupt the main program between any two of its       *)
(* steps: pc is where the process executes and intr the place it will      *)
(* return to when it executes the handler.  Output is left out.            *)
(***************************************************************************)
EXTENDS Naturals, FiniteSets

CONSTANTS Children,   \* one per command-line argument (argc >= 2)
          MaxSignals  \* bound: children are stopped by job control only while
                      \* fewer than MaxSignals SIGCHLDs have been generated

ASSUME ChildrenAssumption == IsFiniteSet(Children) /\ Children # {}
ASSUME MaxSignalsAssumption == MaxSignals \in Nat

VARIABLES pc,                \* program counter of the parent
          intr,              \* interrupted pc while the handler runs
          mask,              \* the parent's signal mask
          pending,           \* its pending signals (a set: no queue)
          child,             \* state of each child process
          numLiveChildren,   \* the program's counter
          sigCnt,            \* the program's counter of sigsuspend returns
          caught,            \* history: number of runs of the handler
          raised             \* history: number of SIGCHLDs generated

vars == <<pc, intr, mask, pending, child, numLiveChildren, sigCnt,
          caught, raised>>

Signals == {"SIGCHLD"}

MainPc == {"init", "block", "fork", "check", "suspend", "suspended", "woken"}
HandlerPc == {"reap", "sleep"}

ChildState == {"unborn", "running", "stopped", "zombie", "reaped"}

Alive(c) == child[c] \in {"running", "stopped"}
Unreaped == {c \in Children : child[c] # "reaped"}

Init ==
    /\ pc = "init" /\ intr = "init"
    /\ mask = {} /\ pending = {}
    /\ child = [c \in Children |-> "unborn"]
    /\ numLiveChildren = 0
    /\ sigCnt = 0 /\ caught = 0 /\ raised = 0

-----------------------------------------------------------------------------
(* The main program *)

(* sigCnt and numLiveChildren get their values, the handler is installed. *)
Setup ==
    /\ pc = "init"
    /\ pc' = "block"
    /\ sigCnt' = 0
    /\ numLiveChildren' = Cardinality(Children)
    /\ UNCHANGED <<intr, mask, pending, child, caught, raised>>

(* Mutant: the signal is left unblocked. *)
BlockForgotten ==
    /\ pc = "block"
    /\ pc' = "fork"
    /\ UNCHANGED <<intr, mask, pending, child, numLiveChildren, sigCnt,
                   caught, raised>>

Block ==
    /\ pc = "block"
    /\ pc' = "fork"
    /\ mask' = mask \cup {"SIGCHLD"}
    /\ UNCHANGED <<intr, pending, child, numLiveChildren, sigCnt, caught,
                   raised>>

(* fork() succeeds; after the last argument the loop is left. *)
Fork(c) ==
    /\ pc = "fork"
    /\ child[c] = "unborn"
    /\ child' = [child EXCEPT ![c] = "running"]
    /\ pc' = IF \E d \in Children \ {c} : child[d] = "unborn"
             THEN "fork" ELSE "check"
    /\ UNCHANGED <<intr, mask, pending, numLiveChildren, sigCnt, caught,
                   raised>>

(* fork() fails: errExit leaves the children created so far behind. *)
ForkFails ==
    /\ pc = "fork"
    /\ pc' = "failed"
    /\ UNCHANGED <<intr, mask, pending, child, numLiveChildren, sigCnt,
                   caught, raised>>

(* The test of the while loop. *)
Check ==
    /\ pc = "check"
    /\ pc' = IF numLiveChildren > 0 THEN "suspend" ELSE "exited"
    /\ UNCHANGED <<intr, mask, pending, child, numLiveChildren, sigCnt,
                   caught, raised>>

(* The call of sigsuspend(&emptyMask). *)
Suspend ==
    /\ pc = "suspend"
    /\ pc' = "suspended"
    /\ UNCHANGED <<intr, mask, pending, child, numLiveChildren, sigCnt,
                   caught, raised>>

(* sigsuspend() has returned -1 with EINTR. *)
Woken ==
    /\ pc = "woken"
    /\ pc' = "check"
    /\ sigCnt' = sigCnt + 1
    /\ UNCHANGED <<intr, mask, pending, child, numLiveChildren, caught,
                   raised>>

-----------------------------------------------------------------------------
(* The SIGCHLD handler *)

(* SIGCHLD is blocked while the handler runs, as SA_NODEFER is not set;    *)
(* sigsuspend() waits with an empty mask whatever the program's own is.    *)
Deliverable ==
    /\ "SIGCHLD" \in pending
    /\ \/ pc = "suspended"
       \/ pc \in MainPc /\ "SIGCHLD" \notin mask

Deliver ==
    /\ Deliverable
    /\ pending' = pending \ {"SIGCHLD"}
    /\ intr' = pc
    /\ pc' = "reap"
    /\ caught' = caught + 1
    /\ UNCHANGED <<mask, child, numLiveChildren, sigCnt, raised>>

(* Mutant: "if" in place of "while", one child per signal. *)
HandlerReapOne(c) ==
    /\ pc = "reap"
    /\ child[c] = "zombie"
    /\ child' = [child EXCEPT ![c] = "reaped"]
    /\ numLiveChildren' = numLiveChildren - 1
    /\ pc' = "sleep"
    /\ UNCHANGED <<intr, mask, pending, sigCnt, caught, raised>>

(* Mutant: WUNTRACED is given too, so a stopped child is counted as dead. *)
HandlerReapUntraced(c) ==
    /\ pc = "reap"
    /\ child[c] \in {"zombie", "stopped"}
    /\ child' = [child EXCEPT ![c] = IF @ = "zombie" THEN "reaped" ELSE @]
    /\ numLiveChildren' = numLiveChildren - 1
    /\ UNCHANGED <<pc, intr, mask, pending, sigCnt, caught, raised>>

(* waitpid(-1, &status, WNOHANG) > 0: the loop goes on. *)
HandlerReap(c) ==
    /\ pc = "reap"
    /\ child[c] = "zombie"
    /\ child' = [child EXCEPT ![c] = "reaped"]
    /\ numLiveChildren' = numLiveChildren - 1
    /\ UNCHANGED <<pc, intr, mask, pending, sigCnt, caught, raised>>

(* waitpid() gives 0, or -1 with ECHILD: no child is waiting to be reaped. *)
HandlerNoMore ==
    /\ pc = "reap"
    /\ \A c \in Children : child[c] # "zombie"
    /\ pc' = "sleep"
    /\ UNCHANGED <<intr, mask, pending, child, numLiveChildren, sigCnt,
                   caught, raised>>

(* The end of sleep(5) and the return, which restores the old mask: an     *)
(* interrupted sigsuspend() returns, any other code goes on where it was.  *)
HandlerReturn ==
    /\ pc = "sleep"
    /\ pc' = IF intr = "suspended" THEN "woken" ELSE intr
    /\ UNCHANGED <<intr, mask, pending, child, numLiveChildren, sigCnt,
                   caught, raised>>

-----------------------------------------------------------------------------
(* The children; the kernel raises SIGCHLD for an exit and, as             *)
(* SA_NOCLDSTOP is not set, also for a stop and a continue.                *)

Raise == pending' = pending \cup {"SIGCHLD"} /\ raised' = raised + 1

ChildExit(c) ==
    /\ child[c] = "running"
    /\ child' = [child EXCEPT ![c] = "zombie"]
    /\ Raise
    /\ UNCHANGED <<pc, intr, mask, numLiveChildren, sigCnt, caught>>

ChildStop(c) ==
    /\ child[c] = "running"
    /\ raised < MaxSignals
    /\ child' = [child EXCEPT ![c] = "stopped"]
    /\ Raise
    /\ UNCHANGED <<pc, intr, mask, numLiveChildren, sigCnt, caught>>

ChildContinue(c) ==
    /\ child[c] = "stopped"
    /\ child' = [child EXCEPT ![c] = "running"]
    /\ Raise
    /\ UNCHANGED <<pc, intr, mask, numLiveChildren, sigCnt, caught>>

-----------------------------------------------------------------------------
(* The parent is gone and no child runs any more. *)
Terminated ==
    /\ pc \in {"exited", "failed"}
    /\ \A c \in Children : ~Alive(c)
    /\ UNCHANGED vars

MainStep == Setup \/ Block \/ ForkFails \/ Check \/ Suspend \/ Woken
            \/ \E c \in Children : Fork(c)

HandlerStep == Deliver \/ HandlerNoMore \/ HandlerReturn
               \/ \E c \in Children : HandlerReap(c)

ChildStep(c) == ChildExit(c) \/ ChildStop(c) \/ ChildContinue(c)

Next ==
    \/ MainStep
    \/ HandlerStep
    \/ \E c \in Children : ChildStep(c)
    \/ Terminated

(* The parent's code and the handler run when they can.  Nothing is        *)
(* assumed of the children: one may sleep for ever or stay stopped.        *)
Fairness == WF_vars(MainStep) /\ WF_vars(HandlerStep)

Spec == Init /\ [][Next]_vars /\ Fairness

-----------------------------------------------------------------------------
(* Properties *)

TypeOK ==
    /\ pc \in MainPc \cup HandlerPc \cup {"exited", "failed"}
    /\ intr \in MainPc
    /\ mask \subseteq Signals
    /\ pending \subseteq Signals
    /\ child \in [Children -> ChildState]
    /\ numLiveChildren \in Nat
    /\ sigCnt \in Nat
    /\ caught \in Nat
    /\ raised \in Nat

(* numLiveChildren, decremented in the handler only, is at every step the  *)
(* number of children whose status has not been collected (multi_SIGCHLD.c *)
(* lines 8, 26, 57).  It cannot run ahead of the children or go negative.  *)
CounterExact ==
    pc # "init" => numLiveChildren = Cardinality(Unreaped)

(* No lost wakeup: a child that has ended is either about to be collected  *)
(* by a running handler or has left its SIGCHLD pending, although the one  *)
(* pending bit may stand for several children (lines 20-27 and 97-102).    *)
NoLostWakeup ==
    \A c \in Children :
        child[c] = "zombie" =>
            "SIGCHLD" \in pending \/ pc \in {"reap", "failed"}

(* The handler never runs between the program's steps: it only ever        *)
(* interrupts sigsuspend(), which is what the mask is for (lines 72-75).   *)
HandlerOnlyInSigsuspend == pc \in HandlerPc => intr = "suspended"

(* The count the program reports on exit is the number of runs of the      *)
(* handler, none counted twice or missed, and each of those runs used up a *)
(* SIGCHLD of its own (lines 104-109).                                     *)
ReportExact ==
    pc = "exited" => /\ sigCnt = caught
                     /\ 1 <= caught /\ caught <= raised

(* The program collects every child, and only children that have ended,    *)
(* before it exits successfully, and collects each child that ends.        *)
Outcome == IF pc \in {"exited", "failed"} THEN pc ELSE "running"

Abstract == INSTANCE CollectAll WITH
    Workers <- Children,
    ended <- {c \in Children : child[c] \in {"zombie", "reaped"}},
    collected <- {c \in Children : child[c] = "reaped"},
    outcome <- Outcome

CollectsAll == Abstract!Spec
=============================================================================
