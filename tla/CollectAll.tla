----------------------------- MODULE CollectAll -----------------------------
(***************************************************************************)
(* What a parent promises that starts a set of workers (child processes or *)
(* threads) and waits for all of them: it collects (waitpid, pthread_join) *)
(* a worker only after the worker has ended, each one once, it finishes    *)
(* successfully only when every worker is collected, and a worker that has *)
(* ended is eventually collected unless the parent gives up.  The          *)
(* specifications of chapter26/multi_SIGCHLD.c and                         *)
(* chapter30/thread_multijoin.c are shown to implement this one.           *)
(***************************************************************************)
CONSTANT Workers

VARIABLES ended,      \* the workers that have run to their end
          collected,  \* the workers whose end the parent has collected
          outcome     \* "running", then "exited" (success) or "failed"

vars == <<ended, collected, outcome>>

TypeOK ==
    /\ ended \subseteq Workers
    /\ collected \subseteq Workers
    /\ outcome \in {"running", "exited", "failed"}

Init == ended = {} /\ collected = {} /\ outcome = "running"

(* A worker ends on its own account, whatever the parent is doing. *)
End(w) ==
    /\ w \notin ended
    /\ ended' = ended \cup {w}
    /\ UNCHANGED <<collected, outcome>>

Collect(w) ==
    /\ outcome = "running"
    /\ w \in ended \ collected
    /\ collected' = collected \cup {w}
    /\ UNCHANGED <<ended, outcome>>

Finish ==
    /\ outcome = "running"
    /\ collected = Workers
    /\ outcome' = "exited"
    /\ UNCHANGED <<ended, collected>>

(* An error exit (errExit) on a failed fork() or pthread_create(). *)
GiveUp ==
    /\ outcome = "running"
    /\ outcome' = "failed"
    /\ UNCHANGED <<ended, collected>>

Next == Finish \/ GiveUp \/ \E w \in Workers : End(w) \/ Collect(w)

SafeSpec == Init /\ [][Next]_vars

Fairness == WF_vars(Finish) /\ \A w \in Workers : WF_vars(Collect(w))

Spec == SafeSpec /\ Fairness
=============================================================================
