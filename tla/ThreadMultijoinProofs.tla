------------------------ MODULE ThreadMultijoinProofs ------------------------
(***************************************************************************)
(* Proofs about ThreadMultijoin for every number of threads, for the       *)
(* program that passes the address of idx as well as the one that passes   *)
(* its value.                                                              *)
(***************************************************************************)
EXTENDS ThreadMultijoin, FiniteSetTheorems, TLAPS

Creating == {"for", "create", "created"}

(* Mutual exclusion: who is inside a critical section holds the mutex. *)
HolderInv ==
    /\ mpc \in {"check", "scan", "join", "unlock"} => mutex = Main
    /\ \A t \in Threads : tpc[t] \in {"update", "unlock"} => mutex = t

(* The loop that creates the threads has not passed idx. *)
CreateInv ==
    /\ mpc \in {"create", "created"} => idx < N
    /\ mpc \in {"for", "create"} =>
           \A t \in Threads : t >= idx => tpc[t] = "unborn"
    /\ mpc = "created" => \A t \in Threads : t > idx => tpc[t] = "unborn"

(* What main knows of the array and of its counters, in both programs. *)
MainInv ==
    /\ mpc \in Creating \cup {"counts"} => totThreads = 0
    /\ mpc \notin Creating \cup {"counts", "failed"} => totThreads = N
    /\ totThreads = 0 => joined = {}
    /\ totThreads = N => numLive = N - Cardinality(joined)
    /\ mpc = "join" => idx < N /\ state[idx] = "TS_TERMINATED"
    /\ \A t \in joined : tpc[t] = "done"
    /\ mpc = "exited" => joined = Threads
    /\ numUnjoined >= Cardinality(InState("TS_TERMINATED"))

(* With the index passed by value slot t is thread t's own. *)
SlotInv ==
    arg = "value" =>
        /\ numUnjoined = Cardinality(InState("TS_TERMINATED"))
        /\ \A t \in Threads :
               /\ tpc[t] \notin {"unborn", "start"} => tidx[t] = t
               /\ tpc[t] \in {"unborn", "start", "lock", "update"} =>
                      state[t] = "TS_ALIVE"
               /\ state[t] = "TS_JOINED" <=> t \in joined

IInv ==
    /\ TypeOK
    /\ HolderInv
    /\ CreateInv
    /\ MainInv
    /\ SlotInv
    /\ SignalStillToCome

(* Sets of threads are finite, and N of them are all of them. *)
LEMMA ThreadSets ==
  ASSUME NEW S, S \subseteq Threads
  PROVE  /\ IsFiniteSet(S)
         /\ Cardinality(S) \in Nat
         /\ Cardinality(S) <= N
         /\ Cardinality(S) = N => S = Threads
<1>1. IsFiniteSet(Threads) /\ Cardinality(Threads) = N
  BY FS_Interval, NAssumption DEF Threads
<1> QED BY <1>1, FS_Subset, FS_CardinalityType

(* Setting the state of slot i away from or to TS_TERMINATED removes i     *)
(* from, or adds it to, the terminated slots.                              *)
LEMMA SetState ==
  ASSUME TypeOK, NEW i \in Threads, NEW s \in TState,
         state' = [state EXCEPT ![i] = s]
  PROVE  LET T == InState("TS_TERMINATED")
         IN  /\ s # "TS_TERMINATED" => T' = T \ {i}
             /\ s = "TS_TERMINATED" => T' = T \cup {i}
  BY DEF TypeOK, InState, TState

(* What that does to their number. *)
LEMMA CountAfter ==
  ASSUME TypeOK, NEW i \in Threads, NEW s \in TState,
         state' = [state EXCEPT ![i] = s]
  PROVE  LET T == InState("TS_TERMINATED")
         IN  /\ Cardinality(T) \in Nat /\ Cardinality(T') \in Nat
             /\ s # "TS_TERMINATED" =>
                    Cardinality(T') = IF state[i] = "TS_TERMINATED"
                                      THEN Cardinality(T) - 1
                                      ELSE Cardinality(T)
             /\ s = "TS_TERMINATED" =>
                    Cardinality(T') = IF state[i] = "TS_TERMINATED"
                                      THEN Cardinality(T)
                                      ELSE Cardinality(T) + 1
<1> DEFINE T == InState("TS_TERMINATED")
<1>1. T \subseteq Threads /\ T' \subseteq Threads
  BY DEF InState
<1>2. /\ IsFiniteSet(T) /\ Cardinality(T) \in Nat
      /\ IsFiniteSet(T') /\ Cardinality(T') \in Nat
  BY <1>1, ThreadSets
<1>3. state[i] = "TS_TERMINATED" <=> i \in T
  BY DEF InState
<1>4. CASE s # "TS_TERMINATED"
  <2>1. T' = T \ {i}
    BY <1>4, SetState
  <2>2. Cardinality(T') = IF i \in T THEN Cardinality(T) - 1
                                     ELSE Cardinality(T)
    BY <2>1, <1>2, FS_RemoveElement
  <2> QED BY <1>2, <1>3, <1>4, <2>2
<1>5. CASE s = "TS_TERMINATED"
  <2>1. T' = T \cup {i}
    BY <1>5, SetState
  <2>2. Cardinality(T') = IF i \in T THEN Cardinality(T)
                                     ELSE Cardinality(T) + 1
    BY <2>1, <1>2, FS_AddElement
  <2> QED BY <1>2, <1>3, <1>5, <2>2
<1> QED BY <1>4, <1>5

(* The initial states satisfy the inductive invariant. *)
LEMMA InitIInv == Init => IInv
<1> SUFFICES ASSUME Init PROVE IInv
  OBVIOUS
<1>1. InState("TS_TERMINATED") = {}
  BY DEF Init, InState
<1>2. Cardinality(InState("TS_TERMINATED")) = 0
  BY <1>1, FS_EmptySet
<1> QED
  BY <1>2, NAssumption, ArgsAssumption
     DEF Init, IInv, TypeOK, HolderInv, CreateInv, MainInv, SlotInv,
         SignalStillToCome, Threads, Main, Free, Creating, MainPc, ThreadPc,
         TState

(* A step of main that touches neither the array nor the threads. *)
LEMMA QuietMainSteps ==
  ASSUME IInv, Advance \/ Counts \/ Test \/ Lock \/ Check \/ SpuriousWakeup
               \/ Scan \/ Unlock \/ JoinAgain \/ CreateFails
  PROVE  IInv'
<1> USE NAssumption DEF IInv, Threads, Main, Free
<1>1. /\ UNCHANGED <<arg, state, numUnjoined, tpc, tidx, joined>>
      /\ InState("TS_TERMINATED")' = InState("TS_TERMINATED")
  BY DEF Advance, Counts, Test, Lock, Check, SpuriousWakeup, Scan, Unlock,
         JoinAgain, CreateFails, InState
<1>2. TypeOK'
  <2> USE <1>1 DEF TypeOK, MainPc
  <2>1. CASE Advance \/ Counts
    BY <2>1 DEF Advance, Counts, CreateInv
  <2>2. CASE Test \/ Lock \/ Unlock
    BY <2>2 DEF Test, Lock, Unlock
  <2>3. CASE Check \/ SpuriousWakeup
    BY <2>3 DEF Check, SpuriousWakeup
  <2>4. CASE Scan
    BY <2>4 DEF Scan, MainInv, Creating
  <2>5. CASE JoinAgain \/ CreateFails
    BY <2>5 DEF JoinAgain, CreateFails
  <2> QED BY <2>1, <2>2, <2>3, <2>4, <2>5
<1>3. HolderInv'
  BY <1>1 DEF TypeOK, HolderInv, Advance, Counts, Test, Lock, Check,
         SpuriousWakeup, Scan, Unlock, JoinAgain, CreateFails
<1>4. CreateInv'
  BY <1>1 DEF TypeOK, CreateInv, Advance, Counts, Test, Lock, Check,
         SpuriousWakeup, Scan, Unlock, JoinAgain, CreateFails
<1>5. MainInv'
  <2>1. CASE Advance \/ Counts
    <3>1. joined = {} /\ Cardinality(joined) = 0
      BY <2>1, FS_EmptySet DEF MainInv, Advance, Counts, Creating
    <3> QED BY <1>1, <2>1, <3>1 DEF MainInv, Advance, Counts, Creating
  <2>2. CASE Test
    <3>1. CASE numLive > 0
      BY <1>1, <2>2, <3>1 DEF MainInv, Test, Creating
    <3>2. CASE numLive = 0
      <4>1. 0 = N - Cardinality(joined)
        BY <2>2, <3>2 DEF MainInv, Test, Creating
      <4>2. Cardinality(joined) \in Nat /\ joined \subseteq Threads
        BY ThreadSets DEF TypeOK
      <4>3. Cardinality(joined) = N
        BY <4>1, <4>2
      <4>4. joined = Threads
        BY <4>2, <4>3, ThreadSets
      <4> QED BY <1>1, <2>2, <4>4 DEF MainInv, Test, Creating
    <3> QED BY <3>1, <3>2 DEF TypeOK
  <2>3. CASE Lock \/ Check \/ SpuriousWakeup \/ Scan \/ Unlock \/ JoinAgain
             \/ CreateFails
    BY <1>1, <2>3
       DEF TypeOK, MainInv, Lock, Check, SpuriousWakeup, Scan, Unlock,
           JoinAgain, CreateFails, Creating
  <2> QED BY <2>1, <2>2, <2>3
<1>6. SlotInv'
  BY <1>1 DEF SlotInv
<1>7. SignalStillToCome'
  BY <1>1 DEF TypeOK, SignalStillToCome, Advance, Counts, Test, Lock, Check,
         SpuriousWakeup, Scan, Unlock, JoinAgain, CreateFails
<1> QED BY <1>2, <1>3, <1>4, <1>5, <1>6, <1>7

(* The steps of the loop that creates the threads. *)
LEMMA CreateSteps == ASSUME IInv, For \/ Create PROVE IInv'
<1> USE NAssumption DEF IInv, Threads, Main, Free
<1>1. CASE Create
  <2>1. InState("TS_TERMINATED")' = InState("TS_TERMINATED")
    BY <1>1 DEF Create, InState
  <2>2. idx \in Threads /\ tpc[idx] = "unborn"
    BY <1>1 DEF Create, TypeOK, CreateInv
  <2>3. TypeOK' /\ HolderInv' /\ CreateInv' /\ SignalStillToCome'
    BY <1>1, <2>2 DEF Create, TypeOK, HolderInv, CreateInv,
       SignalStillToCome, MainPc, ThreadPc
  <2>4. MainInv' /\ SlotInv'
    BY <1>1, <2>1, <2>2 DEF Create, TypeOK, MainInv, SlotInv, Creating
  <2> QED BY <2>3, <2>4
<1>2. CASE For /\ idx < N
  <2>1. idx \in Threads /\ tpc[idx] = "unborn"
    BY <1>2 DEF For, TypeOK, CreateInv
  <2>2. state' = [state EXCEPT ![idx] = "TS_ALIVE"]
    BY <1>2 DEF For
  <2>3. TypeOK'
    BY <1>2, <2>1 DEF For, TypeOK, MainPc, TState
  <2>4. HolderInv' /\ CreateInv' /\ SignalStillToCome'
    BY <1>2 DEF For, TypeOK, HolderInv, CreateInv, SignalStillToCome
  <2>5. Cardinality(InState("TS_TERMINATED")')
          = IF state[idx] = "TS_TERMINATED"
            THEN Cardinality(InState("TS_TERMINATED")) - 1
            ELSE Cardinality(InState("TS_TERMINATED"))
    BY <2>1, <2>2, CountAfter DEF TState
  <2>6. Cardinality(InState("TS_TERMINATED")) \in Nat
    BY <2>1, <2>2, CountAfter DEF TState
  <2>7. MainInv'
    BY <1>2, <2>5, <2>6 DEF For, TypeOK, MainInv, Creating
  <2>8. SlotInv'
    BY <1>2, <2>1, <2>5 DEF For, TypeOK, SlotInv
  <2> QED BY <2>3, <2>4, <2>7, <2>8
<1>3. CASE For /\ ~(idx < N)
  <2>1. InState("TS_TERMINATED")' = InState("TS_TERMINATED")
    BY <1>3 DEF For, InState
  <2> QED
    BY <1>3, <2>1 DEF For, TypeOK, HolderInv, CreateInv, MainInv, SlotInv,
       SignalStillToCome, MainPc, Creating
<1> QED BY <1>1, <1>2, <1>3

(* pthread_join() and the updates that follow it. *)
LEMMA JoinStep == ASSUME IInv, Join PROVE IInv'
<1> USE NAssumption DEF IInv, Threads, Main, Free
<1> DEFINE T == InState("TS_TERMINATED")
<1>1. /\ idx \in Threads /\ idx < N /\ totThreads = N
      /\ state[idx] = "TS_TERMINATED"
  BY DEF Join, TypeOK, MainInv, Creating
<1>2. /\ Cardinality(T') = Cardinality(T) - 1
      /\ Cardinality(T) \in Nat /\ Cardinality(T') \in Nat
  BY <1>1, CountAfter DEF Join, TState
<1>3. Cardinality(joined') = Cardinality(joined) + 1
  BY ThreadSets, FS_AddElement DEF Join, TypeOK
<1>4. /\ Cardinality(joined) \in Nat /\ Cardinality(joined') <= N
      /\ joined' \subseteq Threads
  BY <1>1, ThreadSets DEF Join, TypeOK
<1>5. numLive' \in Nat /\ numUnjoined' \in Nat
  BY <1>1, <1>2, <1>3, <1>4 DEF Join, TypeOK, MainInv
<1>6. TypeOK'
  BY <1>1, <1>4, <1>5 DEF Join, TypeOK, MainPc, TState
<1>7. HolderInv' /\ CreateInv' /\ SignalStillToCome'
  BY DEF Join, TypeOK, HolderInv, CreateInv, SignalStillToCome
<1>8. MainInv'
  BY <1>1, <1>2, <1>3, <1>4 DEF Join, TypeOK, MainInv, Creating
<1>9. SlotInv'
  BY <1>1, <1>2 DEF Join, TypeOK, SlotInv
<1> QED BY <1>6, <1>7, <1>8, <1>9

(* The steps of threadFunc. *)
LEMMA ThreadSteps ==
  ASSUME IInv, NEW t \in Threads, ThreadStep(t)
  PROVE  IInv'
<1> USE NAssumption DEF IInv, Threads, Main, Free, mainVars
<1> DEFINE T == InState("TS_TERMINATED")
<1>a. ASSUME ThreadStart(t) \/ ThreadLock(t) \/ ThreadUnlock(t)
      PROVE  T' = T
  BY <1>a DEF ThreadStart, ThreadLock, ThreadUnlock, InState
<1>1. CASE ThreadStart(t)
  <2>1. TypeOK' /\ HolderInv' /\ CreateInv' /\ SignalStillToCome'
    BY <1>1 DEF ThreadStart, TypeOK, ThreadPc, HolderInv, CreateInv,
                SignalStillToCome
  <2>2. MainInv' /\ SlotInv'
    BY <1>1, <1>a DEF ThreadStart, TypeOK, MainInv, SlotInv
  <2> QED BY <2>1, <2>2
<1>4. CASE ThreadLock(t)
  <2>1. TypeOK' /\ CreateInv' /\ SignalStillToCome'
    BY <1>4 DEF ThreadLock, TypeOK, ThreadPc, CreateInv, SignalStillToCome
  <2>2. HolderInv'
    BY <1>4 DEF ThreadLock, TypeOK, HolderInv
  <2>3. MainInv' /\ SlotInv'
    BY <1>4, <1>a DEF ThreadLock, TypeOK, MainInv, SlotInv
  <2> QED BY <2>1, <2>2, <2>3
<1>5. CASE ThreadUnlock(t)
  <2>1. TypeOK' /\ CreateInv'
    BY <1>5 DEF ThreadUnlock, TypeOK, ThreadPc, CreateInv
  <2>2. HolderInv'
    BY <1>5 DEF ThreadUnlock, TypeOK, HolderInv
  <2>3. SignalStillToCome'
    BY <1>5 DEF ThreadUnlock, TypeOK, SignalStillToCome
  <2>4. MainInv' /\ SlotInv'
    BY <1>5, <1>a DEF ThreadUnlock, TypeOK, MainInv, SlotInv
  <2> QED BY <2>1, <2>2, <2>3, <2>4
<1>2. CASE ThreadUpdate(t)
  <2>1. TypeOK'
    BY <1>2 DEF ThreadUpdate, TypeOK, ThreadPc, TState
  <2>2. HolderInv' /\ CreateInv' /\ SignalStillToCome'
    BY <1>2 DEF ThreadUpdate, TypeOK, HolderInv, CreateInv, SignalStillToCome
  <2>3. CASE tidx[t] \in Threads
    <3>1. state' = [state EXCEPT ![tidx[t]] = "TS_TERMINATED"]
      BY <1>2, <2>3 DEF ThreadUpdate
    <3>2. /\ Cardinality(T) \in Nat
          /\ Cardinality(T') = IF state[tidx[t]] = "TS_TERMINATED"
                               THEN Cardinality(T) ELSE Cardinality(T) + 1
      BY <2>3, <3>1, CountAfter DEF TState
    <3>3. MainInv'
      BY <1>2, <3>1, <3>2 DEF ThreadUpdate, TypeOK, MainInv
    <3>4. SlotInv'
      BY <1>2, <3>1, <3>2 DEF ThreadUpdate, TypeOK, SlotInv, MainInv
    <3> QED BY <2>1, <2>2, <3>3, <3>4
  <2>4. CASE tidx[t] \notin Threads
    <3>1. state' = state /\ T' = T /\ Cardinality(T) \in Nat
      BY <1>2, <2>4, ThreadSets DEF ThreadUpdate, InState
    <3>2. arg # "value"
      BY <1>2, <2>4 DEF ThreadUpdate, SlotInv
    <3>3. MainInv'
      BY <1>2, <3>1 DEF ThreadUpdate, TypeOK, MainInv
    <3>4. SlotInv'
      BY <1>2, <3>2 DEF ThreadUpdate, SlotInv
    <3> QED BY <2>1, <2>2, <3>3, <3>4
  <2> QED BY <2>3, <2>4
<1>3. CASE ThreadSignal(t)
  <2>1. T' = T
    BY <1>3 DEF ThreadSignal, InState
  <2>2. TypeOK' /\ HolderInv' /\ CreateInv'
    BY <1>3 DEF ThreadSignal, TypeOK, HolderInv, CreateInv, ThreadPc, MainPc
  <2>3. SignalStillToCome'
    BY <1>3 DEF ThreadSignal, TypeOK, SignalStillToCome
  <2>4. MainInv' /\ SlotInv'
    BY <1>3, <2>1 DEF ThreadSignal, TypeOK, MainInv, SlotInv, Creating
  <2> QED BY <2>2, <2>3, <2>4
<1> QED BY <1>1, <1>2, <1>3, <1>4, <1>5 DEF ThreadStep

(* The inductive invariant holds of every behaviour of both programs. *)
THEOREM Invariance == Spec => []IInv
<1>1. IInv /\ [Next]_vars => IInv'
  <2> SUFFICES ASSUME IInv, [Next]_vars PROVE IInv'
    OBVIOUS
  <2>1. CASE UNCHANGED vars
    BY <2>1 DEF vars, IInv, TypeOK, HolderInv, CreateInv, MainInv, SlotInv,
                SignalStillToCome, InState
  <2> QED
    BY <2>1, QuietMainSteps, CreateSteps, JoinStep, ThreadSteps
       DEF Next, MainStep, Terminated
<1> QED BY <1>1, InitIInv, PTL DEF Spec

(* Every variable of the program keeps its type; in particular neither     *)
(* counter becomes negative, even when threads share an index.             *)
THEOREM TypeCorrect == Spec => []TypeOK
  BY Invariance, PTL DEF IInv

(* The counters agree with the array. *)
THEOREM CountersAreExact == Spec => []CountersExact
<1>1. IInv => CountersExact
  <2> SUFFICES ASSUME IInv, arg = "value" PROVE CountersExact
    BY DEF CountersExact
  <2>1. InState("TS_JOINED") = joined
    BY DEF IInv, SlotInv, TypeOK, InState
  <2> QED BY <2>1 DEF IInv, SlotInv, MainInv, CountersExact
<1> QED BY <1>1, Invariance, PTL

(* With the index passed by value main never blocks, mutex in hand, on a   *)
(* thread that needs the mutex.                                            *)
THEOREM JoinIsSafe == Spec => []JoinOnlyPastMutex
<1>1. IInv => JoinOnlyPastMutex
  <2> SUFFICES ASSUME IInv, arg = "value", mpc = "join"
               PROVE  tpc[idx] \in {"signal", "done"}
    BY DEF JoinOnlyPastMutex
  <2>1. /\ idx \in Threads /\ idx # Main /\ state[idx] = "TS_TERMINATED"
        /\ mutex = Main
    BY NAssumption DEF IInv, MainInv, HolderInv, TypeOK, Threads, Main
  <2>2. tpc[idx] \in ThreadPc
    BY <2>1 DEF IInv, TypeOK
  <2> QED BY <2>1, <2>2 DEF IInv, HolderInv, SlotInv, ThreadPc
<1> QED BY <1>1, Invariance, PTL

(* No wakeup is lost in either program. *)
THEOREM NoWakeupIsLost == Spec => []SignalStillToCome
  BY Invariance, PTL DEF IInv

(* Both programs join a thread once and after its end, and all of them     *)
(* before a successful exit: sharing an index costs progress, not safety.  *)
THEOREM ImplementsCollectAll == Spec => Abstract!SafeSpec
<1>1. Init => Abstract!Init
  BY DEF Init, Abstract!Init, Running
<1>2. IInv /\ [Next]_vars => [Abstract!Next]_(Abstract!vars)
  <2> SUFFICES ASSUME IInv, [Next]_vars
               PROVE  Abstract!Next \/ UNCHANGED Abstract!vars
    OBVIOUS
  <2> USE DEF Abstract!vars, IInv, TypeOK, Running
  <2>1. CASE For \/ Advance \/ Counts \/ Lock \/ Check \/ Scan \/ Unlock
             \/ SpuriousWakeup
    BY <2>1 DEF For, Advance, Counts, Lock, Check, Scan, Unlock,
                SpuriousWakeup
  <2>2. CASE Create
    <3>1. tpc[idx] = "unborn" /\ idx \in Threads
      BY <2>2, NAssumption DEF Create, CreateInv, Threads
    <3> QED BY <2>2, <3>1 DEF Create
  <2>3. CASE CreateFails \/ JoinAgain
    BY <2>3 DEF CreateFails, JoinAgain, Abstract!Next, Abstract!GiveUp
  <2>4. CASE Test
    <3>1. CASE numLive > 0
      BY <2>4, <3>1 DEF Test
    <3>2. CASE ~(numLive > 0)
      <4>1. IInv'
        BY <2>4, QuietMainSteps
      <4>2. joined = Threads
        BY <2>4, <3>2, <4>1 DEF Test, MainInv
      <4> QED BY <2>4, <3>2, <4>2 DEF Test, Abstract!Next, Abstract!Finish
    <3> QED BY <3>1, <3>2
  <2>5. CASE Join
    <3>1. Abstract!Collect(idx) /\ idx \in Threads
      BY <2>5, NAssumption DEF Join, MainInv, Threads, Abstract!Collect
    <3> QED BY <3>1 DEF Abstract!Next
  <2>6. ASSUME NEW t \in Threads,
               ThreadStart(t) \/ ThreadLock(t) \/ ThreadUpdate(t)
                 \/ ThreadUnlock(t)
        PROVE  UNCHANGED Abstract!vars
    BY <2>6 DEF ThreadStart, ThreadLock, ThreadUpdate, ThreadUnlock, mainVars
  <2>7. ASSUME NEW t \in Threads, ThreadSignal(t) PROVE Abstract!End(t)
    BY <2>7 DEF ThreadSignal, Abstract!End
  <2>8. CASE UNCHANGED vars
    BY <2>8 DEF vars
  <2> QED
    BY <2>1, <2>2, <2>3, <2>4, <2>5, <2>6, <2>7, <2>8
       DEF Next, MainStep, ThreadStep, Terminated, Abstract!Next
<1> QED BY <1>1, <1>2, Invariance, PTL DEF Spec, Abstract!SafeSpec
=============================================================================
