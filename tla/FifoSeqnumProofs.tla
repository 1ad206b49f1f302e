-------------------------- MODULE FifoSeqnumProofs --------------------------
(***************************************************************************)
(* Proofs about FifoSeqnum for any set of clients, lengths and size of     *)
(* int, and any number of killed clients and restarts of the server.       *)
(***************************************************************************)
EXTENDS FifoSeqnum, SequenceTheorems, TLAPS

(* The request each client sends. *)
OwnRequests == {[pid |-> c, len |-> len[c]] : c \in Clients}

(* Requests are not mixed up on their way to the server. *)
RequestInv ==
    /\ \A i \in 1 .. Len(queue) : queue[i] \in OwnRequests
    /\ srv \in {"open", "opening", "write", "update"} => req \in OwnRequests

(* A value sent to c is the start of a sequence granted to c. *)
GrantedTo(c, x) ==
    \E g \in granted : g.pid = c /\ g.len = len[c] /\ g.start = x

ResponseInv ==
    \A c \in Clients :
        /\ \A i \in 1 .. Len(resp[c]) : GrantedTo(c, resp[c][i])
        /\ got[c] # <<>> => \E x \in Ints : got[c] = <<x>> /\ GrantedTo(c, x)

(* The int that n steps of one, starting from zero, lead to. *)
AsInt(n) == IF n <= INT_MAX THEN n ELSE n - 2 * (INT_MAX + 1)
Capacity == 2 * (INT_MAX + 1)

(* The number of ints before the next sequence. *)
Before == handed - (IF srv = "update" THEN req.len ELSE 0)

Mine == {g \in granted : g.epoch = epoch}

CounterInv ==
    SeqLens \subseteq Nat =>
        /\ handed >= 0
        /\ srv # "down" => /\ Before >= 0
                           /\ Before <= Capacity => seqNum = AsInt(Before)
        /\ \A g \in granted : g.epoch <= epoch
        /\ \A g \in Mine :
               /\ g.first >= 0 /\ g.len >= 0 /\ g.first + g.len <= handed
               /\ handed <= Capacity => g.start = AsInt(g.first)
        /\ \A g, h \in Mine :
               g # h => \/ g.first + g.len <= h.first
                        \/ h.first + h.len <= g.first

LenInv == len \in [Clients -> SeqLens]

(* A server that serves requests ignores SIGPIPE, in each of its runs. *)
SigpipeInv ==
    /\ srv \in {"read", "open", "opening", "write", "update"} =>
           sigpipe = "ignored"
    /\ ended # "SIGPIPE"

IInv ==
    TypeOK /\ LenInv /\ SigpipeInv /\ RequestInv /\ ResponseInv /\ CounterInv

-----------------------------------------------------------------------------
(* Adding ints gives an int. *)
LEMMA IntAddType ==
  ASSUME NEW a \in Ints, NEW b \in Ints PROVE IntAdd(a, b) \in Ints
  BY IntAssumption DEF Ints, IntAdd

(* Counting on from the int that n steps of one led to. *)
LEMMA CountOn ==
  ASSUME NEW n \in Nat, NEW i \in Nat, i <= INT_MAX, n + i <= Capacity
  PROVE  IntAdd(AsInt(n), i) = AsInt(n + i)
  BY IntAssumption DEF AsInt, IntAdd, Capacity

(* The initial states satisfy the inductive invariant. *)
LEMMA InitIInv == Init => IInv
<1> SUFFICES ASSUME Init PROVE IInv
  OBVIOUS
<1>1. TypeOK
  <2>1. SeqLens \subseteq Ints /\ 0 \in Ints
    BY IntAssumption DEF Ints
  <2>2. len \in [Clients -> Ints] /\ seqNum \in Ints
    BY <2>1 DEF Init
  <2> QED BY <2>2 DEF Init, TypeOK, ClientPc
<1>2. LenInv /\ SigpipeInv /\ RequestInv /\ ResponseInv
  BY DEF Init, LenInv, SigpipeInv, RequestInv, ResponseInv
<1>3. CounterInv
  BY DEF Init, CounterInv, Mine
<1> QED BY <1>1, <1>2, <1>3 DEF IInv

-----------------------------------------------------------------------------
(* Every step of every process keeps the types. *)
LEMMA NextTypeOK == IInv /\ [Next]_vars => TypeOK' /\ LenInv'
<1> SUFFICES ASSUME IInv, [Next]_vars PROVE TypeOK' /\ LenInv'
  OBVIOUS
<1> DEFINE Goal == TypeOK' /\ LenInv'
<1> USE DEF IInv, TypeOK, LenInv, serverVars, clientVars, ClientPc
<1>1. CASE ServerStart
  BY <1>1, IntAssumption DEF ServerStart, Ints
<1>2. CASE ServerRead
  <2>1. Head(queue) \in Request /\ Tail(queue) \in Seq(Request)
    BY <1>2 DEF ServerRead
  <2> QED BY <1>2, <2>1 DEF ServerRead
<1>3. CASE ServerOpen
  BY <1>3 DEF ServerOpen
<1>4. CASE ServerWrite
  <2>1. req \in Request
    BY <1>4, IntAssumption DEF ServerWrite, RequestInv, OwnRequests, Request,
       Ints
  <2>2. resp' \in [Clients -> Seq(Ints)]
    <3>1. req.pid \in Clients /\ Append(resp[req.pid], seqNum) \in Seq(Ints)
      BY <2>1, AppendProperties DEF Request
    <3> QED BY <1>4, <3>1 DEF ServerWrite
  <2>3. handed' \in Int
    BY <1>4, <2>1 DEF ServerWrite, Request, Ints
  <2>4. granted' \subseteq [epoch : Nat, pid : Clients, first : Int,
                            start : Ints, len : Ints]
    BY <1>4, <2>1 DEF ServerWrite, Request
  <2>5. queue' \in Seq(Request)
    <3>1. queue' = queue \/ queue' = <<>>
      BY <1>4 DEF ServerWrite, ServerEnds
    <3>2. queue \in Seq(Request) /\ <<>> \in Seq(Request)
      OBVIOUS
    <3> QED BY <3>1, <3>2, Zenon
  <2>6. /\ srv' \in {"down", "update"}
        /\ ended' \in {"none", "killed", "SIGPIPE"}
    BY <1>4 DEF ServerWrite, ServerEnds
  <2> QED BY <1>4, <2>2, <2>3, <2>4, <2>5, <2>6 DEF ServerWrite
<1>5. CASE ServerUpdate
  <2>1. req \in Request
    BY <1>5, IntAssumption DEF ServerUpdate, RequestInv, OwnRequests,
       Request, Ints
  <2>2. seqNum' \in Ints
    BY <1>5, <2>1, IntAddType DEF ServerUpdate, Request
  <2> QED BY <1>5, <2>1, <2>2 DEF ServerUpdate, Request
<1>6. CASE ServerKilled
  BY <1>6 DEF ServerKilled, ServerEnds
<1>6a. CASE ServerSetup
  BY <1>6a DEF ServerSetup
<1>7. ASSUME NEW c \in Clients, ClientStart(c) PROVE Goal
  BY <1>7 DEF ClientStart
<1>8. ASSUME NEW c \in Clients, ClientOpenServer(c) PROVE Goal
  BY <1>8 DEF ClientOpenServer
<1>9. ASSUME NEW c \in Clients, ClientWrite(c) PROVE Goal
  <2>1. [pid |-> c, len |-> len[c]] \in Request
    BY IntAssumption DEF Request, Ints
  <2>2. queue' \in Seq(Request)
    <3> DEFINE r == [pid |-> c, len |-> len[c]]
    <3>1. queue' = Append(queue, r) \/ queue' = queue \/ queue' = <<>>
      BY <1>9 DEF ClientWrite
    <3>2. r \in Request
      BY <2>1
    <3> HIDE DEF r
    <3>3. Append(queue, r) \in Seq(Request)
      BY <3>2, AppendProperties
    <3>4. queue \in Seq(Request) /\ <<>> \in Seq(Request)
      OBVIOUS
    <3>5. CASE queue' = Append(queue, r)
      BY <3>3, <3>5, Zenon
    <3>6. CASE queue' = queue \/ queue' = <<>>
      BY <3>4, <3>6, Zenon
    <3> QED BY <3>1, <3>5, <3>6
  <2> QED BY <1>9, <2>2 DEF ClientWrite
<1>10. ASSUME NEW c \in Clients, ClientCloseServer(c) PROVE Goal
  BY <1>10 DEF ClientCloseServer
<1>11. ASSUME NEW c \in Clients, ClientOpen(c) PROVE Goal
  BY <1>11 DEF ClientOpen
<1>12. ASSUME NEW c \in Clients, ClientRead(c) PROVE Goal
  <2>1. Head(resp[c]) \in Ints
    BY <1>12 DEF ClientRead
  <2>2. got' \in [Clients -> Seq(Ints)] /\ resp' \in [Clients -> Seq(Ints)]
    BY <1>12, <2>1 DEF ClientRead
  <2> QED BY <1>12, <2>2 DEF ClientRead
<1>13. ASSUME NEW c \in Clients, ClientEof(c) PROVE Goal
  BY <1>13 DEF ClientEof
<1>14. ASSUME NEW c \in Clients, ClientKilled(c) PROVE Goal
  BY <1>14 DEF ClientKilled
<1>15. CASE UNCHANGED vars
  BY <1>15 DEF vars
<1> QED
  BY <1>1, <1>2, <1>3, <1>4, <1>5, <1>6, <1>6a, <1>7, <1>8, <1>9, <1>10,
     <1>11, <1>12, <1>13, <1>14, <1>15 DEF Next, ServerStep, ClientStep, Idle

(* SIGPIPE is ignored from before the first request on. *)
LEMMA NextSigpipe == IInv /\ [Next]_vars => SigpipeInv'
<1> SUFFICES ASSUME IInv, [Next]_vars PROVE SigpipeInv'
  OBVIOUS
<1> USE DEF IInv, SigpipeInv
<1>1. CASE ServerStart
  BY <1>1 DEF ServerStart
<1>2. CASE ServerSetup
  BY <1>2 DEF ServerSetup
<1>3. CASE ServerRead
  BY <1>3 DEF ServerRead
<1>4. CASE ServerOpen
  BY <1>4 DEF ServerOpen
<1>5. CASE ServerWrite
  BY <1>5 DEF ServerWrite
<1>6. CASE ServerUpdate
  BY <1>6 DEF ServerUpdate
<1>7. CASE ServerKilled
  BY <1>7 DEF ServerKilled, ServerEnds
<1>8. ASSUME NEW c \in Clients,
             ClientStart(c) \/ ClientOpenServer(c) \/ ClientWrite(c)
               \/ ClientCloseServer(c) \/ ClientOpen(c) \/ ClientRead(c)
               \/ ClientEof(c) \/ ClientKilled(c)
      PROVE  SigpipeInv'
  <2>1. /\ UNCHANGED <<sigpipe, ended>>
        /\ \/ srv' = srv
           \/ srv' = "setup"
           \/ srv = "opening" /\ srv' = "write"
    BY <1>8 DEF ClientStart, ClientOpenServer, ClientWrite,
       ClientCloseServer, ClientOpen, ClientRead, ClientEof, ClientKilled,
       serverVars
  <2> QED BY <2>1
<1>9. CASE UNCHANGED vars
  BY <1>9 DEF vars
<1> QED
  BY <1>1, <1>2, <1>3, <1>4, <1>5, <1>6, <1>7, <1>8, <1>9
     DEF Next, ServerStep, ClientStep, Idle

(* A server that serves requests does not end in its write(). *)
LEMMA WriteGoesOn ==
  ASSUME IInv, ServerWrite
  PROVE  /\ srv = "write" /\ srv' = "update"
         /\ handed' = handed + req.len /\ queue' = queue
  BY DEF IInv, SigpipeInv, ServerWrite

(* Requests and responses reach the ones they are for. *)
LEMMA NextRouting == IInv /\ [Next]_vars => RequestInv' /\ ResponseInv'
<1> SUFFICES ASSUME IInv, [Next]_vars PROVE RequestInv' /\ ResponseInv'
  OBVIOUS
<1> DEFINE Goal == RequestInv' /\ ResponseInv'
<1> USE DEF IInv, serverVars, clientVars
(* Most steps move neither requests nor responses. *)
<1>a. ASSUME UNCHANGED <<queue, req, len, resp, got, granted>>,
             srv' = srv \/ srv' \in {"down", "openR", "setup", "read"}
                \/ srv \in {"open", "opening", "write", "update"}
      PROVE  Goal
  BY <1>a DEF RequestInv, ResponseInv, OwnRequests, GrantedTo
(* A FIFO nobody holds open any more loses its requests. *)
<1>b. ASSUME UNCHANGED <<req, len, resp, got, granted>>,
             queue' = queue \/ queue' = <<>>,
             srv' = srv \/ srv' = "down"
      PROVE  Goal
  BY <1>b DEF RequestInv, ResponseInv, OwnRequests, GrantedTo
<1>1. CASE ServerStart
  BY <1>1, <1>a DEF ServerStart
<1>2. CASE ServerRead
  <2>1. /\ Head(queue) = queue[1] /\ 1 \in 1 .. Len(queue)
        /\ Len(Tail(queue)) = Len(queue) - 1
        /\ \A i \in 1 .. Len(Tail(queue)) : Tail(queue)[i] = queue[i + 1]
        /\ Len(queue) \in Nat
    BY <1>2, HeadTailProperties, LenProperties DEF ServerRead, TypeOK
  <2>2. RequestInv'
    BY <1>2, <2>1 DEF ServerRead, RequestInv, OwnRequests
  <2>3. ResponseInv'
    BY <1>2 DEF ServerRead, ResponseInv, GrantedTo
  <2> QED BY <2>2, <2>3
<1>3. CASE ServerOpen
  BY <1>3, <1>a DEF ServerOpen
<1>4. CASE ServerWrite
  <2>1. RequestInv'
    BY <1>4, WriteGoesOn DEF ServerWrite, RequestInv, OwnRequests
  <2> DEFINE GrantedNext(c, x) ==
               \E g \in granted' : g.pid = c /\ g.len = len[c] /\ g.start = x
  <2>2. ASSUME NEW c \in Clients, NEW x, GrantedTo(c, x)
        PROVE  GrantedNext(c, x)
    BY <1>4, <2>2 DEF ServerWrite, GrantedTo
  <2>3. req.pid \in Clients /\ req.len = len[req.pid]
    BY <1>4 DEF ServerWrite, RequestInv, OwnRequests
  <2>4. CASE cli[req.pid] = "read"
    <3>1. GrantedNext(req.pid, seqNum)
      <4> DEFINE g == [epoch |-> epoch, pid |-> req.pid, first |-> handed,
                       start |-> seqNum, len |-> req.len]
      <4>1. g \in granted'
        BY <1>4, <2>4 DEF ServerWrite
      <4>2. g.pid = req.pid /\ g.len = len[req.pid] /\ g.start = seqNum
        BY <2>3
      <4> QED BY <4>1, <4>2
    <3> HIDE DEF GrantedNext
    <3>2. ASSUME NEW c \in Clients, NEW i \in 1 .. Len(resp'[c])
          PROVE  GrantedNext(c, resp'[c][i])
      <4>1. CASE c = req.pid
        <5>1. resp'[c] = Append(resp[c], seqNum)
          BY <1>4, <2>3, <2>4, <4>1 DEF ServerWrite, TypeOK
        <5>2. resp[c] \in Seq(Ints) /\ seqNum \in Ints
          BY DEF TypeOK
        <5>3. /\ Len(resp'[c]) = Len(resp[c]) + 1
              /\ \A j \in 1 .. Len(resp[c]) : resp'[c][j] = resp[c][j]
              /\ resp'[c][Len(resp[c]) + 1] = seqNum
              /\ Len(resp[c]) \in Nat
          BY <5>1, <5>2, AppendProperties, LenProperties
        <5>4. CASE i = Len(resp[c]) + 1
          BY <3>1, <4>1, <5>3, <5>4
        <5>5. CASE i \in 1 .. Len(resp[c])
          BY <2>2, <5>3, <5>5 DEF ResponseInv
        <5> QED BY <5>3, <5>4, <5>5
      <4>2. CASE c # req.pid
        <5>1. resp'[c] = resp[c]
          BY <1>4, <2>4, <4>2 DEF ServerWrite, TypeOK
        <5> QED BY <2>2, <5>1 DEF ResponseInv
      <4> QED BY <4>1, <4>2
    <3>3. got' = got /\ len' = len
      BY <1>4 DEF ServerWrite
    <3>4. ResponseInv'
      BY <2>2, <3>2, <3>3 DEF ResponseInv, GrantedTo, GrantedNext
    <3> QED BY <2>1, <3>4
  <2>5. CASE cli[req.pid] # "read"
    BY <1>4, <2>1, <2>5 DEF ServerWrite, ResponseInv, GrantedTo
  <2> QED BY <2>4, <2>5
<1>5. CASE ServerUpdate
  <2>1. RequestInv'
    BY <1>5 DEF ServerUpdate, RequestInv, OwnRequests
  <2>2. \A c \in Clients : resp'[c] = resp[c] \/ resp'[c] = <<>>
    BY <1>5 DEF ServerUpdate, TypeOK
  <2>3. UNCHANGED <<got, granted, len>>
    BY <1>5 DEF ServerUpdate
  <2>4. ResponseInv'
    BY <2>2, <2>3 DEF ResponseInv, GrantedTo
  <2> QED BY <2>1, <2>4
<1>6. CASE ServerKilled
  BY <1>6, <1>b DEF ServerKilled, ServerEnds
<1>6a. CASE ServerSetup
  BY <1>6a, <1>a DEF ServerSetup
<1>7. ASSUME NEW c \in Clients,
             ClientStart(c) \/ ClientOpenServer(c) \/ ClientEof(c)
      PROVE  Goal
  BY <1>7, <1>a DEF ClientStart, ClientOpenServer, ClientEof
<1>8. ASSUME NEW c \in Clients, ClientOpen(c) PROVE Goal
  BY <1>8, <1>a DEF ClientOpen
<1>9. ASSUME NEW c \in Clients, ClientWrite(c) PROVE Goal
  <2>1. CASE Listening
    <3> DEFINE r == [pid |-> c, len |-> len[c]]
    <3>1. queue' = Append(queue, r) /\ r \in OwnRequests
      BY <1>9, <2>1 DEF ClientWrite, OwnRequests
    <3>2. r \in Request
      BY IntAssumption DEF Request, TypeOK
    <3> HIDE DEF r
    <3>3. /\ Len(queue') = Len(queue) + 1 /\ Len(queue) \in Nat
          /\ \A i \in 1 .. Len(queue) : queue'[i] = queue[i]
          /\ queue'[Len(queue) + 1] = r
      BY <3>1, <3>2, AppendProperties, LenProperties DEF TypeOK
    <3>4. OwnRequests' = OwnRequests
      BY <1>9 DEF ClientWrite, OwnRequests
    <3>5. \A i \in 1 .. Len(queue') : queue'[i] \in OwnRequests
      BY <3>1, <3>3 DEF RequestInv
    <3>6. RequestInv'
      BY <1>9, <3>4, <3>5 DEF ClientWrite, RequestInv
    <3>7. ResponseInv'
      BY <1>9 DEF ClientWrite, ResponseInv, GrantedTo
    <3> QED BY <3>6, <3>7
  <2>2. CASE ~Listening
    BY <1>9, <1>b, <2>2 DEF ClientWrite
  <2> QED BY <2>1, <2>2
<1>10. ASSUME NEW c \in Clients, ClientCloseServer(c) \/ ClientKilled(c)
       PROVE  Goal
  BY <1>10, <1>b DEF ClientCloseServer, ClientKilled
<1>11. ASSUME NEW c \in Clients, ClientRead(c) PROVE Goal
  <2>1. RequestInv'
    BY <1>11 DEF ClientRead, RequestInv, OwnRequests
  <2>2. /\ Head(resp[c]) = resp[c][1] /\ 1 \in 1 .. Len(resp[c])
        /\ resp[c][1] \in Ints
    BY <1>11, HeadTailProperties, LenProperties DEF ClientRead, TypeOK
  <2>3. GrantedTo(c, resp[c][1])
    BY <2>2 DEF ResponseInv
  <2>4. got'[c] = <<resp[c][1]>> /\ resp'[c] = <<>>
    BY <1>11, <2>2 DEF ClientRead, TypeOK
  <2>5. \A d \in Clients : d # c => got'[d] = got[d] /\ resp'[d] = resp[d]
    BY <1>11 DEF ClientRead, TypeOK
  <2>6. granted' = granted /\ len' = len
    BY <1>11 DEF ClientRead
  <2>7. ResponseInv'
    BY <2>2, <2>3, <2>4, <2>5, <2>6 DEF ResponseInv, GrantedTo
  <2> QED BY <2>1, <2>7
<1>12. CASE UNCHANGED vars
  BY <1>12, <1>a DEF vars
<1> QED
  BY <1>1, <1>2, <1>3, <1>4, <1>5, <1>6, <1>6a, <1>7, <1>8, <1>9, <1>10,
     <1>11, <1>12 DEF Next, ServerStep, ClientStep, Idle

(* The length the server works with is one a client asked for. *)
LEMMA RequestLen ==
  ASSUME TypeOK, LenInv, RequestInv, SeqLens \subseteq Nat,
         srv \in {"write", "update"}
  PROVE  req.len \in Nat /\ req.len <= INT_MAX
<1>1. PICK c \in Clients : req = [pid |-> c, len |-> len[c]]
  BY DEF RequestInv, OwnRequests
<1>2. len[c] \in SeqLens /\ req.len = len[c]
  BY <1>1 DEF LenInv
<1>3. \A n \in SeqLens : n \in Nat /\ n <= INT_MAX
  <2>1. \A n \in -(INT_MAX + 1) .. INT_MAX : n <= INT_MAX
    BY IntAssumption
  <2> QED BY <2>1, IntAssumption, Zenon
<1> QED BY <1>2, <1>3, Zenon

(* The counter and the sequences granted stay in step. *)
LEMMA NextCounter == IInv /\ [Next]_vars => CounterInv'
<1> SUFFICES ASSUME IInv, [Next]_vars, SeqLens \subseteq Nat PROVE CounterInv'
  BY DEF CounterInv
<1> USE IntAssumption DEF IInv
(* Most steps concern neither; the server may be killed in the middle. *)
<1>a. ASSUME UNCHANGED <<req, seqNum, epoch, handed, granted>>,
             srv' = "down"
               \/ (srv # "down" /\ (srv' = "update" <=> srv = "update"))
      PROVE  CounterInv'
  BY <1>a DEF CounterInv, Mine, Before
<1>1. CASE ServerStart
  <2>1. \A g \in granted : g.epoch \in Nat /\ g.epoch <= epoch
    BY DEF CounterInv, TypeOK
  <2>2. Mine' = {}
    BY <1>1, <2>1 DEF ServerStart, Mine, TypeOK
  <2>3. Before' = 0 /\ seqNum' = AsInt(0) /\ handed' = 0
    BY <1>1 DEF ServerStart, Before, AsInt
  <2>4. \A g \in granted' : g.epoch <= epoch'
    BY <1>1, <2>1 DEF ServerStart, TypeOK
  <2> QED BY <2>2, <2>3, <2>4 DEF CounterInv, AsInt
<1>2. CASE ServerRead
  <2>1. UNCHANGED <<seqNum, epoch, handed, granted>>
    BY <1>2 DEF ServerRead
  <2>2. Before' = Before /\ Mine' = Mine
    BY <1>2, <2>1 DEF ServerRead, Before, Mine
  <2> QED BY <1>2, <2>1, <2>2 DEF ServerRead, CounterInv, AsInt
<1>3. CASE ServerOpen
  BY <1>3, <1>a DEF ServerOpen
<1>4. CASE ServerWrite
  <2>1. req.len \in Nat /\ req.len <= INT_MAX
    BY <1>4, RequestLen DEF ServerWrite
  <2>2. Before = handed /\ Before' = handed /\ seqNum' = seqNum
    BY <1>4, <2>1, WriteGoesOn DEF ServerWrite, Before, TypeOK
  <2>3. handed' = handed + req.len /\ handed \in Nat /\ epoch' = epoch
    BY <1>4, WriteGoesOn DEF ServerWrite, CounterInv, TypeOK
  <2>4. handed <= Capacity => seqNum = AsInt(handed)
    BY <1>4, <2>2 DEF ServerWrite, CounterInv
  <2> DEFINE new == [epoch |-> epoch, pid |-> req.pid, first |-> handed,
                     start |-> seqNum, len |-> req.len]
  <2>5. granted' = granted \/ granted' = granted \cup {new}
    BY <1>4 DEF ServerWrite
  <2>6. /\ new.epoch = epoch /\ new.first = handed /\ new.len = req.len
        /\ new.start = seqNum
    OBVIOUS
  <2> HIDE DEF new
  <2>7. Mine' \subseteq Mine \cup {new}
    BY <2>3, <2>5 DEF Mine
  <2>8. \A g \in granted' : g.epoch <= epoch'
    BY <2>3, <2>5, <2>6 DEF CounterInv, TypeOK
  <2>9. \A g \in Mine : /\ g.first \in Nat /\ g.len \in Nat
                        /\ g.first + g.len <= handed
                        /\ handed <= Capacity => g.start = AsInt(g.first)
    <3> SUFFICES ASSUME NEW g \in Mine
                 PROVE  /\ g.first \in Nat /\ g.len \in Nat
                        /\ g.first + g.len <= handed
                        /\ handed <= Capacity => g.start = AsInt(g.first)
      OBVIOUS
    <3>1. g.first \in Int /\ g.len \in Int
      BY DEF Mine, TypeOK, Ints
    <3> QED BY <3>1 DEF CounterInv
  <2>10. \A g \in Mine' :
            /\ g.first >= 0 /\ g.len >= 0 /\ g.first + g.len <= handed'
            /\ handed' <= Capacity => g.start = AsInt(g.first)
    BY <2>1, <2>3, <2>4, <2>6, <2>7, <2>9 DEF Capacity
  <2>11. \A g, h \in Mine' :
            g # h => \/ g.first + g.len <= h.first
                     \/ h.first + h.len <= g.first
    BY <2>6, <2>7, <2>9 DEF CounterInv
  <2> QED
    BY <2>1, <2>2, <2>3, <2>4, <2>8, <2>10, <2>11 DEF CounterInv
<1>5. CASE ServerUpdate
  <2>1. req.len \in Nat /\ req.len <= INT_MAX
    BY <1>5, RequestLen DEF ServerUpdate
  <2>2. UNCHANGED <<epoch, handed, granted>> /\ Mine' = Mine
    BY <1>5 DEF ServerUpdate, Mine
  <2>3. /\ Before = handed - req.len /\ Before' = handed
        /\ Before \in Nat /\ handed \in Nat
    BY <1>5, <2>1 DEF ServerUpdate, Before, CounterInv, TypeOK
  <2>4. seqNum' = IntAdd(seqNum, req.len)
    BY <1>5 DEF ServerUpdate
  <2>5. handed <= Capacity => seqNum' = AsInt(handed)
    <3> SUFFICES ASSUME handed <= Capacity PROVE seqNum' = AsInt(handed)
      OBVIOUS
    <3>1. Before <= Capacity
      BY <2>1, <2>3 DEF Capacity
    <3>2. seqNum = AsInt(Before)
      BY <1>5, <3>1 DEF ServerUpdate, CounterInv
    <3> QED BY <2>1, <2>3, <2>4, <3>2, CountOn
  <2> QED BY <2>2, <2>3, <2>5 DEF CounterInv
<1>6. CASE ServerKilled
  BY <1>6, <1>a DEF ServerKilled, ServerEnds
<1>6a. CASE ServerSetup
  BY <1>6a, <1>a DEF ServerSetup
<1>7. ASSUME NEW c \in Clients,
             ClientStart(c) \/ ClientOpenServer(c) \/ ClientWrite(c)
               \/ ClientCloseServer(c) \/ ClientOpen(c) \/ ClientRead(c)
               \/ ClientEof(c) \/ ClientKilled(c)
      PROVE  CounterInv'
  <2>1. /\ UNCHANGED <<req, seqNum, epoch, handed, granted>>
        /\ \/ srv' = srv
           \/ srv = "openR" /\ srv' = "setup"
           \/ srv = "opening" /\ srv' = "write"
    BY <1>7 DEF ClientStart, ClientOpenServer, ClientWrite,
       ClientCloseServer, ClientOpen, ClientRead, ClientEof, ClientKilled,
       serverVars
  <2> QED BY <2>1, <1>a
<1>8. CASE UNCHANGED vars
  BY <1>8, <1>a DEF vars
<1> QED
  BY <1>1, <1>2, <1>3, <1>4, <1>5, <1>6, <1>6a, <1>7, <1>8
     DEF Next, ServerStep, ClientStep, Idle

-----------------------------------------------------------------------------
(* The inductive invariant holds of every behaviour. *)
THEOREM Invariance == Spec => []IInv
<1>1. IInv /\ [Next]_vars => IInv'
  BY NextTypeOK, NextSigpipe, NextRouting, NextCounter DEF IInv
<1> QED BY <1>1, InitIInv, PTL DEF Spec

(* Every variable keeps its type: the server's counter stays an int. *)
THEOREM TypeCorrect == Spec => []TypeOK
  BY Invariance, PTL DEF IInv

(* A client reads only the response the server wrote for it. *)
THEOREM ResponsesAreOwn == Spec => []OwnResponse
<1>1. IInv => OwnResponse
  BY DEF IInv, ResponseInv, GrantedTo, OwnResponse
<1> QED BY <1>1, Invariance, PTL

(* No run of the server is ended by SIGPIPE, whenever its clients die. *)
THEOREM ServerIsNotBroken == Spec => []ServerSurvives
<1>1. IInv => ServerSurvives
  BY DEF IInv, SigpipeInv, ServerSurvives
<1> QED BY <1>1, Invariance, PTL

(* Fewer than Capacity steps of one lead to different ints. *)
LEMMA AsIntInjective ==
  ASSUME NEW m \in Nat, NEW n \in Nat, m < Capacity, n < Capacity,
         AsInt(m) = AsInt(n)
  PROVE  m = n
  BY IntAssumption DEF AsInt, Capacity

(* No number is handed out twice by one run of the server, up to the last  *)
(* number an int can hold.                                                 *)
THEOREM NumbersAreUnique == Spec => []UniqueNumbers
<1>1. IInv => UniqueNumbers
  <2> SUFFICES ASSUME IInv, SeqLens \subseteq Nat, handed <= Capacity,
                      NEW g \in granted, NEW h \in granted,
                      g # h, g.epoch = epoch, h.epoch = epoch,
                      NEW x, x \in Numbers(g), x \in Numbers(h)
               PROVE  FALSE
    BY DEF UniqueNumbers, Capacity
  <2>1. g \in Mine /\ h \in Mine
    BY DEF Mine
  <2>2. /\ g.first \in Nat /\ h.first \in Nat
        /\ g.first + g.len <= handed /\ h.first + h.len <= handed
        /\ g.start = AsInt(g.first) /\ h.start = AsInt(h.first)
        /\ g.first + g.len <= h.first \/ h.first + h.len <= g.first
    BY <2>1 DEF IInv, CounterInv, TypeOK
  <2>3. /\ g.len \in Int /\ g.len <= INT_MAX /\ handed \in Int
        /\ h.len \in Int /\ h.len <= INT_MAX
    BY IntAssumption DEF IInv, TypeOK, Ints
  <2>4. PICK i \in 0 .. g.len - 1 : x = IntAdd(g.start, i)
    BY DEF Numbers
  <2>5. PICK j \in 0 .. h.len - 1 : x = IntAdd(h.start, j)
    BY DEF Numbers
  <2>6. /\ i \in Nat /\ i <= INT_MAX /\ g.first + i < Capacity
        /\ j \in Nat /\ j <= INT_MAX /\ h.first + j < Capacity
        /\ Capacity \in Nat /\ INT_MAX \in Nat
    BY <2>2, <2>3, IntAssumption DEF Capacity
  <2>7. x = AsInt(g.first + i)
    BY <2>2, <2>4, <2>6, CountOn
  <2>8. x = AsInt(h.first + j)
    BY <2>2, <2>5, <2>6, CountOn
  <2>9. g.first + i = h.first + j
    BY <2>2, <2>6, <2>7, <2>8, AsIntInjective
  <2> QED BY <2>2, <2>3, <2>9
<1> QED BY <1>1, Invariance, PTL
=============================================================================
