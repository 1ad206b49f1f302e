----------------------------- MODULE FifoSeqnum -----------------------------
(***************************************************************************)
(* chapter44/fifo_seqnum_server.c and fifo_seqnum_client.c: an iterative   *)
(* server hands out sequences of numbers.  Clients write their requests to *)
(* one well-known FIFO; each client creates a FIFO of its own, named after *)
(* its pid, for the response.                                              *)
(*                                                                         *)
(* Opening a FIFO blocks until the other side opens it too, a request and  *)
(* a response are written atomically, and what is in a FIFO is lost when   *)
(* no process holds it open any more.  A process may be killed at any      *)
(* step; the server may be started again.  A pid is used only once.        *)
(***************************************************************************)
EXTENDS Integers, Sequences, FiniteSets

CONSTANTS Clients,         \* the clients' pids
          SeqLens,         \* lengths asked for: what atoi() makes of argv[1]
          INT_MAX,         \* largest value of an int
          MaxKills,        \* bound: clients killed
          MaxServerRuns    \* bound: times the server is started

ASSUME IntAssumption ==
    INT_MAX \in Nat /\ SeqLens \subseteq -(INT_MAX + 1) .. INT_MAX
ASSUME BoundAssumption == MaxKills \in Nat /\ MaxServerRuns \in Nat

VARIABLES srv,        \* program counter of the server
          sigpipe,    \* its disposition of SIGPIPE
          ended,      \* how its last run ended
          req,        \* the request the server is working on
          seqNum,     \* the server's counter, an int
          sfifo,      \* whether the server's FIFO exists
          queue,      \* requests in it
          cli,        \* program counter of each client
          len,        \* each client's seqLen
          fifo,       \* the client FIFOs that exist
          resp,       \* responses in each client's FIFO
          got,        \* responses each client has read
          epoch,      \* runs of the server so far
          kills,      \* clients killed so far
          handed,     \* history: numbers handed out by this run
          granted     \* history: responses written

serverVars == <<srv, sigpipe, ended, req, seqNum, epoch, handed, granted>>
clientVars == <<cli, len, fifo, got>>
vars == <<srv, sigpipe, ended, req, seqNum, sfifo, queue, cli, len, fifo,
          resp, got, epoch, kills, handed, granted>>

(* a + b as the program computes it on ints that overflow by wrapping. *)
IntAdd(a, b) ==
    IF a + b > INT_MAX THEN a + b - 2 * (INT_MAX + 1)
    ELSE IF a + b < -(INT_MAX + 1) THEN a + b + 2 * (INT_MAX + 1)
    ELSE a + b

NoRequest == [pid |-> "none", len |-> 0]

(* The server holds its FIFO open for reading (and, once it is set up, by  *)
(* dummyFd for writing).                                                   *)
Listening == srv \in {"setup", "read", "open", "opening", "write", "update"}

(* The server is, or is blocked in becoming, the writer of c's FIFO. *)
ServerWrites(c) == srv \in {"opening", "write", "update"} /\ req.pid = c

(* Clients that hold the write end of the server's FIFO. *)
Senders == {c \in Clients : cli[c] \in {"writeS", "closeS"}}

Init ==
    /\ srv = "down" /\ sigpipe = "default" /\ ended = "none"
    /\ req = NoRequest /\ seqNum = 0
    /\ sfifo = "absent" /\ queue = <<>>
    /\ cli = [c \in Clients |-> "new"]
    /\ len \in [Clients -> SeqLens]
    /\ fifo = {}
    /\ resp = [c \in Clients |-> <<>>]
    /\ got = [c \in Clients |-> <<>>]
    /\ epoch = 0 /\ kills = 0
    /\ handed = 0 /\ granted = {}

-----------------------------------------------------------------------------
(* The server *)

(* mkfifo(), then open(O_RDONLY), which blocks unless a client is opening  *)
(* the FIFO or has it open.                                                *)
ServerStart ==
    /\ srv = "down" /\ epoch < MaxServerRuns
    /\ epoch' = epoch + 1
    /\ sigpipe' = "default" /\ ended' = "none"
    /\ seqNum' = 0 /\ handed' = 0
    /\ sfifo' = "present"
    /\ IF \E c \in Clients : cli[c] \in {"openSWait", "writeS", "closeS"}
       THEN /\ srv' = "setup"
            /\ cli' = [c \in Clients |-> IF cli[c] = "openSWait"
                                         THEN "writeS" ELSE cli[c]]
       ELSE srv' = "openR" /\ cli' = cli
    /\ UNCHANGED <<req, queue, len, fifo, resp, got, kills, granted>>

(* Mutant: SIGPIPE keeps its default action. *)
ServerSetupNoSignal ==
    /\ srv = "setup"
    /\ srv' = "read"
    /\ UNCHANGED <<sigpipe, ended, req, seqNum, sfifo, queue, clientVars, resp,
                   epoch, kills, handed, granted>>

(* open(O_WRONLY), which finds the server's own read end and does not      *)
(* block, and signal(SIGPIPE, SIG_IGN).                                    *)
ServerSetup ==
    /\ srv = "setup"
    /\ srv' = "read" /\ sigpipe' = "ignored"
    /\ UNCHANGED <<ended, req, seqNum, sfifo, queue, clientVars, resp, epoch,
                   kills, handed, granted>>

(* Mutant: only the pid is read, seqLen keeps an earlier value. *)
ServerReadPid ==
    /\ srv = "read"
    /\ queue # <<>>
    /\ req' = [pid |-> Head(queue).pid, len |-> req.len]
    /\ queue' = Tail(queue)
    /\ srv' = "open"
    /\ UNCHANGED <<sigpipe, ended, seqNum, sfifo, clientVars, resp, epoch,
                   kills, handed, granted>>

ServerRead ==
    /\ srv = "read"
    /\ queue # <<>>
    /\ req' = Head(queue)
    /\ queue' = Tail(queue)
    /\ srv' = "open"
    /\ UNCHANGED <<sigpipe, ended, seqNum, sfifo, clientVars, resp, epoch,
                   kills, handed, granted>>

(* Mutant: O_NONBLOCK, which fails when the client has not opened yet. *)
ServerOpenNonblock ==
    /\ srv = "open"
    /\ IF req.pid \in fifo /\ cli[req.pid] \in {"openWait", "read"}
       THEN srv' = "write" /\ cli' = [cli EXCEPT ![req.pid] = "read"]
       ELSE srv' = "read" /\ cli' = cli
    /\ UNCHANGED <<sigpipe, ended, req, seqNum, sfifo, queue, len, fifo,
                   resp, got, epoch, kills, handed, granted>>

(* open(clientFifo, O_WRONLY): an error drops the request; the call blocks *)
(* until the client opens its end.                                         *)
ServerOpen ==
    /\ srv = "open"
    /\ \/ /\ req.pid \notin fifo
          /\ srv' = "read" /\ cli' = cli
       \/ /\ req.pid \in fifo
          /\ cli[req.pid] \in {"openWait", "read"}
          /\ srv' = "write"
          /\ cli' = [cli EXCEPT ![req.pid] = "read"]
       \/ /\ req.pid \in fifo
          /\ cli[req.pid] \notin {"openWait", "read"}
          /\ srv' = "opening" /\ cli' = cli
    /\ UNCHANGED <<sigpipe, ended, req, seqNum, sfifo, queue, len, fifo,
                   resp, got, epoch, kills, handed, granted>>

(* The server's process ends: its FIFO loses the requests in it unless a  *)
(* client has it open.                                                     *)
ServerEnds(how) ==
    /\ srv' = "down" /\ ended' = how
    /\ queue' = IF Senders = {} THEN <<>> ELSE queue

(* write() of the response.  With the client gone there is no reader:      *)
(* SIGPIPE ends the server or, if it is ignored, write() fails with EPIPE  *)
(* and the server goes on.                                                 *)
ServerWrite ==
    /\ srv = "write"
    /\ IF cli[req.pid] = "read"
       THEN /\ resp' = [resp EXCEPT ![req.pid] = Append(@, seqNum)]
            /\ granted' = granted \cup {[epoch |-> epoch, pid |-> req.pid,
                  first |-> handed, start |-> seqNum, len |-> req.len]}
       ELSE UNCHANGED <<resp, granted>>
    /\ IF cli[req.pid] # "read" /\ sigpipe = "default"
       THEN ServerEnds("SIGPIPE") /\ handed' = handed
       ELSE /\ srv' = "update" /\ handed' = handed + req.len
            /\ UNCHANGED <<ended, queue>>
    /\ UNCHANGED <<sigpipe, req, seqNum, sfifo, clientVars, epoch, kills>>

(* Mutant: the counter moves by one, whatever the length. *)
ServerUpdateByOne ==
    /\ srv = "update"
    /\ seqNum' = IntAdd(seqNum, 1)
    /\ srv' = "read"
    /\ resp' = IF cli[req.pid] = "read" THEN resp
               ELSE [resp EXCEPT ![req.pid] = <<>>]
    /\ UNCHANGED <<sigpipe, ended, req, sfifo, queue, clientVars, epoch,
                   kills, handed, granted>>

(* Mutant: no wrap-around, the counter leaves the range of int. *)
ServerUpdateWide ==
    /\ srv = "update"
    /\ seqNum' = seqNum + req.len
    /\ srv' = "read"
    /\ resp' = IF cli[req.pid] = "read" THEN resp
               ELSE [resp EXCEPT ![req.pid] = <<>>]
    /\ UNCHANGED <<sigpipe, ended, req, sfifo, queue, clientVars, epoch,
                   kills, handed, granted>>

(* The counter moves on, whether or not the client got its response; then  *)
(* close(clientFd), which loses a response left behind by a dead client.   *)
ServerUpdate ==
    /\ srv = "update"
    /\ seqNum' = IntAdd(seqNum, req.len)
    /\ srv' = "read"
    /\ resp' = IF cli[req.pid] = "read" THEN resp
               ELSE [resp EXCEPT ![req.pid] = <<>>]
    /\ UNCHANGED <<sigpipe, ended, req, sfifo, queue, clientVars, epoch,
                   kills, handed, granted>>

(* The server is killed, at any point. *)
ServerKilled ==
    /\ srv # "down"
    /\ ServerEnds("killed")
    /\ UNCHANGED <<sigpipe, req, seqNum, sfifo, clientVars, resp, epoch, kills,
                   handed, granted>>

-----------------------------------------------------------------------------
(* A client *)

(* mkfifo() and atexit(removeFifo). *)
ClientStart(c) ==
    /\ cli[c] = "new"
    /\ \/ cli' = [cli EXCEPT ![c] = "openS"] /\ fifo' = fifo \cup {c}
       \/ cli' = [cli EXCEPT ![c] = "failed"] /\ fifo' = fifo  \* an error
    /\ UNCHANGED <<serverVars, sfifo, queue, len, resp, got, kills>>

(* open(SERVER_FIFO, O_WRONLY) fails if there is no such FIFO, and blocks  *)
(* until there is a reader; the server may be waiting for a writer.        *)
ClientOpenServer(c) ==
    /\ cli[c] = "openS"
    /\ \/ /\ sfifo = "absent"
          /\ cli' = [cli EXCEPT ![c] = "failed"]
          /\ fifo' = fifo \ {c} /\ srv' = srv
       \/ /\ sfifo = "present" /\ srv = "down"
          /\ cli' = [cli EXCEPT ![c] = "openSWait"]
          /\ UNCHANGED <<fifo, srv>>
       \/ /\ Listening \/ srv = "openR"
          /\ cli' = [cli EXCEPT ![c] = "writeS"]
          /\ fifo' = fifo
          /\ srv' = IF srv = "openR" THEN "setup" ELSE srv
    /\ UNCHANGED <<sigpipe, ended, req, seqNum, sfifo, queue, len, resp, got,
                   epoch, kills, handed, granted>>

(* write() of the request; without a reader SIGPIPE kills the client,      *)
(* whose exit handler does not run.                                        *)
ClientWrite(c) ==
    /\ cli[c] = "writeS"
    /\ IF Listening
       THEN /\ cli' = [cli EXCEPT ![c] = "closeS"]
            /\ queue' = Append(queue, [pid |-> c, len |-> len[c]])
       ELSE /\ cli' = [cli EXCEPT ![c] = "killed"]
            /\ queue' = IF Senders = {c} THEN <<>> ELSE queue
    /\ UNCHANGED <<serverVars, sfifo, len, fifo, resp, got, kills>>

ClientCloseServer(c) ==
    /\ cli[c] = "closeS"
    /\ cli' = [cli EXCEPT ![c] = "openC"]
    /\ queue' = IF ~Listening /\ Senders = {c} THEN <<>> ELSE queue
    /\ UNCHANGED <<serverVars, sfifo, len, fifo, resp, got, kills>>

(* open(clientFifo, O_RDONLY), which lets a server blocked in its open()   *)
(* of the same FIFO go on.                                                 *)
ClientOpen(c) ==
    /\ cli[c] = "openC"
    /\ cli' = [cli EXCEPT ![c] = IF ServerWrites(c) THEN "read"
                                 ELSE "openWait"]
    /\ srv' = IF srv = "opening" /\ req.pid = c THEN "write" ELSE srv
    /\ UNCHANGED <<sigpipe, ended, req, seqNum, sfifo, queue, len, fifo,
                   resp, got, epoch, kills, handed, granted>>

(* read() of the response, then the exit, which removes the FIFO. *)
ClientRead(c) ==
    /\ cli[c] = "read"
    /\ resp[c] # <<>>
    /\ got' = [got EXCEPT ![c] = <<Head(resp[c])>>]
    /\ resp' = [resp EXCEPT ![c] = <<>>]
    /\ cli' = [cli EXCEPT ![c] = "done"]
    /\ fifo' = fifo \ {c}
    /\ UNCHANGED <<serverVars, sfifo, queue, len, kills>>

(* End of file: the server was killed before it wrote. *)
ClientEof(c) ==
    /\ cli[c] = "read"
    /\ resp[c] = <<>> /\ ~ServerWrites(c)
    /\ cli' = [cli EXCEPT ![c] = "failed"]
    /\ fifo' = fifo \ {c}
    /\ UNCHANGED <<serverVars, sfifo, queue, len, resp, got, kills>>

(* A signal kills the client: its FIFO stays behind. *)
ClientKilled(c) ==
    /\ cli[c] \notin {"new", "done", "failed", "killed"}
    /\ kills < MaxKills
    /\ kills' = kills + 1
    /\ cli' = [cli EXCEPT ![c] = "killed"]
    /\ queue' = IF ~Listening /\ Senders = {c} THEN <<>> ELSE queue
    /\ UNCHANGED <<serverVars, sfifo, len, fifo, resp, got>>

-----------------------------------------------------------------------------
ServerStep ==
    ServerSetup \/ ServerRead \/ ServerOpen \/ ServerWrite \/ ServerUpdate

ClientStep(c) ==
    ClientStart(c) \/ ClientOpenServer(c) \/ ClientWrite(c)
    \/ ClientCloseServer(c) \/ ClientOpen(c) \/ ClientRead(c) \/ ClientEof(c)

(* A server waits for requests for ever, and clients for an absent server. *)
Idle ==
    /\ srv \in {"down", "openR", "read", "opening"}
    /\ UNCHANGED vars

Next ==
    \/ ServerStep \/ ServerStart \/ ServerKilled
    \/ \E c \in Clients : ClientStep(c) \/ ClientKilled(c)
    \/ Idle

(* The server, once started, and the clients run when they can.  Nobody    *)
(* has to start the server, and nobody has to be killed.                   *)
Fairness ==
    WF_vars(ServerStep) /\ \A c \in Clients : WF_vars(ClientStep(c))

Spec == Init /\ [][Next]_vars /\ Fairness

-----------------------------------------------------------------------------
(* Properties *)

Ints == -(INT_MAX + 1) .. INT_MAX

ClientPc == {"new", "openS", "openSWait", "writeS", "closeS", "openC",
             "openWait", "read", "done", "failed", "killed"}

Request == [pid : Clients, len : Ints]

TypeOK ==
    /\ srv \in {"down", "openR", "setup", "read", "open", "opening", "write",
               "update"}
    /\ sigpipe \in {"default", "ignored"}
    /\ ended \in {"none", "killed", "SIGPIPE"}
    /\ req \in Request \cup {NoRequest}
    /\ seqNum \in Ints
    /\ sfifo \in {"absent", "present"}
    /\ queue \in Seq(Request)
    /\ cli \in [Clients -> ClientPc]
    /\ len \in [Clients -> Ints]
    /\ fifo \subseteq Clients
    /\ resp \in [Clients -> Seq(Ints)]
    /\ got \in [Clients -> Seq(Ints)]
    /\ epoch \in Nat
    /\ kills \in Nat
    /\ handed \in Int
    /\ granted \subseteq [epoch : Nat, pid : Clients, first : Int,
                          start : Ints, len : Ints]

(* The numbers a response stands for. *)
Numbers(g) == {IntAdd(g.start, i) : i \in 0 .. g.len - 1}

(* The service: one run of the server never hands out a number twice, not  *)
(* even when its counter wraps, as long as no length is negative and it    *)
(* has not handed out more numbers than an int has (server lines 81-91).   *)
UniqueNumbers ==
    SeqLens \subseteq Nat /\ handed <= 2 * (INT_MAX + 1) =>
        \A g, h \in granted :
            g # h /\ g.epoch = epoch /\ h.epoch = epoch =>
                Numbers(g) \cap Numbers(h) = {}

(* A client reads at most one response, and it is one the server wrote for *)
(* its pid and for the length it asked for: responses are never mixed up.  *)
OwnResponse ==
    \A c \in Clients :
        got[c] # <<>> =>
            \E g \in granted :
                g.pid = c /\ g.len = len[c] /\ got[c] = <<g.start>>

(* A client that dies between the server's open() of its FIFO and the      *)
(* write() does not take the server with it, in any of its runs: the       *)
(* server ignores SIGPIPE before it can have a client to write to (server  *)
(* lines 46-56, 84), so a run ends only when the server itself is killed.  *)
ServerSurvives == ended # "SIGPIPE"

(* As long as nobody is killed every client that has sent its request gets *)
(* its numbers.                                                            *)
Undisturbed == kills = 0 /\ srv # "down" /\ epoch = 1

AnsweredIfUndisturbed ==
    \A c \in Clients :
        cli[c] = "closeS" /\ Undisturbed ~> cli[c] = "done" \/ ~Undisturbed

(* The comments of server lines 60 and 75: the loop reads each request and *)
(* responds, and the request of a client whose FIFO cannot be opened is    *)
(* dropped; so a client that stays alive gets its answer from a server     *)
(* that stays alive, whatever becomes of the other clients.                *)
Answered ==
    \A c \in Clients :
        cli[c] = "closeS" /\ srv # "down" ~>
            cli[c] \in {"done", "killed"} \/ srv = "down"
=============================================================================
