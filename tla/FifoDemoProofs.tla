--------------------------- MODULE FifoDemoProofs ---------------------------
(***************************************************************************)
(* Proofs about FifoDemo for any number of signals: what the runs of       *)
(* MCFifoDemo check as invariants, and that the reader loses nothing.      *)
(*                                                                         *)
(* IInv follows the four demonstrations: who has an end of the FIFO open   *)
(* (EndsInv), who has been forked and not waited for (CastInv, MainInv),   *)
(* and how far the partners of an open() are (BasicInv, MultiInv,          *)
(* ClisrvInv): an open() that returns lets both partners go on in one      *)
(* step, so that their places in their Scripts stay tied to each other.    *)
(***************************************************************************)
EXTENDS FifoDemo, SequenceTheorems, TLAPS

Children == Procs \ {"main"}

(* Where in its Script a process is when it opens an end of the FIFO, and  *)
(* where it has the end open.                                              *)
OpensR(p, a) == \/ p = "client" /\ a = 4
                \/ p \in {"server", "reader", "child"} /\ a = 1
HasR(p, a) == \/ p = "client" /\ a \in {5, 6}
              \/ p \in {"server", "reader", "child"} /\ a \in {2, 3}
OpensW(p, a) == \/ p = "server" /\ a = 4
                \/ p \in {"main", "client", "writer1", "writer2"} /\ a = 1
HasW(p, a) == \/ p = "server" /\ a \in {5, 6}
              \/ p \in {"main", "client", "writer1", "writer2"} /\ a \in {2, 3}

(* The ends that are open are those of running processes at the right      *)
(* place, a process blocked in open() has nobody at the other end, and     *)
(* only a FIFO that is open holds data.                                    *)
EndsInv ==
    /\ readers = {p \in Procs : /\ st[p] = "running"
                                /\ \/ HasR(p, at[p])
                                   \/ p \in blocked /\ OpensR(p, at[p])}
    /\ writers = {p \in Procs : /\ st[p] = "running"
                                /\ \/ HasW(p, at[p])
                                   \/ p \in blocked /\ OpensW(p, at[p])}
    /\ \A p \in blocked :
          /\ st[p] = "running"
          /\ \/ OpensR(p, at[p]) /\ writers = {}
             \/ OpensW(p, at[p]) /\ readers = {}
    /\ readers \cup writers = {} => data = <<>>

(* What a process has not done yet. *)
FreshInv ==
    /\ \A p \in Procs : st[p] = "unborn" => at[p] = 1
    /\ \A p \in Procs : at[p] = 1 => got[p] = <<>>
    /\ \A w \in WriterSet : at[w] <= 2 => w \notin wrote
    /\ pend \subseteq Live

(* The processes that are forked in later demonstrations. *)
Coming == CASE demo = "basic" -> Children \ {"child"}
            [] demo \in {"multi", "nonblock"} -> {"server", "client"}
            [] OTHER -> {}

(* Who has been forked and has not been waited for. *)
CastInv ==
    /\ \A p \in Coming : st[p] = "unborn"
    /\ mpc \in {"mkfifo", "open", "unlink", "exited"} =>
          \A p \in Children : st[p] \in {"unborn", "reaped"}
    /\ \A p \in Children : st[p] \in {"running", "zombie"} =>
          \E k \in DOMAIN Forks(demo) : p = Forks(demo)[k]
    /\ mpc \in {"mkfifo", "fork"} =>
          \A k \in DOMAIN Forks(demo) : k >= i => st[Forks(demo)[k]] = "unborn"

(* Where main is in which demonstration, and the pids it has. *)
MainInv ==
    /\ mpc = "mkfifo" => demo # "end" /\ i = 1 /\ Len(pids) = 0
    /\ mpc = "open" => demo = "nonblock" /\ i = 1
    /\ mpc \in {"io", "waitErr"} =>
          demo = "basic" /\ i = 1 /\ Len(pids) = 1 /\ pids[1] = "child"
    /\ mpc \in {"unlink", "exited"} => demo = "end"
    /\ mpc = "fork" =>
          /\ demo \in {"basic", "multi", "clisrv"}
          /\ i \in 1..Len(Forks(demo)) /\ Len(pids) = i - 1
          /\ i > 1 => pids[1] = Forks(demo)[1]
          /\ demo = "multi" /\ i > 2 =>
                pids[2] \in {"writer1", "-1"}
                /\ (pids[2] = "-1" => st["writer1"] = "unborn")
    /\ mpc = "wait" => demo \in {"basic", "multi", "clisrv"} /\ i \in 1..Len(pids)
    /\ mpc = "wait" /\ demo = "basic" => Len(pids) = 1 /\ pids[1] = "child"
    /\ mpc = "wait" /\ demo = "multi" =>
          /\ Len(pids) = 3 /\ pids[1] = "reader"
          /\ pids[2] \in {"writer1", "-1"} /\ pids[3] \in {"writer2", "-1"}
          /\ pids[2] = "-1" => st["writer1"] = "unborn"
          /\ pids[3] = "-1" => st["writer2"] = "unborn"
          /\ i >= 2 => st["writer1"] \in {"unborn", "reaped"}
          /\ i >= 3 => st["writer2"] \in {"unborn", "reaped"}
    /\ mpc = "wait" /\ demo = "clisrv" =>
          /\ Len(pids) \in {1, 2} /\ pids[1] = "server"
          /\ Len(pids) = 2 => pids[2] = "client"
          /\ Len(pids) = 1 => st["client"] = "unborn"
          /\ i >= 2 => st["server"] \in {"unborn", "reaped"}
    /\ "main" \in blocked => mpc = "io"
    /\ at["main"] \in {2, 3} => mpc = "io"
    /\ st["main"] # "unborn" /\ st["main"] # "reaped"

(* The first demonstration: main's open() returns when the child's does,   *)
(* and main is killed by SIGPIPE only after a signal to the child.         *)
BasicInv ==
    /\ at["main"] = 1 => at["child"] = 1
    /\ mpc = "io" => data \in {<<>>, <<"main">>}
    /\ mpc = "io" /\ at["main"] <= 2 => data = <<>>
    /\ mpc = "io" /\ at["main"] = 2 /\ exists /\ st["main"] = "running" =>
          st["child"] = "running" /\ at["child"] = 2

(* The second one: the message of each writer is in the FIFO or the reader *)
(* has it, until the reader meets end of file.                             *)
MultiInv ==
    /\ at["reader"] = 1 => /\ \A w \in WriterSet : at[w] = 1
                           /\ demo = "multi" => data = <<>>
    /\ st["reader"] = "running" /\ at["reader"] = 2 =>
          /\ GotAll(got["reader"] \o data)

(* The last one: how far the server and the client are, and whose message  *)
(* there is.                                                               *)
ClisrvInv ==
    LET s == at["server"]
        c == at["client"]
    IN  /\ s = 1 <=> c = 1
        /\ s <= 4 <=> c <= 4
        /\ c = 2 => s = 2 \/ st["client"] # "running"
        /\ c = 6 => s >= 6 \/ st["server"] # "running"
        /\ c = 7 => s >= 6 \/ st["server"] # "running"
        /\ s <= 2 => got["server"] = <<>>
        /\ c <= 5 => got["client"] = <<>>
        /\ demo = "clisrv" => \/ data = <<>>
                              \/ data = <<"client">> /\ s = 2 /\ c \in {3, 4}
                              \/ data = <<"server">> /\ s >= 6 /\ c = 5

IInv ==
    /\ TypeOK
    /\ CleanedUp
    /\ EndsInv
    /\ FreshInv
    /\ CastInv
    /\ MainInv
    /\ BasicInv
    /\ MultiInv
    /\ ClisrvInv
    /\ NoCrossTalk

-----------------------------------------------------------------------------
(* The processes, what each demonstration forks, and the Scripts. *)

Writes(p, a) == \/ p = "server" /\ a = 5
                \/ p \in {"main", "client", "writer1", "writer2"} /\ a = 2
Reads(p, a) == \/ p = "client" /\ a = 5
               \/ p \in {"server", "reader", "child"} /\ a = 2
Closes(p, a) == \/ a = 3
                \/ p \in {"server", "client"} /\ a = 6
EndOf(p) == IF p \in {"server", "client"} THEN 7 ELSE 4

(* The processes by their names. *)
LEMMA ProcNames ==
  /\ WriterSet = {"writer1", "writer2"}
  /\ Procs = {"main", "child", "reader", "server", "client", "writer1",
              "writer2"}
  /\ Children = {"child", "reader", "server", "client", "writer1", "writer2"}
<1>1. DOMAIN Writers = {1, 2} /\ Writers[1] = "writer1" /\ Writers[2] = "writer2"
  BY DEF Writers
<1>2. WriterSet = {"writer1", "writer2"}
  BY <1>1 DEF WriterSet
<1> QED BY <1>2 DEF Procs, Children

(* The processes of each demonstration, in the order of their forks. *)
LEMMA ForksTable ==
  /\ Forks("basic") = <<"child">>
  /\ Forks("multi") = <<"reader", "writer1", "writer2">>
  /\ \A d \in {"nonblock", "clisrv", "end"} : Forks(d) = <<"server", "client">>
<1>1. Writers[1] = "writer1" /\ Writers[2] = "writer2"
  BY DEF Writers
<1> QED BY <1>1 DEF Forks

(* The Scripts, call by call. *)
LEMMA ScriptTable ==
  /\ LET s == Script("client")
     IN  /\ Len(s) = 6 /\ s[1] = "openW" /\ s[2] = "write" /\ s[3] = "close"
         /\ s[4] = "openR" /\ s[5] = "readOne" /\ s[6] = "close"
  /\ LET s == Script("server")
     IN  /\ Len(s) = 6 /\ s[1] = "openR" /\ s[2] = "readOne" /\ s[3] = "close"
         /\ s[4] = "openW" /\ s[5] = "write" /\ s[6] = "close"
  /\ LET s == Script("reader")
     IN  Len(s) = 3 /\ s[1] = "openR" /\ s[2] = "readAll" /\ s[3] = "close"
  /\ LET s == Script("child")
     IN  Len(s) = 3 /\ s[1] = "openR" /\ s[2] = "readOne" /\ s[3] = "close"
  /\ \A p \in {"main", "writer1", "writer2"} :
        LET s == Script(p)
        IN  Len(s) = 3 /\ s[1] = "openW" /\ s[2] = "write" /\ s[3] = "close"
<1>1. Script("client") = <<"openW", "write", "close", "openR", "readOne", "close">>
  BY DEF Script
<1>2. Script("server") = <<"openR", "readOne", "close", "openW", "write", "close">>
  BY DEF Script
<1>3. Script("reader") = <<"openR", "readAll", "close">>
  BY DEF Script
<1>4. Script("child") = <<"openR", "readOne", "close">>
  BY DEF Script
<1>5. \A p \in {"main", "writer1", "writer2"} :
         Script(p) = <<"openW", "write", "close">>
  BY DEF Script
<1>6. LET s == Script("client")
      IN  /\ Len(s) = 6 /\ s[1] = "openW" /\ s[2] = "write" /\ s[3] = "close"
          /\ s[4] = "openR" /\ s[5] = "readOne" /\ s[6] = "close"
  BY <1>1
<1>7. LET s == Script("server")
      IN  /\ Len(s) = 6 /\ s[1] = "openR" /\ s[2] = "readOne" /\ s[3] = "close"
          /\ s[4] = "openW" /\ s[5] = "write" /\ s[6] = "close"
  BY <1>2
<1>8. LET s == Script("reader")
      IN  Len(s) = 3 /\ s[1] = "openR" /\ s[2] = "readAll" /\ s[3] = "close"
  BY <1>3
<1>9. LET s == Script("child")
      IN  Len(s) = 3 /\ s[1] = "openR" /\ s[2] = "readOne" /\ s[3] = "close"
  BY <1>4
<1>10. \A p \in {"main", "writer1", "writer2"} :
          LET s == Script(p)
          IN  Len(s) = 3 /\ s[1] = "openW" /\ s[2] = "write" /\ s[3] = "close"
  BY <1>5
<1> QED BY <1>6, <1>7, <1>8, <1>9, <1>10

(* The next call of a process by its place in its Script. *)
LEMMA OpTable ==
  ASSUME TypeOK, NEW p \in Procs
  PROVE  /\ Op(p) = "openR" <=> OpensR(p, at[p])
         /\ Op(p) = "openW" <=> OpensW(p, at[p])
         /\ Op(p) = "write" <=> Writes(p, at[p])
         /\ Op(p) \in {"readOne", "readAll"} <=> Reads(p, at[p])
         /\ Op(p) = "readOne" => p # "reader"
         /\ Op(p) = "readAll" => p = "reader"
         /\ Op(p) = "close" <=> Closes(p, at[p])
         /\ Op(p) = "end" <=> at[p] >= EndOf(p)
         /\ Len(Script(p)) + 1 = EndOf(p)
<1>1. PICK a \in 1..7 : at[p] = a
  BY DEF TypeOK
<1>2. a = 1 \/ a = 2 \/ a = 3 \/ a = 4 \/ a = 5 \/ a = 6 \/ a = 7
  OBVIOUS
<1>3. Op(p) = IF a <= Len(Script(p)) THEN Script(p)[a] ELSE "end"
  BY <1>1 DEF Op
<1>4. CASE p = "client"
  <2>1. /\ a = 1 => Op(p) = "openW"
        /\ a = 2 => Op(p) = "write"
        /\ a = 3 => Op(p) = "close"
        /\ a = 4 => Op(p) = "openR"
        /\ a = 5 => Op(p) = "readOne"
        /\ a = 6 => Op(p) = "close"
        /\ a > 6 => Op(p) = "end"
        /\ Len(Script(p)) = 6
    BY <1>2, <1>3, <1>4, ScriptTable
  <2>2. /\ Op(p) = "openR" <=> OpensR(p, at[p])
        /\ Op(p) = "openW" <=> OpensW(p, at[p])
    BY <1>1, <1>2, <1>4, <2>1 DEF OpensR, OpensW
  <2>3. /\ Op(p) = "write" <=> Writes(p, at[p])
        /\ Op(p) \in {"readOne", "readAll"} <=> Reads(p, at[p])
    BY <1>1, <1>2, <1>4, <2>1 DEF Writes, Reads
  <2>4. /\ Op(p) = "close" <=> Closes(p, at[p])
        /\ Op(p) = "end" <=> at[p] >= EndOf(p)
    BY <1>1, <1>2, <1>4, <2>1 DEF Closes, EndOf
  <2>5. /\ Op(p) = "readOne" => p # "reader"
        /\ Op(p) = "readAll" => p = "reader"
    BY <1>2, <1>4, <2>1
  <2>6. EndOf(p) = 7
    BY <1>4 DEF EndOf
  <2>7. Len(Script(p)) + 1 = 7
    BY <2>1
  <2> QED BY <2>2, <2>3, <2>4, <2>5, <2>6, <2>7
<1>5. CASE p = "server"
  <2>1. /\ a = 1 => Op(p) = "openR"
        /\ a = 2 => Op(p) = "readOne"
        /\ a = 3 => Op(p) = "close"
        /\ a = 4 => Op(p) = "openW"
        /\ a = 5 => Op(p) = "write"
        /\ a = 6 => Op(p) = "close"
        /\ a > 6 => Op(p) = "end"
        /\ Len(Script(p)) = 6
    BY <1>2, <1>3, <1>5, ScriptTable
  <2>2. /\ Op(p) = "openR" <=> OpensR(p, at[p])
        /\ Op(p) = "openW" <=> OpensW(p, at[p])
    BY <1>1, <1>2, <1>5, <2>1 DEF OpensR, OpensW
  <2>3. /\ Op(p) = "write" <=> Writes(p, at[p])
        /\ Op(p) \in {"readOne", "readAll"} <=> Reads(p, at[p])
    BY <1>1, <1>2, <1>5, <2>1 DEF Writes, Reads
  <2>4. /\ Op(p) = "close" <=> Closes(p, at[p])
        /\ Op(p) = "end" <=> at[p] >= EndOf(p)
    BY <1>1, <1>2, <1>5, <2>1 DEF Closes, EndOf
  <2>5. /\ Op(p) = "readOne" => p # "reader"
        /\ Op(p) = "readAll" => p = "reader"
    BY <1>2, <1>5, <2>1
  <2>6. EndOf(p) = 7
    BY <1>5 DEF EndOf
  <2>7. Len(Script(p)) + 1 = 7
    BY <2>1
  <2> QED BY <2>2, <2>3, <2>4, <2>5, <2>6, <2>7
<1>6. CASE p = "reader"
  <2>1. /\ a = 1 => Op(p) = "openR"
        /\ a = 2 => Op(p) = "readAll"
        /\ a = 3 => Op(p) = "close"
        /\ a > 3 => Op(p) = "end"
        /\ Len(Script(p)) = 3
    BY <1>2, <1>3, <1>6, ScriptTable
  <2>2. /\ Op(p) = "openR" <=> OpensR(p, at[p])
        /\ Op(p) = "openW" <=> OpensW(p, at[p])
    BY <1>1, <1>2, <1>6, <2>1 DEF OpensR, OpensW
  <2>3. /\ Op(p) = "write" <=> Writes(p, at[p])
        /\ Op(p) \in {"readOne", "readAll"} <=> Reads(p, at[p])
    BY <1>1, <1>2, <1>6, <2>1 DEF Writes, Reads
  <2>4. /\ Op(p) = "close" <=> Closes(p, at[p])
        /\ Op(p) = "end" <=> at[p] >= EndOf(p)
    BY <1>1, <1>2, <1>6, <2>1 DEF Closes, EndOf
  <2>5. /\ Op(p) = "readOne" => p # "reader"
        /\ Op(p) = "readAll" => p = "reader"
    BY <1>2, <1>6, <2>1
  <2>6. EndOf(p) = 4
    BY <1>6 DEF EndOf
  <2>7. Len(Script(p)) + 1 = 4
    BY <2>1
  <2> QED BY <2>2, <2>3, <2>4, <2>5, <2>6, <2>7
<1>7. CASE p = "child"
  <2>1. /\ a = 1 => Op(p) = "openR"
        /\ a = 2 => Op(p) = "readOne"
        /\ a = 3 => Op(p) = "close"
        /\ a > 3 => Op(p) = "end"
        /\ Len(Script(p)) = 3
    BY <1>2, <1>3, <1>7, ScriptTable
  <2>2. /\ Op(p) = "openR" <=> OpensR(p, at[p])
        /\ Op(p) = "openW" <=> OpensW(p, at[p])
    BY <1>1, <1>2, <1>7, <2>1 DEF OpensR, OpensW
  <2>3. /\ Op(p) = "write" <=> Writes(p, at[p])
        /\ Op(p) \in {"readOne", "readAll"} <=> Reads(p, at[p])
    BY <1>1, <1>2, <1>7, <2>1 DEF Writes, Reads
  <2>4. /\ Op(p) = "close" <=> Closes(p, at[p])
        /\ Op(p) = "end" <=> at[p] >= EndOf(p)
    BY <1>1, <1>2, <1>7, <2>1 DEF Closes, EndOf
  <2>5. /\ Op(p) = "readOne" => p # "reader"
        /\ Op(p) = "readAll" => p = "reader"
    BY <1>2, <1>7, <2>1
  <2>6. EndOf(p) = 4
    BY <1>7 DEF EndOf
  <2>7. Len(Script(p)) + 1 = 4
    BY <2>1
  <2> QED BY <2>2, <2>3, <2>4, <2>5, <2>6, <2>7
<1>8. CASE p \in {"main", "writer1", "writer2"}
  <2>1. /\ a = 1 => Op(p) = "openW"
        /\ a = 2 => Op(p) = "write"
        /\ a = 3 => Op(p) = "close"
        /\ a > 3 => Op(p) = "end"
        /\ Len(Script(p)) = 3
    BY <1>2, <1>3, <1>8, ScriptTable
  <2>2. /\ Op(p) = "openR" <=> OpensR(p, at[p])
        /\ Op(p) = "openW" <=> OpensW(p, at[p])
    BY <1>1, <1>2, <1>8, <2>1 DEF OpensR, OpensW
  <2>3. /\ Op(p) = "write" <=> Writes(p, at[p])
        /\ Op(p) \in {"readOne", "readAll"} <=> Reads(p, at[p])
    BY <1>1, <1>2, <1>8, <2>1 DEF Writes, Reads
  <2>4. /\ Op(p) = "close" <=> Closes(p, at[p])
        /\ Op(p) = "end" <=> at[p] >= EndOf(p)
    BY <1>1, <1>2, <1>8, <2>1 DEF Closes, EndOf
  <2>5. /\ Op(p) = "readOne" => p # "reader"
        /\ Op(p) = "readAll" => p = "reader"
    BY <1>2, <1>8, <2>1
  <2>6. EndOf(p) = 4
    BY <1>8 DEF EndOf
  <2>7. Len(Script(p)) + 1 = 4
    BY <2>1
  <2> QED BY <2>2, <2>3, <2>4, <2>5, <2>6, <2>7
<1> QED BY <1>4, <1>5, <1>6, <1>7, <1>8, ProcNames

(* An end is open from the open() to the close(). *)
LEMMA Spans ==
  ASSUME NEW p \in Procs, NEW a \in 1..7
  PROVE  /\ OpensR(p, a) => /\ HasR(p, a + 1) /\ ~HasW(p, a + 1)
                            /\ ~HasR(p, a) /\ ~HasW(p, a) /\ ~OpensW(p, a)
         /\ OpensW(p, a) => /\ HasW(p, a + 1) /\ ~HasR(p, a + 1)
                            /\ ~HasR(p, a) /\ ~HasW(p, a) /\ ~OpensR(p, a)
         /\ Reads(p, a) => /\ HasR(p, a) /\ HasR(p, a + 1)
                           /\ ~HasW(p, a) /\ ~HasW(p, a + 1)
         /\ Writes(p, a) => /\ HasW(p, a) /\ HasW(p, a + 1)
                            /\ ~HasR(p, a) /\ ~HasR(p, a + 1)
         /\ Closes(p, a) => ~HasR(p, a + 1) /\ ~HasW(p, a + 1)
         /\ Reads(p, a) \/ Writes(p, a) \/ Closes(p, a) =>
               ~OpensR(p, a) /\ ~OpensW(p, a)
         /\ \/ OpensR(p, a) \/ OpensW(p, a) \/ Reads(p, a) \/ Writes(p, a)
            \/ Closes(p, a)
            => a + 1 <= EndOf(p)
         /\ a >= EndOf(p) =>
               ~HasR(p, a) /\ ~HasW(p, a) /\ ~OpensR(p, a) /\ ~OpensW(p, a)
         /\ ~HasR(p, 1) /\ ~HasW(p, 1) /\ EndOf(p) \in {4, 7}
<1>1. a = 1 \/ a = 2 \/ a = 3 \/ a = 4 \/ a = 5 \/ a = 6 \/ a = 7
  OBVIOUS
<1> QED BY <1>1, ProcNames
        DEF OpensR, OpensW, HasR, HasW, Reads, Writes, Closes, EndOf

(* The initial state satisfies the inductive invariant. *)
LEMMA InitIInv == Init => IInv
<1> SUFFICES ASSUME Init PROVE IInv
  OBVIOUS
<1>1. /\ \A p \in Procs : at[p] = 1 /\ got[p] = <<>>
      /\ \A p \in Children : st[p] = "unborn"
      /\ st["main"] = "running"
  BY ProcNames DEF Init
<1>2. TypeOK
  <2>1. /\ st \in [Procs -> {"unborn", "running", "zombie", "reaped"}]
        /\ at \in [Procs -> 1 .. 7]
    BY DEF Init
  <2>2. got \in [Procs -> Seq(Procs)]
    <3>1. <<>> \in Seq(Procs)
      OBVIOUS
    <3> QED BY <3>1 DEF Init
  <2>3. pids \in Seq(Procs \cup {"-1"}) /\ data \in Seq(Procs)
    BY DEF Init
  <2>4. /\ demo \in Demos /\ mpc \in MainPc /\ i \in 1 .. 3
        /\ exists \in BOOLEAN /\ signals \in Nat
    BY DEF Init, Demos, MainPc
  <2> QED BY <2>1, <2>2, <2>3, <2>4 DEF Init, TypeOK
<1>3. EndsInv
  <2>1. \A p \in Procs : ~HasR(p, at[p]) /\ ~HasW(p, at[p])
    BY <1>1, Spans
  <2> QED BY <2>1 DEF Init, EndsInv
<1>4. FreshInv
  BY <1>1, ProcNames DEF Init, FreshInv
<1>5. CastInv
  <2>1. \A k \in DOMAIN Forks(demo) : Forks(demo)[k] = "child"
    BY ForksTable DEF Init
  <2> QED BY <1>1, <2>1, ProcNames DEF Init, CastInv, Coming
<1>6. MainInv /\ CleanedUp
  BY <1>1, ProcNames DEF Init, MainInv, CleanedUp
<1>7. BasicInv
  BY <1>1, ProcNames DEF Init, BasicInv
<1>8. MultiInv
  BY <1>1, ProcNames DEF Init, MultiInv
<1>9. ClisrvInv /\ NoCrossTalk
  BY <1>1, ProcNames DEF Init, ClisrvInv, NoCrossTalk
<1> QED BY <1>2, <1>3, <1>4, <1>5, <1>6, <1>7, <1>8, <1>9 DEF IInv

-----------------------------------------------------------------------------
(* Consequences of the inductive invariant *)

(* The children there are belong to the demonstration main is in. *)
LEMMA Cast ==
  ASSUME IInv, NEW p \in Children, st[p] \in {"running", "zombie"}
  PROVE  \/ demo = "basic" /\ p = "child"
         \/ demo = "multi" /\ p \in {"reader", "writer1", "writer2"}
         \/ demo \in {"nonblock", "clisrv", "end"} /\ p \in {"server", "client"}
<1>1. PICK k \in DOMAIN Forks(demo) : p = Forks(demo)[k]
  BY DEF IInv, CastInv
<1>2. demo \in {"basic", "multi", "nonblock", "clisrv", "end"}
  BY DEF IInv, TypeOK, Demos
<1>3. CASE demo = "basic"
  BY <1>1, <1>3, ForksTable
<1>4. CASE demo = "multi"
  <2>1. k \in 1..3
    BY <1>4, ForksTable
  <2>2. k = 1 \/ k = 2 \/ k = 3
    BY <2>1
  <2> QED BY <1>1, <1>4, <2>2, ForksTable
<1>5. CASE demo \in {"nonblock", "clisrv", "end"}
  <2>1. Forks(demo) = <<"server", "client">>
    BY <1>5, ForksTable
  <2>2. k \in 1..2
    BY <2>1
  <2>3. k = 1 \/ k = 2
    BY <2>2
  <2> QED BY <1>1, <1>5, <2>1, <2>3
<1> QED BY <1>2, <1>3, <1>4, <1>5

(* Main has an end of the FIFO only in the first demonstration. *)
LEMMA MainEnds ==
  ASSUME IInv
  PROVE  "main" \notin readers /\ ("main" \in writers \cup blocked => mpc = "io")
<1>1. "main" \in Procs /\ at["main"] \in 1..7
  BY ProcNames DEF IInv, TypeOK
<1>2. ~HasR("main", at["main"]) /\ ~OpensR("main", at["main"])
  BY DEF HasR, OpensR
<1>3. HasW("main", at["main"]) => at["main"] \in {2, 3}
  BY DEF HasW
<1>4. "main" \notin readers
  BY <1>1, <1>2 DEF IInv, EndsInv
<1>5. "main" \in blocked => mpc = "io"
  BY DEF IInv, MainInv
<1>6. "main" \in writers => HasW("main", at["main"]) \/ "main" \in blocked
  BY <1>1 DEF IInv, EndsInv
<1> QED BY <1>3, <1>4, <1>5, <1>6 DEF IInv, MainInv

(* Without running children nobody has the FIFO open. *)
LEMMA Quiet ==
  ASSUME IInv, mpc # "io", \A p \in Children : st[p] # "running"
  PROVE  readers = {} /\ writers = {} /\ blocked = {} /\ data = <<>>
<1>1. \A p \in readers : p \in Children /\ st[p] = "running"
  BY MainEnds DEF IInv, EndsInv, Children
<1>2. \A p \in writers : p \in Children /\ st[p] = "running"
  BY MainEnds DEF IInv, EndsInv, Children
<1>3. \A p \in blocked : p \in Children /\ st[p] = "running"
  BY MainEnds DEF IInv, EndsInv, TypeOK, Children
<1>4. readers = {} /\ writers = {} /\ blocked = {}
  BY <1>1, <1>2, <1>3
<1> QED BY <1>4 DEF IInv, EndsInv

(* The steps of main that leave a demonstration, and those that go on to   *)
(* the next waitpid().                                                     *)
Waits == WaitNoChild \/ \E p \in Procs : WaitPid(p)
Leaves == \/ MkfifoFails
          \/ ForkFirstFails
          \/ OpenNonblock
          \/ LastWait /\ Waits
WaitsMore == ~LastWait /\ Waits

(* What a waitpid() may collect. *)
LEMMA Waiting ==
  ASSUME IInv, Waits
  PROVE  /\ st["main"] = "running" /\ mpc \in {"wait", "waitErr"}
         /\ AfterWait
         /\ UNCHANGED <<at, blocked, ends, data, got, wrote, sigVars>>
         /\ st' \in [Procs -> {"unborn", "running", "zombie", "reaped"}]
         /\ \A q \in Procs : st'[q] = st[q] \/ (st[q] = "zombie" /\ st'[q] = "reaped")
         /\ \A q \in Children : WaitedFor = q => st'[q] \in {"unborn", "reaped"}
         /\ st'["main"] = "running"
<1>1. "main" \in Procs /\ st \in [Procs -> {"unborn", "running", "zombie", "reaped"}]
  BY ProcNames DEF IInv, TypeOK
<1>2. CASE WaitNoChild
  <2>1. st' = st /\ mpc = "wait" /\ st["main"] = "running"
    BY <1>2 DEF WaitNoChild, MainAt, Able
  <2>2. \A q \in Children : WaitedFor = q => st[q] \in {"unborn", "reaped"}
    BY <1>2 DEF WaitNoChild, Children
  <2> QED BY <1>1, <1>2, <2>1, <2>2 DEF WaitNoChild
<1>3. CASE \E p \in Procs : WaitPid(p)
  <2>1. PICK p \in Procs : WaitPid(p)
    BY <1>3
  <2>2. /\ st["main"] = "running" /\ mpc \in {"wait", "waitErr"}
        /\ st[p] = "zombie" /\ st' = [st EXCEPT ![p] = "reaped"]
        /\ WaitedFor \in {p, "-1"}
    BY <2>1 DEF WaitPid, MainAt, Able
  <2>3. \A q \in Procs : st'[q] = st[q] \/ (st[q] = "zombie" /\ st'[q] = "reaped")
    BY <1>1, <2>2
  <2>4. \A q \in Children : WaitedFor = q => q = p
    BY <2>2, ProcNames
  <2>5. st'[p] = "reaped" /\ p # "main"
    BY <1>1, <2>2
  <2>6. st'["main"] = "running"
    BY <1>1, <2>2, <2>5
  <2>7. st' \in [Procs -> {"unborn", "running", "zombie", "reaped"}]
    BY <1>1, <2>2
  <2>8. AfterWait /\ UNCHANGED <<at, blocked, ends, data, got, wrote, sigVars>>
    BY <2>1 DEF WaitPid
  <2> QED BY <2>2, <2>3, <2>4, <2>5, <2>6, <2>7, <2>8
<1> QED BY <1>2, <1>3 DEF Waits

(* The pid the next waitpid() is for. *)
LEMMA NextWait ==
  ASSUME IInv, mpc \in {"wait", "waitErr"}
  PROVE  /\ demo = "basic" => Len(pids) = 1 /\ i = 1 /\ WaitedFor = "child"
         /\ demo = "multi" =>
              /\ Len(pids) = 3 /\ i \in {1, 2, 3}
              /\ i = 1 => WaitedFor = pids[2]
              /\ i = 2 => WaitedFor = pids[3]
              /\ i = 3 => WaitedFor = "reader"
         /\ demo = "clisrv" =>
              /\ Len(pids) \in {1, 2} /\ i \in {1, 2} /\ i <= Len(pids)
              /\ i = 1 => WaitedFor = "server"
              /\ i = 2 => WaitedFor = "client"
         /\ demo \in {"basic", "multi", "clisrv"}
         /\ mpc = "waitErr" => demo = "basic"
<1>1. i \in 1..3
  BY DEF IInv, TypeOK
<1>2. demo \in {"basic", "multi", "clisrv"} /\ (mpc = "waitErr" => demo = "basic")
  BY DEF IInv, MainInv
<1>3. CASE demo = "basic"
  <2>1. /\ Len(pids) = 1 /\ pids[1] = "child"
        /\ i = 1 \/ i \in 1..Len(pids)
    BY <1>3 DEF IInv, MainInv
  <2>2. i = 1
    BY <1>1, <2>1
  <2> QED BY <1>2, <1>3, <2>1, <2>2 DEF WaitedFor
<1>4. CASE demo = "multi"
  <2>1. mpc = "wait"
    BY <1>2, <1>4
  <2>2. Len(pids) = 3 /\ pids[1] = "reader"
    BY <1>4, <2>1 DEF IInv, MainInv
  <2>3. i = 1 \/ i = 2 \/ i = 3
    BY <1>1
  <2> QED BY <1>2, <1>4, <2>2, <2>3 DEF WaitedFor
<1>5. CASE demo = "clisrv"
  <2>1. mpc = "wait"
    BY <1>2, <1>5
  <2>2. /\ Len(pids) \in {1, 2} /\ pids[1] = "server"
        /\ Len(pids) = 2 => pids[2] = "client"
        /\ i \in 1..Len(pids)
    BY <1>5, <2>1 DEF IInv, MainInv
  <2>3. CASE Len(pids) = 1
    BY <1>1, <1>2, <1>5, <2>2, <2>3 DEF WaitedFor
  <2>4. CASE Len(pids) = 2
    BY <1>1, <1>2, <1>5, <2>2, <2>4 DEF WaitedFor
  <2> QED BY <2>2, <2>3, <2>4
<1> QED BY <1>2, <1>3, <1>4, <1>5

(* After the last waitpid() of a demonstration no child is left. *)
LEMMA LastWaiting ==
  ASSUME IInv, Waits, LastWait, NEW q \in Children
  PROVE  st'[q] \in {"unborn", "reaped"}
<1>1. /\ mpc \in {"wait", "waitErr"}
      /\ st \in [Procs -> {"unborn", "running", "zombie", "reaped"}]
      /\ st' \in [Procs -> {"unborn", "running", "zombie", "reaped"}]
      /\ \A r \in Procs : st'[r] = st[r] \/ (st[r] = "zombie" /\ st'[r] = "reaped")
      /\ \A r \in Children : WaitedFor = r => st'[r] \in {"unborn", "reaped"}
  BY Waiting DEF IInv, TypeOK
<1>2. q \in Procs
  BY DEF Children
<1>3. SUFFICES ASSUME st[q] \in {"running", "zombie"} PROVE st'[q] = "reaped"
  BY <1>1, <1>2
<1>4. WaitedFor = q => st'[q] = "reaped"
  BY <1>1, <1>2, <1>3
<1>5. i = Len(pids)
  BY DEF LastWait
<1>6. CASE demo = "basic"
  BY <1>1, <1>3, <1>4, <1>6, Cast, NextWait
<1>7. CASE demo = "multi"
  <2>1. i = 3 /\ WaitedFor = "reader" /\ mpc = "wait"
    BY <1>1, <1>5, <1>7, NextWait
  <2>2. st["writer1"] \in {"unborn", "reaped"} /\ st["writer2"] \in {"unborn", "reaped"}
    BY <1>7, <2>1 DEF IInv, MainInv
  <2> QED BY <1>3, <1>4, <1>7, <2>1, <2>2, Cast
<1>8. CASE demo = "clisrv"
  <2>1. mpc = "wait"
    BY <1>1, <1>8, NextWait
  <2>2. CASE i = 1
    <3>1. WaitedFor = "server" /\ st["client"] = "unborn"
      BY <1>1, <1>5, <1>8, <2>1, <2>2, NextWait DEF IInv, MainInv
    <3> QED BY <1>3, <1>4, <1>8, <3>1, Cast
  <2>3. CASE i = 2
    <3>1. WaitedFor = "client" /\ st["server"] \in {"unborn", "reaped"}
      BY <1>1, <1>8, <2>1, <2>3, NextWait DEF IInv, MainInv
    <3> QED BY <1>3, <1>4, <1>8, <3>1, Cast
  <2> QED BY <1>1, <1>8, <2>2, <2>3, NextWait
<1> QED BY <1>1, <1>6, <1>7, <1>8, NextWait

(* Main leaves a demonstration when none of its children is left. *)
LEMMA Leaving ==
  ASSUME IInv, Leaves
  PROVE  /\ Leave
         /\ demo \in {"basic", "multi", "nonblock", "clisrv"}
         /\ mpc \in {"mkfifo", "fork", "open", "wait", "waitErr"}
         /\ \A q \in Procs : st'[q] = st[q] \/ (st[q] = "zombie" /\ st'[q] = "reaped")
         /\ \A q \in Children : st'[q] \in {"unborn", "reaped"}
         /\ st["main"] = "running" /\ st'["main"] = "running"
         /\ st' \in [Procs -> {"unborn", "running", "zombie", "reaped"}]
         /\ exists' \in BOOLEAN
         /\ UNCHANGED <<at, blocked, ends, data, got, wrote, sigVars>>
<1> USE DEF IInv
<1>1. /\ "main" \in Procs /\ exists \in BOOLEAN
      /\ st \in [Procs -> {"unborn", "running", "zombie", "reaped"}]
  BY ProcNames DEF TypeOK
<1>2. CASE MkfifoFails
  <2>1. /\ st["main"] = "running" /\ mpc = "mkfifo" /\ Leave
        /\ UNCHANGED <<st, at, blocked, exists, ends, data, got, wrote, sigVars>>
    BY <1>2 DEF MkfifoFails, MainAt, Able
  <2>2. /\ demo \in {"basic", "multi", "nonblock", "clisrv"}
        /\ \A q \in Children : st[q] \in {"unborn", "reaped"}
    BY <2>1 DEF MainInv, TypeOK, Demos, CastInv
  <2> QED BY <1>1, <2>1, <2>2
<1>3. CASE ForkFirstFails
  <2>1. /\ st["main"] = "running" /\ mpc = "fork" /\ i = 1 /\ Leave
        /\ exists' \in BOOLEAN
        /\ UNCHANGED <<st, at, blocked, ends, data, got, wrote, sigVars>>
    BY <1>1, <1>3 DEF ForkFirstFails, MainAt, Able
  <2>2. demo \in {"basic", "multi", "clisrv"}
    BY <2>1 DEF MainInv
  <2>3. \A k \in DOMAIN Forks(demo) : k >= 1 => st[Forks(demo)[k]] = "unborn"
    BY <2>1 DEF CastInv
  <2>4. \A k \in DOMAIN Forks(demo) : k >= 1
    BY <2>2, ForksTable
  <2>5. \A q \in Children : st[q] \notin {"running", "zombie"}
    BY <2>3, <2>4 DEF CastInv
  <2>6. \A q \in Children : st[q] \in {"unborn", "reaped"}
    BY <1>1, <2>5 DEF Children
  <2> QED BY <1>1, <2>1, <2>2, <2>6
<1>4. CASE OpenNonblock
  <2>1. /\ st["main"] = "running" /\ mpc = "open"
        /\ UNCHANGED <<st, at, blocked, exists, ends, data, got, wrote, sigVars>>
    BY <1>4 DEF OpenNonblock, MainAt, Able
  <2>2. demo = "nonblock" /\ \A q \in Children : st[q] \in {"unborn", "reaped"}
    BY <2>1 DEF MainInv, CastInv
  <2>3. readers = {}
    BY <2>1, <2>2, Quiet
  <2>4. Leave
    BY <1>4, <2>3 DEF OpenNonblock
  <2> QED BY <1>1, <2>1, <2>2, <2>4
<1>5. CASE LastWait /\ Waits
  <2>1. /\ st["main"] = "running" /\ mpc \in {"wait", "waitErr"} /\ AfterWait
        /\ UNCHANGED <<at, blocked, ends, data, got, wrote, sigVars>>
        /\ st' \in [Procs -> {"unborn", "running", "zombie", "reaped"}]
        /\ \A q \in Procs : st'[q] = st[q] \/ (st[q] = "zombie" /\ st'[q] = "reaped")
        /\ st'["main"] = "running"
    BY <1>5, Waiting
  <2>2. Leave /\ exists' \in BOOLEAN
    BY <1>1, <1>5, <2>1 DEF AfterWait
  <2>3. \A q \in Children : st'[q] \in {"unborn", "reaped"}
    BY <1>5, LastWaiting
  <2>4. demo \in {"basic", "multi", "clisrv"}
    BY <2>1, NextWait
  <2> QED BY <2>1, <2>2, <2>3, <2>4
<1> QED BY <1>2, <1>3, <1>4, <1>5 DEF Leaves

(* Main goes on to its next waitpid(). *)
LEMMA WaitingMore ==
  ASSUME IInv, WaitsMore
  PROVE  /\ mpc = "wait" /\ demo \in {"multi", "clisrv"}
         /\ i \in {1, 2} /\ i < Len(pids) /\ i' = i + 1
         /\ UNCHANGED <<demo, mpc, pids, exists, at, blocked, ends, data, got,
                        wrote, sigVars>>
         /\ demo = "multi" /\ i = 1 => st'["writer1"] \in {"unborn", "reaped"}
         /\ demo = "multi" /\ i = 2 => st'["writer2"] \in {"unborn", "reaped"}
         /\ demo = "clisrv" => i = 1 /\ st'["server"] \in {"unborn", "reaped"}
<1>1. /\ mpc \in {"wait", "waitErr"} /\ AfterWait
      /\ UNCHANGED <<at, blocked, ends, data, got, wrote, sigVars>>
      /\ st' \in [Procs -> {"unborn", "running", "zombie", "reaped"}]
      /\ \A q \in Procs : st'[q] = st[q] \/ (st[q] = "zombie" /\ st'[q] = "reaped")
      /\ \A q \in Children : WaitedFor = q => st'[q] \in {"unborn", "reaped"}
  BY Waiting DEF WaitsMore
<1>2. i # Len(pids) /\ i' = i + 1 /\ UNCHANGED <<demo, mpc, pids, exists>>
  BY <1>1 DEF WaitsMore, AfterWait, LastWait
<1>3. mpc = "wait" /\ demo \in {"multi", "clisrv"}
  BY <1>1, <1>2, NextWait
<1>4. CASE demo = "multi"
  <2>1. /\ Len(pids) = 3 /\ i \in {1, 2}
        /\ i = 1 => WaitedFor = pids[2]
        /\ i = 2 => WaitedFor = pids[3]
    BY <1>1, <1>2, <1>4, NextWait
  <2>2. /\ pids[2] \in {"writer1", "-1"} /\ pids[3] \in {"writer2", "-1"}
        /\ pids[2] = "-1" => st["writer1"] = "unborn"
        /\ pids[3] = "-1" => st["writer2"] = "unborn"
    BY <1>3, <1>4 DEF IInv, MainInv
  <2>3. i = 1 => st'["writer1"] \in {"unborn", "reaped"}
    BY <1>1, <2>1, <2>2, ProcNames
  <2>4. i = 2 => st'["writer2"] \in {"unborn", "reaped"}
    BY <1>1, <2>1, <2>2, ProcNames
  <2> QED BY <1>1, <1>2, <1>3, <1>4, <2>1, <2>3, <2>4
<1>5. CASE demo = "clisrv"
  <2>0. /\ Len(pids) \in {1, 2} /\ i \in {1, 2} /\ i <= Len(pids)
        /\ i = 1 => WaitedFor = "server"
    BY <1>1, <1>5, NextWait
  <2>1. i = 1 /\ Len(pids) = 2 /\ WaitedFor = "server"
    BY <1>2, <2>0
  <2>2. st'["server"] \in {"unborn", "reaped"}
    BY <1>1, <2>1, ProcNames
  <2> QED BY <1>1, <1>2, <1>3, <1>5, <2>1, <2>2
<1> QED BY <1>3, <1>4, <1>5

(* The next process to fork has not been forked. *)
LEMMA Forking ==
  ASSUME IInv, mpc = "fork"
  PROVE  LET f == Forks(demo)[i]
             n == Len(Forks(demo))
         IN  /\ \/ demo = "basic" /\ n = 1 /\ i = 1 /\ f = "child"
                \/ demo = "multi" /\ n = 3 /\ i = 1 /\ f = "reader"
                \/ demo = "multi" /\ n = 3 /\ i = 2 /\ f = "writer1"
                \/ demo = "multi" /\ n = 3 /\ i = 3 /\ f = "writer2"
                \/ demo = "clisrv" /\ n = 2 /\ i = 1 /\ f = "server"
                \/ demo = "clisrv" /\ n = 2 /\ i = 2 /\ f = "client"
             /\ st[f] = "unborn"
             /\ i \in DOMAIN Forks(demo)
<1>1. demo \in {"basic", "multi", "clisrv"} /\ i \in 1..Len(Forks(demo))
  BY DEF IInv, MainInv
<1>2. i \in 1..3 /\ \A k \in DOMAIN Forks(demo) : k >= i => st[Forks(demo)[k]] = "unborn"
  BY DEF IInv, CastInv, TypeOK
<1>3. i = 1 \/ i = 2 \/ i = 3
  BY <1>2
<1>4. CASE demo = "basic"
  <2>1. i = 1
    BY <1>1, <1>4, ForksTable
  <2> QED BY <1>2, <1>4, <2>1, ForksTable
<1>5. CASE demo = "multi"
  BY <1>2, <1>3, <1>5, ForksTable
<1>6. CASE demo = "clisrv"
  <2>1. Forks(demo) = <<"server", "client">>
    BY <1>6, ForksTable
  <2>2. i = 1 \/ i = 2
    BY <1>1, <1>3, <2>1
  <2> QED BY <1>2, <1>6, <2>1, <2>2
<1> QED BY <1>1, <1>4, <1>5, <1>6

(* A process that acts is one of the demonstration's, and main only writes *)
(* in the first one.                                                       *)
LEMMA Acting ==
  ASSUME IInv, NEW p \in Procs, Active(p)
  PROVE  /\ st[p] = "running" /\ p \notin pend /\ p \notin blocked
         /\ p = "main" => mpc = "io"
         /\ p # "main" => mpc \notin {"mkfifo", "open", "unlink", "exited"}
         /\ \/ demo = "basic" /\ p \in {"main", "child"}
            \/ demo = "multi" /\ p \in {"reader", "writer1", "writer2"}
            \/ demo = "clisrv" /\ p \in {"server", "client"}
<1>1. /\ st[p] = "running" /\ p \notin pend /\ p \notin blocked
      /\ p = "main" => mpc = "io"
  BY DEF Active, Able
<1>2. CASE p = "main"
  BY <1>1, <1>2 DEF IInv, MainInv
<1>3. CASE p # "main"
  <2>1. p \in Children
    BY <1>3 DEF Children
  <2>2. mpc \notin {"mkfifo", "open", "unlink", "exited"}
    BY <1>1, <2>1 DEF IInv, CastInv
  <2>3. demo \in {"basic", "multi", "clisrv"}
    BY <2>2 DEF IInv, MainInv, TypeOK, MainPc
  <2> QED BY <1>1, <1>3, <2>1, <2>2, <2>3, Cast
<1> QED BY <1>2, <1>3

(* The steps in which a process comes to its end. *)
Dies(p) ==
    \/ p # "main" /\ OpenFails(p)
    \/ WriteBroken(p)
    \/ Exit(p)
    \/ cleanup_handler(p)

(* A process that ends was running; when it is main, the FIFO is gone:     *)
(* SIGPIPE can hit main only after a handler in the child.                 *)
LEMMA Dying ==
  ASSUME IInv, NEW p \in Procs, Dies(p)
  PROVE  /\ st[p] = "running" /\ Die(p)
         /\ pend' = pend \ {p}
         /\ exists' = exists \/ exists' = FALSE
         /\ p = "main" => ~exists'
         /\ UNCHANGED <<mainVars, at, got, wrote, signals>>
<1>1. CASE p # "main" /\ OpenFails(p)
  <2>1. st[p] = "running" /\ p \notin pend
    BY <1>1 DEF OpenFails, Active, Able
  <2> QED BY <1>1, <2>1 DEF OpenFails, mainVars, sigVars
<1>2. CASE WriteBroken(p)
  <2>1. st[p] = "running" /\ p \notin pend /\ readers = {} /\ Op(p) = "write"
    BY <1>2 DEF WriteBroken, Active, Able
  <2>2. p = "main" => ~exists
    <3> SUFFICES ASSUME p = "main", exists PROVE FALSE
      OBVIOUS
    <3>1. mpc = "io" /\ st["main"] = "running"
      BY <1>2 DEF WriteBroken, Active, Able
    <3>2. at["main"] = 2
      BY <2>1, OpTable DEF Writes, IInv
    <3>3. st["child"] = "running" /\ at["child"] = 2
      BY <3>1, <3>2 DEF IInv, BasicInv
    <3>4. "child" \in readers
      BY <3>3, ProcNames DEF IInv, EndsInv, HasR
    <3> QED BY <2>1, <3>4
  <2> QED BY <1>2, <2>1, <2>2 DEF WriteBroken, mainVars, sigVars
<1>3. CASE Exit(p)
  <2>1. st[p] = "running" /\ p \notin pend /\ p # "main"
    BY <1>3 DEF Exit, Active, Able
  <2> QED BY <1>3, <2>1 DEF Exit, mainVars, sigVars
<1>4. CASE cleanup_handler(p)
  <2>1. st[p] = "running"
    BY <1>4 DEF cleanup_handler, IInv, FreshInv, Live
  <2> QED BY <1>4, <2>1 DEF cleanup_handler, mainVars
<1> QED BY <1>1, <1>2, <1>3, <1>4 DEF Dies

(* open() waits for the other end, or lets all that wait go on. *)
LEMMA Opening ==
  ASSUME IInv, NEW p \in Procs, Open(p)
  PROVE  /\ Active(p) /\ exists
         /\ UNCHANGED <<mainVars, st, exists, data, got, wrote, sigVars>>
         /\ \/ OpensR(p, at[p]) /\ readers' = readers \cup {p} /\ writers' = writers
            \/ OpensW(p, at[p]) /\ writers' = writers \cup {p} /\ readers' = readers
         /\ \/ /\ blocked' = blocked \cup {p} /\ at' = at
               /\ OpensR(p, at[p]) => writers = {}
               /\ OpensW(p, at[p]) => readers = {}
            \/ /\ blocked' = {} /\ Advance(blocked \cup {p})
               /\ OpensR(p, at[p]) => writers # {}
               /\ OpensW(p, at[p]) => readers # {}
<1>1. Active(p) /\ exists /\ UNCHANGED <<mainVars, st, exists, data, got, wrote, sigVars>>
  BY DEF Open
<1>2. at[p] \in 1..7
  BY DEF IInv, TypeOK
<1>3. ~(OpensR(p, at[p]) /\ OpensW(p, at[p]))
  BY <1>2, Spans
<1>4. CASE Op(p) = "openR"
  <2>1. OpensR(p, at[p])
    BY <1>4, OpTable DEF IInv
  <2>2. readers' = readers \cup {p} /\ writers' = writers /\ OpenEnd(p, writers)
    BY <1>4 DEF Open
  <2> QED BY <1>1, <1>3, <2>1, <2>2 DEF OpenEnd
<1>5. CASE Op(p) = "openW"
  <2>1. OpensW(p, at[p])
    BY <1>5, OpTable DEF IInv
  <2>2. writers' = writers \cup {p} /\ readers' = readers /\ OpenEnd(p, readers)
    BY <1>5 DEF Open
  <2> QED BY <1>1, <1>3, <2>1, <2>2 DEF OpenEnd
<1> QED BY <1>4, <1>5 DEF Open

(* A process with a reading or a writing end is at the place for it. *)
LEMMA Holding ==
  ASSUME IInv, NEW q \in Procs
  PROVE  /\ q \in readers => /\ st[q] = "running"
                             /\ \/ HasR(q, at[q])
                                \/ q \in blocked /\ OpensR(q, at[q])
         /\ q \in writers => /\ st[q] = "running"
                             /\ \/ HasW(q, at[q])
                                \/ q \in blocked /\ OpensW(q, at[q])
         /\ q \in blocked => /\ st[q] = "running"
                             /\ OpensR(q, at[q]) \/ OpensW(q, at[q])
                             /\ OpensR(q, at[q]) => writers = {}
                             /\ OpensW(q, at[q]) => readers = {}
<1>1. at[q] \in 1..7
  BY DEF IInv, TypeOK
<1>2. ~(OpensR(q, at[q]) /\ OpensW(q, at[q]))
  BY <1>1, Spans
<1> QED BY <1>2 DEF IInv, EndsInv

(* A running process, main outside the first demonstration excepted, is in *)
(* the cast.                                                               *)
LEMMA Running ==
  ASSUME IInv, NEW q \in Procs, st[q] = "running", q = "main" => mpc = "io"
  PROVE  /\ demo = "basic" => q \in {"main", "child"}
         /\ demo = "multi" => q \in {"reader", "writer1", "writer2"}
         /\ demo = "clisrv" => q \in {"server", "client"}
<1>1. CASE q = "main"
  BY <1>1 DEF IInv, MainInv
<1>2. CASE q # "main"
  BY <1>2, Cast DEF Children
<1> QED BY <1>1, <1>2

(* Who meets in an open(): main and the child in the first demonstration,  *)
(* the reader or its successor and writers in the second, the server and   *)
(* the client, both at their first or both at their second open(), in the  *)
(* last.                                                                   *)
LEMMA Meeting ==
  ASSUME IInv, NEW p \in Procs, Open(p),
         OpensR(p, at[p]) => writers # {},
         OpensW(p, at[p]) => readers # {}
  PROVE  LET B == blocked \cup {p}
         IN  /\ demo = "basic" =>
                  /\ B \subseteq {"main", "child"}
                  /\ "child" \in B /\ at["child"] = 1
                  /\ "main" \in B \/ at["main"] \in {2, 3}
                  /\ "main" \in B => at["main"] = 1
             /\ demo = "multi" =>
                  /\ B \subseteq {"reader", "writer1", "writer2"}
                  /\ \A q \in B : at[q] = 1
                  /\ "reader" \in B \/ at["reader"] \in {2, 3}
             /\ demo = "clisrv" =>
                  /\ B = {"server", "client"}
                  /\ at["server"] = at["client"]
                  /\ at["server"] \in {1, 4}
             /\ demo \in {"basic", "multi", "clisrv"}
<1> DEFINE B == blocked \cup {p}
<1>1. /\ Active(p) /\ exists
      /\ OpensR(p, at[p]) \/ OpensW(p, at[p])
      /\ p \notin blocked /\ st[p] = "running"
      /\ p = "main" => mpc = "io"
      /\ demo \in {"basic", "multi", "clisrv"}
  BY Opening, Acting
<1>2. blocked \subseteq Procs
  BY DEF IInv, TypeOK
<1>3. \A q \in B : /\ q \in Procs /\ st[q] = "running"
                   /\ q = "main" => mpc = "io"
                   /\ OpensR(q, at[q]) \/ OpensW(q, at[q])
  BY <1>1, <1>2, Holding, MainEnds
<1>4. \A q \in B : /\ demo = "basic" => q \in {"main", "child"}
                   /\ demo = "multi" => q \in {"reader", "writer1", "writer2"}
                   /\ demo = "clisrv" => q \in {"server", "client"}
  BY <1>3, Running
<1>5. \A q \in readers \cup writers :
         /\ q \in Procs /\ st[q] = "running"
         /\ demo = "basic" => q \in {"main", "child"}
         /\ demo = "multi" => q \in {"reader", "writer1", "writer2"}
         /\ demo = "clisrv" => q \in {"server", "client"}
  <2>1. readers \cup writers \subseteq Procs
    BY DEF IInv, TypeOK
  <2> QED BY <2>1, Holding, MainEnds, Running
<1> HIDE DEF B
<1>6. p \in B /\ blocked \subseteq B
  BY DEF B
<1>7. CASE demo = "basic"
  <2>1. "main" \in Procs /\ "child" \in Procs
    BY ProcNames
  <2>2. "child" \in B => at["child"] = 1
    BY <1>3 DEF OpensR, OpensW
  <2>3. "main" \in B => at["main"] = 1
    BY <1>3 DEF OpensR, OpensW
  <2>4. CASE p = "child"
    <3>1. OpensR(p, at[p])
      BY <1>1, <2>4 DEF OpensW
    <3>2. PICK q : q \in writers
      BY <3>1
    <3>3. HasW(q, at[q]) \/ (q \in blocked /\ OpensW(q, at[q]))
      BY <1>5, <3>2, Holding
    <3>4. q = "main"
      BY <1>5, <1>7, <3>2, <3>3 DEF HasW, OpensW
    <3>5. "main" \in B \/ at["main"] \in {2, 3}
      BY <1>6, <3>3, <3>4 DEF HasW
    <3> QED BY <1>1, <1>4, <1>6, <1>7, <2>2, <2>3, <2>4, <3>5 DEF B
  <2>5. CASE p = "main"
    <3>1. OpensW(p, at[p])
      BY <1>1, <2>5 DEF OpensR
    <3>2. PICK q : q \in readers
      BY <3>1
    <3>3. HasR(q, at[q]) \/ (q \in blocked /\ OpensR(q, at[q]))
      BY <1>5, <3>2, Holding
    <3>4. q = "child"
      BY <1>5, <1>7, <3>2, <3>3 DEF HasR, OpensR
    <3>5. at["main"] = 1
      BY <1>6, <2>3, <2>5
    <3>6. at["child"] = 1
      BY <3>5 DEF IInv, BasicInv
    <3>7. "child" \in B
      BY <1>6, <3>3, <3>4, <3>6 DEF HasR
    <3> QED BY <1>1, <1>4, <1>6, <1>7, <2>2, <2>3, <2>5, <3>7 DEF B
  <2> QED BY <1>4, <1>6, <1>7, <2>4, <2>5
<1>8. CASE demo = "multi"
  <2>1. \A q \in B : at[q] = 1
    BY <1>3, <1>4, <1>8 DEF OpensR, OpensW
  <2>2. "reader" \in B \/ at["reader"] \in {2, 3}
    <3> SUFFICES ASSUME p # "reader" PROVE "reader" \in B \/ at["reader"] \in {2, 3}
      BY <1>6
    <3>1. OpensW(p, at[p])
      BY <1>1, <1>4, <1>6, <1>8 DEF OpensR
    <3>2. PICK q : q \in readers
      BY <3>1
    <3>3. HasR(q, at[q]) \/ (q \in blocked /\ OpensR(q, at[q]))
      BY <1>5, <3>2, Holding
    <3>4. q = "reader"
      BY <1>5, <1>8, <3>2, <3>3 DEF HasR, OpensR
    <3> QED BY <1>6, <3>3, <3>4 DEF HasR
  <2> QED BY <1>1, <1>4, <1>8, <2>1, <2>2 DEF B
<1>9. CASE demo = "clisrv"
  <2> DEFINE s == at["server"]
             c == at["client"]
  <2>1. /\ s = 1 <=> c = 1
        /\ s <= 4 <=> c <= 4
        /\ s \in 1..7 /\ c \in 1..7
    BY ProcNames DEF IInv, ClisrvInv, TypeOK
  <2>2. CASE p = "server"
    <3>1. CASE OpensR(p, s)
      <4>1. s = 1 /\ c = 1
        BY <2>1, <2>2, <3>1 DEF OpensR
      <4>2. PICK q : q \in writers
        BY <2>2, <3>1
      <4>3. HasW(q, at[q]) \/ (q \in blocked /\ OpensW(q, at[q]))
        BY <1>5, <4>2, Holding
      <4>4. q = "client"
        BY <1>5, <1>9, <4>1, <4>2, <4>3 DEF HasW, OpensW
      <4>5. "client" \in B
        BY <1>6, <4>1, <4>3, <4>4 DEF HasW
      <4> QED BY <1>1, <1>4, <1>6, <1>9, <2>2, <4>1, <4>5 DEF B
    <3>2. CASE OpensW(p, s)
      <4>1. s = 4 /\ c <= 4
        BY <2>1, <2>2, <3>2 DEF OpensW
      <4>2. PICK q : q \in readers
        BY <2>2, <3>2
      <4>3. HasR(q, at[q]) \/ (q \in blocked /\ OpensR(q, at[q]))
        BY <1>5, <4>2, Holding
      <4>4. q = "client"
        BY <1>5, <1>9, <4>1, <4>2, <4>3 DEF HasR, OpensR
      <4>5. "client" \in B /\ c = 4
        BY <1>6, <2>1, <4>1, <4>3, <4>4 DEF HasR, OpensR
      <4> QED BY <1>1, <1>4, <1>6, <1>9, <2>2, <4>1, <4>5 DEF B
    <3> QED BY <1>1, <2>2, <3>1, <3>2
  <2>3. CASE p = "client"
    <3>1. CASE OpensW(p, c)
      <4>1. s = 1 /\ c = 1
        BY <2>1, <2>3, <3>1 DEF OpensW
      <4>2. PICK q : q \in readers
        BY <2>3, <3>1
      <4>3. HasR(q, at[q]) \/ (q \in blocked /\ OpensR(q, at[q]))
        BY <1>5, <4>2, Holding
      <4>4. q = "server"
        BY <1>5, <1>9, <4>1, <4>2, <4>3 DEF HasR, OpensR
      <4>5. "server" \in B
        BY <1>6, <4>1, <4>3, <4>4 DEF HasR
      <4> QED BY <1>1, <1>4, <1>6, <1>9, <2>3, <4>1, <4>5 DEF B
    <3>2. CASE OpensR(p, c)
      <4>1. c = 4 /\ s <= 4
        BY <2>1, <2>3, <3>2 DEF OpensR
      <4>2. PICK q : q \in writers
        BY <2>3, <3>2
      <4>3. HasW(q, at[q]) \/ (q \in blocked /\ OpensW(q, at[q]))
        BY <1>5, <4>2, Holding
      <4>4. q = "server"
        BY <1>5, <1>9, <4>1, <4>2, <4>3 DEF HasW, OpensW
      <4>5. "server" \in B /\ s = 4
        BY <1>6, <2>1, <4>1, <4>3, <4>4 DEF HasW, OpensW
      <4> QED BY <1>1, <1>4, <1>6, <1>9, <2>3, <4>1, <4>5 DEF B
    <3> QED BY <1>1, <2>3, <3>1, <3>2
  <2> QED BY <1>4, <1>6, <1>9, <2>2, <2>3
<1> QED BY <1>1, <1>7, <1>8, <1>9 DEF B

(* The steps, grouped by what they do to the FIFO and the processes. *)
LEMMA Steps ==
  ASSUME [Next]_vars
  PROVE  \/ Mkfifo \/ Fork \/ ForkLaterFails \/ IoDone \/ Unlink \/ Leaves
         \/ WaitsMore \/ Signal \/ OpenFails("main")
         \/ \E p \in Procs : \/ Open(p) \/ Dies(p) \/ Write(p) \/ Read(p)
                             \/ ReadEof(p) \/ Close(p)
         \/ UNCHANGED vars
<1>1. CASE MainStep
  BY <1>1 DEF MainStep, Leaves, WaitsMore, Waits
<1>2. CASE \E p \in Procs : FifoStep(p)
  BY <1>2 DEF FifoStep, Dies
<1> QED BY <1>1, <1>2 DEF Next

(* The place of each process after an Advance. *)
LEMMA Advancing ==
  ASSUME TypeOK, NEW S, Advance(S)
  PROVE  /\ at' = [q \in Procs |-> at'[q]]
         /\ \A q \in Procs : /\ at[q] \in 1..7
                             /\ q \in S => at'[q] = at[q] + 1
                             /\ q \notin S => at'[q] = at[q]
<1>1. at \in [Procs -> 1..7]
  BY DEF TypeOK
<1> QED BY <1>1 DEF Advance

(* The calls on an open FIFO. *)
Moves(p) == Write(p) \/ Read(p) \/ ReadEof(p) \/ Close(p)

(* write(), read() and close() leave the processes alone and move at most  *)
(* the caller.                                                             *)
LEMMA Moving ==
  ASSUME IInv, NEW p \in Procs, Moves(p)
  PROVE  /\ Active(p)
         /\ UNCHANGED <<mainVars, st, blocked, exists, sigVars>>
         /\ at' \in [Procs -> 1..7]
         /\ \A q \in Procs \ {p} : at'[q] = at[q]
         /\ at'[p] = at[p] + 1 \/ (p = "reader" /\ at'[p] = at[p])
         /\ Write(p) => Writes(p, at[p]) /\ at'[p] = at[p] + 1
         /\ Read(p) \/ ReadEof(p) => Reads(p, at[p])
         /\ Read(p) => (p # "reader" => at'[p] = at[p] + 1)
                       /\ (p = "reader" => at'[p] = at[p])
         /\ ReadEof(p) => at'[p] = at[p] + 1
         /\ Close(p) => Closes(p, at[p]) /\ at'[p] = at[p] + 1
         /\ Writes(p, at[p]) \/ Reads(p, at[p]) \/ Closes(p, at[p])
<1>0. TypeOK /\ at[p] \in 1..7 /\ at \in [Procs -> 1..7]
  BY DEF IInv, TypeOK
<1>1. ASSUME NEW S, S = {p} \/ S = {}, Advance(S),
             Writes(p, at[p]) \/ Reads(p, at[p]) \/ Closes(p, at[p])
      PROVE  /\ at' \in [Procs -> 1..7]
             /\ \A q \in Procs \ {p} : at'[q] = at[q]
             /\ S = {p} => at'[p] = at[p] + 1
             /\ S = {} => at'[p] = at[p]
  <2>1. /\ at' = [q \in Procs |-> at'[q]]
        /\ \A q \in Procs : /\ at[q] \in 1..7
                            /\ q \in S => at'[q] = at[q] + 1
                            /\ q \notin S => at'[q] = at[q]
    BY <1>0, <1>1, Advancing
  <2>2. at[p] + 1 \in 1..7
    <3>1. at[p] + 1 <= EndOf(p) /\ EndOf(p) \in {4, 7}
      BY <1>0, <1>1, Spans
    <3> QED BY <1>0, <3>1
  <2>3. \A q \in Procs : at'[q] \in 1..7
    BY <1>0, <1>1, <2>1, <2>2
  <2> QED BY <1>1, <2>1, <2>3
<1>2. CASE Write(p)
  <2>1. Writes(p, at[p]) /\ Advance({p}) /\ Active(p)
        /\ UNCHANGED <<mainVars, st, blocked, exists, sigVars>>
    BY <1>0, <1>2, OpTable DEF Write
  <2>2. ~Read(p) /\ ~ReadEof(p) /\ ~Close(p)
    BY <1>2 DEF Write, Read, ReadEof, Close
  <2> QED BY <1>1, <1>2, <2>1, <2>2
<1>3. CASE Read(p)
  <2>1. Reads(p, at[p]) /\ Active(p)
        /\ UNCHANGED <<mainVars, st, blocked, exists, sigVars>>
    BY <1>0, <1>3, OpTable DEF Read
  <2>2. ~Write(p) /\ ~ReadEof(p) /\ ~Close(p)
    BY <1>3 DEF Write, Read, ReadEof, Close
  <2>3. /\ p # "reader" => Advance({p})
        /\ p = "reader" => Advance({})
    BY <1>0, <1>3, OpTable DEF Read
  <2> QED BY <1>1, <1>3, <2>1, <2>2, <2>3
<1>4. CASE ReadEof(p)
  <2>1. Reads(p, at[p]) /\ Advance({p}) /\ Active(p)
        /\ UNCHANGED <<mainVars, st, blocked, exists, sigVars>>
    BY <1>0, <1>4, OpTable DEF ReadEof
  <2>2. ~Read(p) /\ ~Write(p) /\ ~Close(p)
    BY <1>4 DEF Write, Read, ReadEof, Close
  <2> QED BY <1>1, <1>4, <2>1, <2>2
<1>5. CASE Close(p)
  <2>1. Closes(p, at[p]) /\ Advance({p}) /\ Active(p)
        /\ UNCHANGED <<mainVars, st, blocked, exists, sigVars>>
    BY <1>0, <1>5, OpTable DEF Close
  <2>2. ~Read(p) /\ ~Write(p) /\ ~ReadEof(p)
    BY <1>5 DEF Write, Read, ReadEof, Close
  <2> QED BY <1>1, <1>5, <2>1, <2>2
<1> QED BY <1>2, <1>3, <1>4, <1>5 DEF Moves

-----------------------------------------------------------------------------
(* Every step preserves each part of the inductive invariant. *)

(* TypeOK: main does not get to the second part of the non-blocking        *)
(* demonstration, and no process runs past the end of its Script.          *)
LEMMA StepTypeOK ==
  ASSUME IInv, [Next]_vars
  PROVE  TypeOK'
<1> DEFINE States == {"unborn", "running", "zombie", "reaped"}
<1>0. /\ TypeOK /\ demo \in Demos /\ mpc \in MainPc
      /\ i \in 1 .. 3 /\ pids \in Seq(Procs \cup {"-1"})
      /\ st \in [Procs -> States] /\ at \in [Procs -> 1 .. 7]
      /\ blocked \subseteq Procs /\ exists \in BOOLEAN
      /\ readers \subseteq Procs /\ writers \subseteq Procs
      /\ data \in Seq(Procs) /\ got \in [Procs -> Seq(Procs)]
      /\ wrote \subseteq Procs /\ pend \subseteq Procs /\ signals \in Nat
      /\ "main" \in Procs
  BY ProcNames DEF IInv, TypeOK
<1>1. CASE Mkfifo
  BY <1>0, <1>1 DEF Mkfifo, TypeOK, MainPc, ends, sigVars
<1>2. CASE Fork
  <2>1. mpc = "fork" /\ st' = [st EXCEPT ![Forks(demo)[i]] = "running"]
    BY <1>2 DEF Fork, MainAt
  <2>2. /\ Forks(demo)[i] \in Procs
        /\ Len(Forks(demo)) \in {1, 2, 3}
    BY <2>1, Forking, ProcNames
  <2>3. st' \in [Procs -> States]
    BY <1>0, <2>1, <2>2
  <2>4. i' \in 1..3 /\ mpc' \in MainPc
    <3>0. PICK n \in 1..3 : Len(Forks(demo)) = n
      BY <2>2
    <3>1. i < Len(Forks(demo)) => i + 1 \in 1..3
      BY <1>0, <3>0
    <3> QED BY <1>2, <3>1 DEF Fork, MainPc
  <2>5. pids' \in Seq(Procs \cup {"-1"})
    BY <1>0, <1>2, <2>2 DEF Fork
  <2> QED BY <1>0, <1>2, <2>3, <2>4, <2>5 DEF Fork, TypeOK, ends, sigVars
<1>3. CASE ForkLaterFails
  <2>1. mpc = "fork"
    BY <1>3 DEF ForkLaterFails, MainAt
  <2>2. Len(Forks(demo)) \in {1, 2, 3}
    BY <2>1, Forking
  <2>3. i' \in 1..3 /\ mpc' \in MainPc
    <3>0. PICK n \in 1..3 : Len(Forks(demo)) = n
      BY <2>2
    <3>1. i < Len(Forks(demo)) => i + 1 \in 1..3
      BY <1>0, <3>0
    <3> QED BY <1>3, <3>1 DEF ForkLaterFails, MainPc
  <2>4. pids' \in Seq(Procs \cup {"-1"})
    BY <1>0, <1>3 DEF ForkLaterFails
  <2> QED BY <1>0, <1>3, <2>3, <2>4 DEF ForkLaterFails, TypeOK, ends, sigVars
<1>4. CASE IoDone
  BY <1>0, <1>4 DEF IoDone, TypeOK, MainPc, ends, sigVars
<1>5. CASE Unlink
  <2>1. st' \in [Procs -> States]
    BY <1>0, <1>5 DEF Unlink
  <2> QED BY <1>0, <1>5, <2>1 DEF Unlink, TypeOK, MainPc, ends, sigVars
<1>6. CASE Leaves
  <2>1. /\ Leave
        /\ demo \in {"basic", "multi", "nonblock", "clisrv"}
        /\ st' \in [Procs -> States]
        /\ exists' \in BOOLEAN
        /\ UNCHANGED <<at, blocked, ends, data, got, wrote, sigVars>>
    BY <1>6, Leaving
  <2>2. demo' \in Demos
    BY <2>1 DEF Leave, NextDemo, Demos
  <2>3. mpc' \in MainPc /\ i' \in 1..3 /\ pids' = <<>>
    BY <2>1 DEF Leave, MainPc
  <2>4. pids' \in Seq(Procs \cup {"-1"})
    BY <2>3
  <2> QED BY <1>0, <2>1, <2>2, <2>3, <2>4 DEF TypeOK, ends, sigVars
<1>7. CASE WaitsMore
  <2>1. st' \in [Procs -> States]
    BY <1>7, Waiting DEF WaitsMore
  <2>2. i \in {1, 2} /\ i' = i + 1
    BY <1>7, WaitingMore
  <2>3. i' \in 1..3
    BY <2>2
  <2>4. UNCHANGED <<demo, mpc, pids, exists, at, blocked, ends, data, got,
                    wrote, sigVars>>
    BY <1>7, WaitingMore
  <2> QED BY <1>0, <2>1, <2>3, <2>4 DEF TypeOK, ends, sigVars
<1>8. CASE Signal
  <2>1. pend' \subseteq Procs
    BY <1>0, <1>8 DEF Signal, Live
  <2>2. signals' \in Nat
    BY <1>0, <1>8 DEF Signal
  <2> QED BY <1>0, <1>8, <2>1, <2>2 DEF Signal, TypeOK, ends, mainVars
<1>9. CASE OpenFails("main")
  BY <1>0, <1>9 DEF OpenFails, TypeOK, MainPc, ends, sigVars
<1>10. ASSUME NEW p \in Procs, Open(p)
       PROVE  TypeOK'
  <2>1. /\ OpensR(p, at[p]) \/ OpensW(p, at[p])
        /\ UNCHANGED <<mainVars, st, exists, data, got, wrote, sigVars>>
        /\ readers' \subseteq readers \cup {p} /\ writers' \subseteq writers \cup {p}
        /\ \/ blocked' = blocked \cup {p} /\ at' = at
           \/ blocked' = {} /\ Advance(blocked \cup {p})
    BY <1>10, Opening
  <2>2. at' \in [Procs -> 1..7]
    <3>1. \A q \in blocked \cup {p} : OpensR(q, at[q]) \/ OpensW(q, at[q])
      BY <1>0, <2>1, Holding
    <3>2. \A q \in blocked \cup {p} : at[q] + 1 <= EndOf(q) /\ EndOf(q) \in {4, 7}
      BY <1>0, <3>1, Spans
    <3>3. ASSUME NEW q \in blocked \cup {p}
          PROVE  at[q] + 1 \in 1..7
      <4>1. at[q] \in 1..7
        BY <1>0
      <4>2. at[q] + 1 <= EndOf(q) /\ EndOf(q) \in {4, 7}
        BY <3>2
      <4> QED BY <4>1, <4>2
    <3>4. SUFFICES ASSUME Advance(blocked \cup {p}) PROVE at' \in [Procs -> 1..7]
      BY <1>0, <2>1
    <3>5. /\ at' = [q \in Procs |-> at'[q]]
          /\ \A q \in Procs :
                /\ q \in blocked \cup {p} => at'[q] = at[q] + 1
                /\ q \notin blocked \cup {p} => at'[q] = at[q]
      BY <1>0, <3>4, Advancing
    <3>6. \A q \in Procs : at'[q] \in 1..7
      BY <1>0, <3>3, <3>5
    <3> QED BY <3>5, <3>6
  <2>3. blocked' \subseteq Procs /\ readers' \subseteq Procs /\ writers' \subseteq Procs
    BY <1>0, <2>1
  <2> QED BY <1>0, <2>1, <2>2, <2>3 DEF TypeOK, mainVars, sigVars
<1>11. ASSUME NEW p \in Procs, Dies(p)
       PROVE  TypeOK'
  <2>1. /\ Die(p) /\ pend' = pend \ {p}
        /\ exists' = exists \/ exists' = FALSE
        /\ UNCHANGED <<mainVars, at, got, wrote, signals>>
    BY <1>11, Dying
  <2>2. st' \in [Procs -> States] /\ blocked' \subseteq Procs
    BY <1>0, <2>1 DEF Die
  <2>3. readers' \subseteq Procs /\ writers' \subseteq Procs
    BY <1>0, <2>1 DEF Die, Release
  <2>4. data' \in Seq(Procs)
    BY <1>0, <2>1 DEF Die, Release
  <2>5. pend' \subseteq Procs /\ exists' \in BOOLEAN
    BY <1>0, <2>1
  <2> QED BY <1>0, <2>1, <2>2, <2>3, <2>4, <2>5 DEF TypeOK, mainVars
<1>12. ASSUME NEW p \in Procs, Moves(p)
       PROVE  TypeOK'
  <2>1. /\ UNCHANGED <<mainVars, st, blocked, exists, sigVars>>
        /\ at' \in [Procs -> 1..7]
    BY <1>12, Moving
  <2>2. readers' \subseteq Procs /\ writers' \subseteq Procs
    BY <1>0, <1>12 DEF Moves, Write, Read, ReadEof, Close, Release, ends
  <2>3. data' \in Seq(Procs)
    <3>1. <<>> \in Seq(Procs) /\ Append(data, p) \in Seq(Procs)
      BY <1>0
    <3> QED BY <1>0, <1>12, <3>1 DEF Moves, Write, Read, ReadEof, Close, Release
  <2>4. got' \in [Procs -> Seq(Procs)]
    <3>1. got[p] \o data \in Seq(Procs)
      BY <1>0
    <3> QED BY <1>0, <1>12, <3>1 DEF Moves, Write, Read, ReadEof, Close
  <2>5. wrote' \subseteq Procs
    BY <1>0, <1>12 DEF Moves, Write, Read, ReadEof, Close
  <2> QED BY <1>0, <2>1, <2>2, <2>3, <2>4, <2>5 DEF TypeOK, mainVars, sigVars
<1>13. CASE UNCHANGED vars
  BY <1>0, <1>13 DEF vars, TypeOK, ends
<1> QED BY <1>1, <1>2, <1>3, <1>4, <1>5, <1>6, <1>7, <1>8, <1>9, <1>10, <1>11,
           <1>12, <1>13, Steps DEF Moves

(* Main ends with the name removed: by unlink(), by its handler, or by     *)
(* SIGPIPE after the child's handler.                                      *)
LEMMA StepCleanedUp ==
  ASSUME IInv, [Next]_vars
  PROVE  CleanedUp'
<1>0. CleanedUp /\ "main" \in Procs /\ exists \in BOOLEAN
      /\ st \in [Procs -> {"unborn", "running", "zombie", "reaped"}]
  BY ProcNames DEF IInv, TypeOK
<1>1. CASE Mkfifo
  BY <1>1 DEF Mkfifo, MainAt, Able, CleanedUp
<1>2. CASE Fork
  <2>1. mpc = "fork" /\ st["main"] = "running"
    BY <1>2 DEF Fork, MainAt, Able
  <2>2. Forks(demo)[i] # "main"
    BY <2>1, Forking
  <2>3. st'["main"] = "running"
    BY <1>0, <1>2, <2>1, <2>2 DEF Fork
  <2> QED BY <2>3 DEF CleanedUp
<1>3. CASE ForkLaterFails \/ IoDone \/ Signal
  BY <1>0, <1>3 DEF ForkLaterFails, IoDone, Signal, CleanedUp
<1>4. CASE Unlink
  BY <1>4 DEF Unlink, CleanedUp
<1>5. CASE Leaves
  BY <1>5, Leaving DEF CleanedUp
<1>6. CASE WaitsMore
  BY <1>6, Waiting DEF WaitsMore, CleanedUp
<1>7. CASE OpenFails("main")
  BY <1>0, <1>7 DEF OpenFails, CleanedUp
<1>8. ASSUME NEW p \in Procs, Open(p)
      PROVE  CleanedUp'
  BY <1>0, <1>8, Opening DEF CleanedUp
<1>9. ASSUME NEW p \in Procs, Dies(p)
      PROVE  CleanedUp'
  <2>1. /\ st' = [st EXCEPT ![p] = "zombie"] /\ st[p] = "running"
        /\ exists' = exists \/ exists' = FALSE
        /\ p = "main" => ~exists'
    BY <1>9, Dying DEF Die
  <2>2. p # "main" => st'["main"] = st["main"]
    BY <1>0, <2>1
  <2> QED BY <1>0, <2>1, <2>2 DEF CleanedUp
<1>10. ASSUME NEW p \in Procs, Moves(p)
       PROVE  CleanedUp'
  BY <1>0, <1>10, Moving DEF CleanedUp
<1>11. CASE UNCHANGED vars
  BY <1>0, <1>11 DEF vars, CleanedUp
<1> QED BY <1>1, <1>2, <1>3, <1>4, <1>5, <1>6, <1>7, <1>8, <1>9, <1>10, <1>11,
           Steps DEF Moves

(* EndsInv, process by process. *)
ReadsAt(p) == /\ st[p] = "running"
              /\ HasR(p, at[p]) \/ (p \in blocked /\ OpensR(p, at[p]))
WritesAt(p) == /\ st[p] = "running"
               /\ HasW(p, at[p]) \/ (p \in blocked /\ OpensW(p, at[p]))
EndsEach ==
    /\ \A p \in Procs : p \in readers <=> ReadsAt(p)
    /\ \A p \in Procs : p \in writers <=> WritesAt(p)
    /\ \A p \in blocked :
          /\ st[p] = "running"
          /\ \/ OpensR(p, at[p]) /\ writers = {}
             \/ OpensW(p, at[p]) /\ readers = {}
    /\ readers \cup writers = {} => data = <<>>

(* It follows from the inductive invariant, and gives EndsInv back. *)
LEMMA EndsByProcess ==
  /\ IInv => EndsEach
  /\ TypeOK' /\ EndsEach' => EndsInv'
<1>1. IInv => EndsEach
  BY DEF IInv, EndsInv, EndsEach, ReadsAt, WritesAt
<1>2. ASSUME TypeOK', EndsEach'
      PROVE  EndsInv'
  <2>1. readers' \subseteq Procs /\ writers' \subseteq Procs
    BY <1>2 DEF TypeOK
  <2>2. readers' = {p \in Procs : ReadsAt(p)'}
    BY <1>2, <2>1 DEF EndsEach
  <2>3. writers' = {p \in Procs : WritesAt(p)'}
    BY <1>2, <2>1 DEF EndsEach
  <2> QED BY <1>2, <2>2, <2>3 DEF EndsInv, EndsEach, ReadsAt, WritesAt
<1> QED BY <1>1, <1>2

(* A step of main's own keeps the ends: who starts or stops running then   *)
(* has none.                                                               *)
LEMMA EndsKept ==
  ASSUME IInv, UNCHANGED <<at, blocked, ends, data>>,
         \A q \in Procs : \/ st'[q] = "running" <=> st[q] = "running"
                          \/ q \notin readers \cup writers \cup blocked /\ at[q] = 1
                          \/ q \notin readers \cup writers \cup blocked /\ st'[q] # "running"
  PROVE  EndsEach'
<1>1. EndsEach /\ blocked \subseteq Procs
  BY EndsByProcess DEF IInv, TypeOK
<1>2. \A q \in Procs : ~HasR(q, 1) /\ ~HasW(q, 1)
  BY Spans
<1>3. /\ at' = at /\ blocked' = blocked /\ readers' = readers
      /\ writers' = writers /\ data' = data
  BY DEF ends
<1>4. \A q \in Procs : (q \in readers <=> ReadsAt(q)') /\ (q \in writers <=> WritesAt(q)')
  BY <1>1, <1>2, <1>3 DEF EndsEach, ReadsAt, WritesAt
<1>5. \A q \in blocked : st'[q] = "running"
  BY <1>1 DEF EndsEach
<1> QED BY <1>1, <1>3, <1>4, <1>5 DEF EndsEach

(* open() keeps the ends right. *)
LEMMA OpenKeepsEnds ==
  ASSUME IInv, NEW p \in Procs, Open(p)
  PROVE  EndsEach'
<1>0. /\ TypeOK /\ EndsEach /\ blocked \subseteq Procs
      /\ \A q \in Procs : at[q] \in 1..7
  BY EndsByProcess DEF IInv, TypeOK
<1>1. st[p] = "running" /\ p \notin blocked /\ st' = st /\ data' = data
  BY Opening, Acting
<1>2. \A q \in Procs :
         /\ OpensR(q, at[q]) => /\ HasR(q, at[q] + 1) /\ ~HasW(q, at[q] + 1)
                                /\ ~HasR(q, at[q]) /\ ~HasW(q, at[q]) /\ ~OpensW(q, at[q])
         /\ OpensW(q, at[q]) => /\ HasW(q, at[q] + 1) /\ ~HasR(q, at[q] + 1)
                                /\ ~HasR(q, at[q]) /\ ~HasW(q, at[q]) /\ ~OpensR(q, at[q])
  BY <1>0, Spans
<1>3. CASE blocked' = blocked \cup {p} /\ at' = at
           /\ OpensR(p, at[p]) /\ writers = {}
           /\ readers' = readers \cup {p} /\ writers' = writers
  <2>1. \A q \in Procs : q \in readers' <=> ReadsAt(q)'
    BY <1>0, <1>1, <1>2, <1>3 DEF EndsEach, ReadsAt
  <2>2. \A q \in Procs : q \in writers' <=> WritesAt(q)'
    BY <1>0, <1>1, <1>2, <1>3 DEF EndsEach, WritesAt
  <2>3. \A q \in blocked : OpensR(q, at[q])
    BY <1>0, <1>3 DEF EndsEach, WritesAt
  <2> QED BY <1>0, <1>1, <1>3, <2>1, <2>2, <2>3 DEF EndsEach
<1>4. CASE blocked' = blocked \cup {p} /\ at' = at
           /\ OpensW(p, at[p]) /\ readers = {}
           /\ writers' = writers \cup {p} /\ readers' = readers
  <2>1. \A q \in Procs : q \in readers' <=> ReadsAt(q)'
    BY <1>0, <1>1, <1>2, <1>4 DEF EndsEach, ReadsAt
  <2>2. \A q \in Procs : q \in writers' <=> WritesAt(q)'
    BY <1>0, <1>1, <1>2, <1>4 DEF EndsEach, WritesAt
  <2>3. \A q \in blocked : OpensW(q, at[q])
    BY <1>0, <1>4 DEF EndsEach, ReadsAt
  <2> QED BY <1>0, <1>1, <1>4, <2>1, <2>2, <2>3 DEF EndsEach
<1>5. ASSUME blocked' = {}, Advance(blocked \cup {p}),
             \/ OpensR(p, at[p]) /\ readers' = readers \cup {p} /\ writers' = writers
             \/ OpensW(p, at[p]) /\ writers' = writers \cup {p} /\ readers' = readers
      PROVE  EndsEach'
  <2>1. \A q \in Procs : /\ q \in blocked \cup {p} => at'[q] = at[q] + 1
                         /\ q \notin blocked \cup {p} => at'[q] = at[q]
    BY <1>0, <1>5, Advancing
  <2>2. \A q \in blocked : OpensR(q, at[q]) \/ OpensW(q, at[q])
    BY <1>0 DEF EndsEach
  <2>3. \A q \in Procs : q \in readers' <=> ReadsAt(q)'
    <3> SUFFICES ASSUME NEW q \in Procs PROVE q \in readers' <=> ReadsAt(q)'
      OBVIOUS
    <3>1. CASE q = p
      BY <1>0, <1>1, <1>2, <1>5, <2>1, <3>1 DEF EndsEach, ReadsAt
    <3>2. CASE q # p /\ q \in blocked
      BY <1>0, <1>1, <1>2, <1>5, <2>1, <2>2, <3>2 DEF EndsEach, ReadsAt
    <3>3. CASE q # p /\ q \notin blocked
      BY <1>0, <1>1, <1>5, <2>1, <3>3 DEF EndsEach, ReadsAt
    <3> QED BY <3>1, <3>2, <3>3
  <2>4. \A q \in Procs : q \in writers' <=> WritesAt(q)'
    <3> SUFFICES ASSUME NEW q \in Procs PROVE q \in writers' <=> WritesAt(q)'
      OBVIOUS
    <3>1. CASE q = p
      BY <1>0, <1>1, <1>2, <1>5, <2>1, <3>1 DEF EndsEach, WritesAt
    <3>2. CASE q # p /\ q \in blocked
      BY <1>0, <1>1, <1>2, <1>5, <2>1, <2>2, <3>2 DEF EndsEach, WritesAt
    <3>3. CASE q # p /\ q \notin blocked
      BY <1>0, <1>1, <1>5, <2>1, <3>3 DEF EndsEach, WritesAt
    <3> QED BY <3>1, <3>2, <3>3
  <2>5. readers' \cup writers' # {}
    BY <1>5
  <2> QED BY <1>5, <2>3, <2>4, <2>5 DEF EndsEach
<1> QED BY <1>3, <1>4, <1>5, Opening

(* A process that ends gives up its ends. *)
LEMMA DeathKeepsEnds ==
  ASSUME IInv, NEW p \in Procs, Dies(p)
  PROVE  EndsEach'
<1>0. /\ EndsEach /\ blocked \subseteq Procs
      /\ readers \subseteq Procs /\ writers \subseteq Procs
      /\ st \in [Procs -> {"unborn", "running", "zombie", "reaped"}]
  BY EndsByProcess DEF IInv, TypeOK
<1>1. /\ st' = [st EXCEPT ![p] = "zombie"] /\ blocked' = blocked \ {p}
      /\ readers' = readers \ {p} /\ writers' = writers \ {p}
      /\ data' = IF (readers \cup writers) \subseteq {p} THEN <<>> ELSE data
      /\ at' = at
  BY Dying DEF Die, Release
<1>2. st'[p] = "zombie" /\ \A q \in Procs \ {p} : st'[q] = st[q]
  BY <1>0, <1>1
<1>3. \A q \in Procs : (q \in readers' <=> ReadsAt(q)') /\ (q \in writers' <=> WritesAt(q)')
  BY <1>0, <1>1, <1>2 DEF EndsEach, ReadsAt, WritesAt
<1>4. \A q \in blocked' : /\ st'[q] = "running"
                          /\ \/ OpensR(q, at'[q]) /\ writers' = {}
                             \/ OpensW(q, at'[q]) /\ readers' = {}
  BY <1>0, <1>1, <1>2 DEF EndsEach
<1>5. readers' \cup writers' = {} => data' = <<>>
  BY <1>0, <1>1 DEF EndsEach
<1> QED BY <1>3, <1>4, <1>5 DEF EndsEach

(* write() and read() happen with the end open, close() gives it up. *)
LEMMA MoveKeepsEnds ==
  ASSUME IInv, NEW p \in Procs, Moves(p)
  PROVE  EndsEach'
<1>0. /\ EndsEach /\ blocked \subseteq Procs /\ at[p] \in 1..7
      /\ readers \subseteq Procs /\ writers \subseteq Procs
  BY EndsByProcess DEF IInv, TypeOK
<1>1. /\ st[p] = "running" /\ p \notin blocked
      /\ st' = st /\ blocked' = blocked
      /\ \A q \in Procs \ {p} : at'[q] = at[q]
      /\ at'[p] = at[p] + 1 \/ (p = "reader" /\ at'[p] = at[p])
  BY Moving, Acting
<1>2. CASE Close(p)
  <2>1. /\ readers' = readers \ {p} /\ writers' = writers \ {p}
        /\ data' = IF (readers \cup writers) \subseteq {p} THEN <<>> ELSE data
    BY <1>2 DEF Close, Release
  <2>2. ~HasR(p, at'[p]) /\ ~HasW(p, at'[p])
    <3>1. Closes(p, at[p]) /\ at'[p] = at[p] + 1
      BY <1>2, Moving
    <3> QED BY <1>0, <3>1, Spans
  <2>3. \A q \in Procs : (q \in readers' <=> ReadsAt(q)') /\ (q \in writers' <=> WritesAt(q)')
    BY <1>0, <1>1, <2>1, <2>2 DEF EndsEach, ReadsAt, WritesAt
  <2>4. \A q \in blocked' : /\ st'[q] = "running"
                            /\ \/ OpensR(q, at'[q]) /\ writers' = {}
                               \/ OpensW(q, at'[q]) /\ readers' = {}
    BY <1>0, <1>1, <2>1 DEF EndsEach
  <2>5. readers' \cup writers' = {} => data' = <<>>
    BY <1>0, <2>1 DEF EndsEach
  <2> QED BY <2>3, <2>4, <2>5 DEF EndsEach
<1>3. CASE Write(p) \/ Read(p) \/ ReadEof(p)
  <2>1. readers' = readers /\ writers' = writers
    BY <1>3 DEF Write, Read, ReadEof, ends
  <2>2. Writes(p, at[p]) \/ Reads(p, at[p])
    BY <1>3, Moving DEF Moves
  <2>3. /\ HasR(p, at'[p]) <=> HasR(p, at[p])
        /\ HasW(p, at'[p]) <=> HasW(p, at[p])
        /\ HasR(p, at[p]) \/ HasW(p, at[p])
    BY <1>0, <1>1, <2>2, Spans
  <2>4. \A q \in Procs : (q \in readers <=> ReadsAt(q)') /\ (q \in writers <=> WritesAt(q)')
    BY <1>0, <1>1, <2>3 DEF EndsEach, ReadsAt, WritesAt
  <2>5. \A q \in blocked' : /\ st'[q] = "running"
                            /\ \/ OpensR(q, at'[q]) /\ writers' = {}
                               \/ OpensW(q, at'[q]) /\ readers' = {}
    BY <1>0, <1>1, <2>1 DEF EndsEach
  <2>6. p \in readers' \cup writers'
    BY <1>1, <2>1, <2>3, <2>4 DEF ReadsAt, WritesAt
  <2> QED BY <2>1, <2>4, <2>5, <2>6 DEF EndsEach
<1> QED BY <1>2, <1>3 DEF Moves

(* The ends of the FIFO and what it holds. *)
LEMMA StepEnds ==
  ASSUME IInv, [Next]_vars
  PROVE  EndsInv'
<1> SUFFICES EndsEach'
  BY EndsByProcess, StepTypeOK
<1>0. /\ EndsEach /\ "main" \in Procs
      /\ st \in [Procs -> {"unborn", "running", "zombie", "reaped"}]
  BY EndsByProcess, ProcNames DEF IInv, TypeOK
<1>1. CASE \/ Mkfifo \/ ForkLaterFails \/ IoDone \/ Signal \/ OpenFails("main")
           \/ UNCHANGED vars
  <2>1. UNCHANGED <<at, blocked, ends, data>> /\ st' = st
    BY <1>1 DEF Mkfifo, ForkLaterFails, IoDone, Signal, OpenFails, vars
  <2> QED BY <2>1, EndsKept
<1>2. CASE Fork
  <2>1. mpc = "fork" /\ st' = [st EXCEPT ![Forks(demo)[i]] = "running"]
        /\ UNCHANGED <<at, blocked, ends, data>>
    BY <1>2 DEF Fork, MainAt
  <2>2. PICK f \in Procs : f = Forks(demo)[i] /\ st[f] = "unborn"
    BY <2>1, Forking, ProcNames
  <2>3. f \notin readers \cup writers \cup blocked /\ at[f] = 1
    BY <1>0, <2>2 DEF EndsEach, ReadsAt, WritesAt, IInv, FreshInv
  <2>4. \A q \in Procs \ {f} : st'[q] = st[q]
    BY <1>0, <2>1, <2>2
  <2> QED BY <2>1, <2>3, <2>4, EndsKept
<1>3. CASE Unlink
  <2>1. mpc = "unlink" /\ st' = [st EXCEPT !["main"] = "zombie"]
        /\ UNCHANGED <<at, blocked, ends, data>>
    BY <1>3 DEF Unlink, MainAt
  <2>2. "main" \notin readers \cup writers \cup blocked
    BY <2>1, MainEnds
  <2>3. st'["main"] = "zombie" /\ \A q \in Procs \ {"main"} : st'[q] = st[q]
    BY <1>0, <2>1
  <2> QED BY <2>1, <2>2, <2>3, EndsKept
<1>4. CASE Leaves
  <2>1. \A q \in Procs : st'[q] = "running" <=> st[q] = "running"
    BY <1>4, Leaving
  <2>2. UNCHANGED <<at, blocked, ends, data>>
    BY <1>4, Leaving
  <2> QED BY <2>1, <2>2, EndsKept
<1>5. CASE WaitsMore
  <2>1. \A q \in Procs : st'[q] = "running" <=> st[q] = "running"
    BY <1>5, Waiting DEF WaitsMore
  <2>2. UNCHANGED <<at, blocked, ends, data>>
    BY <1>5, Waiting DEF WaitsMore
  <2> QED BY <2>1, <2>2, EndsKept
<1> QED
  BY <1>1, <1>2, <1>3, <1>4, <1>5, OpenKeepsEnds, DeathKeepsEnds, MoveKeepsEnds,
     Steps DEF Moves

(* What a process has not done yet: a process moves and reads only when it *)
(* runs, and a writer's message is sent by its own write().                *)
LEMMA StepFresh ==
  ASSUME IInv, [Next]_vars
  PROVE  FreshInv'
<1>0. /\ FreshInv /\ TypeOK /\ "main" \in Procs /\ WriterSet \subseteq Procs
      /\ \A w \in WriterSet : w = "writer1" \/ w = "writer2"
      /\ st \in [Procs -> {"unborn", "running", "zombie", "reaped"}]
      /\ \A q \in Procs : at[q] \in 1..7
      /\ got \in [Procs -> Seq(Procs)] /\ pend \subseteq Procs
      /\ blocked \subseteq Procs
  BY ProcNames DEF IInv, TypeOK
<1>1. ASSUME UNCHANGED <<at, got, wrote, pend>>,
             \A q \in Procs : /\ st'[q] = "unborn" => st[q] = "unborn"
                              /\ q \in pend => st'[q] = "running"
      PROVE  FreshInv'
  BY <1>0, <1>1 DEF FreshInv, Live
<1>2. CASE Mkfifo \/ ForkLaterFails \/ IoDone \/ OpenFails("main") \/ UNCHANGED vars
  <2>1. UNCHANGED <<st, at, got, wrote, pend>>
    BY <1>2 DEF Mkfifo, ForkLaterFails, IoDone, OpenFails, vars, sigVars
  <2> QED BY <1>0, <1>1, <2>1 DEF FreshInv, Live
<1>3. CASE Fork
  <2>1. /\ mpc = "fork" /\ st' = [st EXCEPT ![Forks(demo)[i]] = "running"]
        /\ UNCHANGED <<at, got, wrote, pend>>
    BY <1>3 DEF Fork, MainAt, sigVars
  <2> QED BY <1>0, <1>1, <2>1 DEF FreshInv, Live
<1>4. CASE Unlink
  <2>1. /\ st["main"] = "running" /\ "main" \notin pend
        /\ st' = [st EXCEPT !["main"] = "zombie"]
        /\ UNCHANGED <<at, got, wrote, pend>>
    BY <1>4 DEF Unlink, MainAt, Able, sigVars
  <2> QED BY <1>0, <1>1, <2>1 DEF FreshInv, Live
<1>5. CASE Leaves
  <2>1. \A q \in Procs : st'[q] = st[q] \/ (st[q] = "zombie" /\ st'[q] = "reaped")
    BY <1>5, Leaving
  <2>2. UNCHANGED <<at, got, wrote, pend>>
    BY <1>5, Leaving DEF sigVars
  <2> QED BY <1>0, <1>1, <2>1, <2>2 DEF FreshInv, Live
<1>6. CASE WaitsMore
  <2>1. \A q \in Procs : st'[q] = st[q] \/ (st[q] = "zombie" /\ st'[q] = "reaped")
    BY <1>6, Waiting DEF WaitsMore
  <2>2. UNCHANGED <<at, got, wrote, pend>>
    BY <1>6, Waiting DEF WaitsMore, sigVars
  <2> QED BY <1>0, <1>1, <2>1, <2>2 DEF FreshInv, Live
<1>7. CASE Signal
  <2>1. UNCHANGED <<st, at, got, wrote>> /\ pend' \subseteq pend \cup Live
    BY <1>7 DEF Signal
  <2> QED BY <1>0, <2>1 DEF FreshInv, Live
<1>8. ASSUME NEW p \in Procs, Open(p)
      PROVE  FreshInv'
  <2>1. st[p] = "running"
    BY <1>8, Opening, Acting
  <2>2. /\ UNCHANGED <<st, got, wrote, pend>>
        /\ at' = at \/ Advance(blocked \cup {p})
    BY <1>8, Opening DEF sigVars
  <2>3. \A q \in Procs : /\ at'[q] = at[q] \/ at'[q] = at[q] + 1
                         /\ st[q] # "running" => at'[q] = at[q]
    BY <1>0, <2>1, <2>2, Advancing, Holding
  <2>4. ASSUME NEW q \in Procs
        PROVE  (at'[q] = 1 => at[q] = 1) /\ (at'[q] <= 2 => at[q] <= 2)
    <3>1. at[q] \in 1..7 /\ (at'[q] = at[q] \/ at'[q] = at[q] + 1)
      BY <1>0, <2>3
    <3> QED BY <3>1
  <2> QED BY <1>0, <2>2, <2>3, <2>4 DEF FreshInv, Live
<1>9. ASSUME NEW p \in Procs, Dies(p)
      PROVE  FreshInv'
  <2>1. /\ st' = [st EXCEPT ![p] = "zombie"] /\ pend' = pend \ {p}
        /\ UNCHANGED <<at, got, wrote>>
    BY <1>9, Dying DEF Die
  <2> QED BY <1>0, <2>1 DEF FreshInv, Live
<1>10. ASSUME NEW p \in Procs, Moves(p)
       PROVE  FreshInv'
  <2>1. /\ st[p] = "running" /\ UNCHANGED <<st, pend>>
        /\ \A q \in Procs \ {p} : at'[q] = at[q]
        /\ at'[p] = at[p] + 1 \/ (p = "reader" /\ at'[p] = at[p])
        /\ Writes(p, at[p]) \/ Reads(p, at[p]) \/ Closes(p, at[p])
    BY <1>10, Moving, Acting DEF sigVars
  <2>0. at[p] \in 1..7 /\ at[p] # 1
    BY <1>0, <2>1 DEF Writes, Reads, Closes
  <2>2. at[p] > 1
    BY <2>0
  <2>3. at'[p] > 1
    BY <2>0, <2>1
  <2>4. \A q \in Procs : st'[q] = "unborn" => at'[q] = 1
    BY <1>0, <2>1 DEF FreshInv
  <2>5. \A q \in Procs \ {p} : got'[q] = got[q]
    BY <1>0, <1>10 DEF Moves, Write, Read, ReadEof, Close
  <2>6. \A q \in Procs : at'[q] = 1 => got'[q] = <<>>
    BY <1>0, <2>1, <2>3, <2>5 DEF FreshInv
  <2>7. \A w \in WriterSet : at'[w] <= 2 => w \notin wrote'
    <3>1. CASE Write(p)
      <4>1. wrote' = wrote \cup {p} /\ Writes(p, at[p]) /\ at'[p] = at[p] + 1
        BY <1>10, <3>1, Moving DEF Write
      <4>2. at'[p] > 2 /\ ~(at'[p] <= 2)
        BY <2>0, <4>1
      <4> QED BY <1>0, <2>1, <4>1, <4>2 DEF FreshInv
    <3>2. CASE ~Write(p)
      <4>1. wrote' = wrote
        BY <1>10, <3>2 DEF Moves, Read, ReadEof, Close
      <4>2. at'[p] <= 2 => at[p] <= 2
        BY <2>0, <2>1
      <4> QED BY <1>0, <2>1, <4>1, <4>2 DEF FreshInv
    <3> QED BY <3>1, <3>2
  <2> QED BY <1>0, <2>1, <2>4, <2>6, <2>7 DEF FreshInv, Live
<1> QED BY <1>2, <1>3, <1>4, <1>5, <1>6, <1>7, <1>8, <1>9, <1>10, Steps DEF Moves

(* The processes of each demonstration are different ones. *)
LEMMA ForksDistinct ==
  ASSUME NEW d \in {"basic", "multi", "clisrv"},
         NEW k \in DOMAIN Forks(d), NEW l \in DOMAIN Forks(d), k # l
  PROVE  Forks(d)[k] # Forks(d)[l]
<1>1. CASE d = "basic"
  <2>1. k \in 1..1 /\ l \in 1..1
    BY <1>1, ForksTable
  <2> QED BY <2>1
<1>2. CASE d = "multi"
  <2>1. k \in 1..3 /\ l \in 1..3
    BY <1>2, ForksTable
  <2>2. (k = 1 \/ k = 2 \/ k = 3) /\ (l = 1 \/ l = 2 \/ l = 3)
    BY <2>1
  <2> QED BY <1>2, <2>2, ForksTable
<1>3. CASE d = "clisrv"
  <2>1. Forks(d) = <<"server", "client">>
    BY <1>3, ForksTable
  <2>2. k \in 1..2 /\ l \in 1..2
    BY <2>1
  <2>3. (k = 1 \/ k = 2) /\ (l = 1 \/ l = 2)
    BY <2>2
  <2> QED BY <2>1, <2>3
<1> QED BY <1>1, <1>2, <1>3

(* What a demonstration forks has been among the coming processes in the   *)
(* one before.                                                             *)
LEMMA ComingNext ==
  ASSUME IInv, demo \in {"basic", "multi", "nonblock", "clisrv"}, Leave
  PROVE  /\ \A q \in Coming' : q \in Coming
         /\ demo # "clisrv" => \A k \in DOMAIN Forks(demo') : Forks(demo')[k] \in Coming
         /\ Coming \subseteq Procs \ {"main"}
<1>1. CASE demo = "basic"
  <2>1. demo' = "multi"
    BY <1>1 DEF Leave, NextDemo
  <2>2. \A k \in DOMAIN Forks("multi") : k = 1 \/ k = 2 \/ k = 3
    BY ForksTable
  <2>3. \A k \in DOMAIN Forks("multi") : Forks("multi")[k] \in {"reader", "writer1", "writer2"}
    BY <2>2, ForksTable
  <2> QED BY <1>1, <2>1, <2>3, ProcNames DEF Coming
<1>2. CASE demo \in {"multi", "nonblock"}
  <2>1. demo' \in {"nonblock", "clisrv"}
    BY <1>2 DEF Leave, NextDemo
  <2>2. Forks(demo') = <<"server", "client">>
    BY <2>1, ForksTable
  <2>3. \A k \in DOMAIN Forks(demo') : k = 1 \/ k = 2
    BY <2>2
  <2>4. \A k \in DOMAIN Forks(demo') : Forks(demo')[k] \in {"server", "client"}
    BY <2>2, <2>3
  <2> QED BY <1>2, <2>1, <2>4, ProcNames DEF Coming
<1>3. CASE demo = "clisrv"
  <2>1. demo' = "end"
    BY <1>3 DEF Leave, NextDemo
  <2> QED BY <1>3, <2>1 DEF Coming
<1> QED BY <1>1, <1>2, <1>3

(* Who has been forked and has not been waited for. *)
LEMMA StepCast ==
  ASSUME IInv, [Next]_vars
  PROVE  CastInv'
<1> DEFINE Between == {"mkfifo", "open", "unlink", "exited"}
<1>0. /\ CastInv /\ TypeOK /\ "main" \in Procs /\ Children = Procs \ {"main"}
      /\ st \in [Procs -> {"unborn", "running", "zombie", "reaped"}]
      /\ i \in 1..3 /\ demo \in Demos
      /\ Coming \subseteq Procs
      /\ \A k \in DOMAIN Forks(demo) : Forks(demo)[k] \in Procs /\ k \in Nat
  <2>1. \A k \in DOMAIN Forks(demo) : Forks(demo)[k] \in Procs /\ k \in Nat
    <3>1. \A d \in {"nonblock", "clisrv", "end"} :
             \A k \in DOMAIN Forks(d) : Forks(d)[k] \in Procs /\ k \in Nat
      BY ForksTable, ProcNames
    <3>2. \A k \in DOMAIN Forks("multi") : Forks("multi")[k] \in Procs /\ k \in Nat
      BY ForksTable, ProcNames
    <3>3. \A k \in DOMAIN Forks("basic") : Forks("basic")[k] \in Procs /\ k \in Nat
      BY ForksTable, ProcNames
    <3> QED BY <3>1, <3>2, <3>3 DEF IInv, TypeOK, Demos
  <2> QED BY <2>1, ProcNames DEF IInv, TypeOK, Coming, Children
<1>1. ASSUME demo' = demo,
             mpc' = mpc \/ mpc' \in {"wait", "waitErr", "io"},
             mpc' = "fork" => i' = i \/ i' = i + 1,
             mpc' = "mkfifo" => i' = i,
             \A q \in Procs : /\ st[q] = "unborn" <=> st'[q] = "unborn"
                              /\ st[q] = "reaped" => st'[q] = "reaped",
             st' \in [Procs -> {"unborn", "running", "zombie", "reaped"}]
      PROVE  CastInv'
  <2>1. Coming' = Coming
    BY <1>1 DEF Coming
  <2>2. \A q \in Coming' : st'[q] = "unborn"
    BY <1>0, <1>1, <2>1 DEF CastInv
  <2>3. mpc' \in Between => \A q \in Children : st'[q] \in {"unborn", "reaped"}
    BY <1>0, <1>1 DEF CastInv
  <2>4. \A q \in Children : st'[q] \in {"running", "zombie"} =>
           \E k \in DOMAIN Forks(demo') : q = Forks(demo')[k]
    BY <1>0, <1>1 DEF CastInv
  <2>5. mpc' \in {"mkfifo", "fork"} =>
           \A k \in DOMAIN Forks(demo') : k >= i' => st'[Forks(demo')[k]] = "unborn"
    <3> SUFFICES ASSUME mpc' \in {"mkfifo", "fork"}, NEW k \in DOMAIN Forks(demo), k >= i'
                 PROVE  st'[Forks(demo)[k]] = "unborn"
      BY <1>1
    <3>1. k >= i
      <4>1. k \in Nat /\ i \in 1..3
        BY <1>0
      <4>2. i' = i \/ i' = i + 1
        BY <1>1
      <4> QED BY <4>1, <4>2
    <3> QED BY <1>0, <1>1, <3>1 DEF CastInv
  <2> QED BY <2>2, <2>3, <2>4, <2>5 DEF CastInv
<1>2. CASE Mkfifo
  <2>1. /\ mpc = "mkfifo" /\ mpc' \in {"open", "fork"}
        /\ UNCHANGED <<demo, i, st>>
    BY <1>2 DEF Mkfifo, MainAt
  <2> QED BY <1>0, <2>1 DEF CastInv, Coming
<1>3. CASE Fork
  <2>1. /\ mpc = "fork" /\ st' = [st EXCEPT ![Forks(demo)[i]] = "running"]
        /\ demo' = demo /\ mpc' \in {"fork", "io", "wait"}
        /\ mpc' = "fork" => i' = i + 1
    BY <1>3 DEF Fork, MainAt
  <2>2. PICK f \in Children : f = Forks(demo)[i] /\ st[f] = "unborn" /\ i \in DOMAIN Forks(demo)
    BY <2>1, Forking, ProcNames
  <2>3. \A q \in Procs \ {f} : st'[q] = st[q]
    BY <1>0, <2>1, <2>2
  <2>4. f \notin Coming /\ demo \in {"basic", "multi", "clisrv"}
    BY <2>1, <2>2, Forking, ProcNames DEF Coming
  <2>5. \A q \in Coming' : st'[q] = "unborn"
    BY <1>0, <2>1, <2>3, <2>4 DEF CastInv, Coming
  <2>6. \A q \in Children : st'[q] \in {"running", "zombie"} =>
           \E k \in DOMAIN Forks(demo') : q = Forks(demo')[k]
    BY <1>0, <2>1, <2>2, <2>3 DEF CastInv
  <2>7. mpc' = "fork" =>
           \A k \in DOMAIN Forks(demo') : k >= i' => st'[Forks(demo')[k]] = "unborn"
    <3> SUFFICES ASSUME mpc' = "fork", NEW k \in DOMAIN Forks(demo), k >= i'
                 PROVE  st'[Forks(demo)[k]] = "unborn"
      BY <2>1
    <3>1. k >= i /\ k # i
      <4>1. k \in Nat /\ i \in 1..3 /\ i' = i + 1
        BY <1>0, <2>1
      <4> QED BY <4>1
    <3>2. Forks(demo)[k] # f
      BY <2>2, <2>4, <3>1, ForksDistinct
    <3>3. st[Forks(demo)[k]] = "unborn"
      BY <1>0, <2>1, <3>1 DEF CastInv
    <3> QED BY <1>0, <2>3, <3>2, <3>3
  <2> QED BY <2>1, <2>5, <2>6, <2>7 DEF CastInv
<1>4. CASE ForkLaterFails
  <2>1. /\ mpc = "fork" /\ UNCHANGED <<demo, st>>
        /\ mpc' = "wait" \/ (mpc' = "fork" /\ i' = i + 1)
    BY <1>4 DEF ForkLaterFails, MainAt
  <2> QED BY <1>0, <1>1, <2>1
<1>5. CASE IoDone
  <2>1. mpc' = "wait" /\ UNCHANGED <<demo, i, st>>
    BY <1>5 DEF IoDone
  <2> QED BY <1>0, <1>1, <2>1
<1>6. CASE Unlink
  <2>1. /\ mpc = "unlink" /\ mpc' = "exited" /\ demo' = demo
        /\ st' = [st EXCEPT !["main"] = "zombie"]
    BY <1>6 DEF Unlink, MainAt
  <2>2. \A q \in Children : st'[q] = st[q]
    BY <1>0, <2>1
  <2>3. Coming' = {} /\ demo = "end"
    BY <2>1 DEF IInv, MainInv, Coming
  <2> QED BY <1>0, <2>1, <2>2, <2>3 DEF CastInv
<1>7. CASE Leaves
  <2>1. /\ Leave /\ demo \in {"basic", "multi", "nonblock", "clisrv"}
        /\ \A q \in Children : st'[q] \in {"unborn", "reaped"}
        /\ \A q \in Procs : st'[q] = st[q] \/ (st[q] = "zombie" /\ st'[q] = "reaped")
    BY <1>7, Leaving
  <2>2. \A q \in Coming : st'[q] = "unborn"
    BY <1>0, <2>1 DEF CastInv
  <2>3. \A q \in Coming' : st'[q] = "unborn"
    BY <2>1, <2>2, ComingNext
  <2>4. mpc' \in {"mkfifo", "fork"} =>
           \A k \in DOMAIN Forks(demo') : k >= i' => st'[Forks(demo')[k]] = "unborn"
    <3>1. mpc' \in {"mkfifo", "fork"} => demo # "clisrv"
      BY <2>1 DEF Leave
    <3> QED BY <2>1, <2>2, <3>1, ComingNext
  <2> QED BY <2>1, <2>3, <2>4 DEF CastInv
<1>8. CASE WaitsMore
  <2>1. mpc = "wait" /\ UNCHANGED <<demo, mpc>>
    BY <1>8, WaitingMore
  <2>2. /\ \A q \in Procs : st'[q] = st[q] \/ (st[q] = "zombie" /\ st'[q] = "reaped")
        /\ st' \in [Procs -> {"unborn", "running", "zombie", "reaped"}]
    BY <1>8, Waiting DEF WaitsMore
  <2> QED BY <1>1, <2>1, <2>2
<1>9. CASE OpenFails("main")
  <2>1. mpc' = "waitErr" /\ UNCHANGED <<demo, i, st>>
    BY <1>9 DEF OpenFails
  <2> QED BY <1>0, <1>1, <2>1
<1>10. ASSUME NEW p \in Procs, Dies(p)
       PROVE  CastInv'
  <2>1. /\ st[p] = "running" /\ st' = [st EXCEPT ![p] = "zombie"]
        /\ UNCHANGED <<demo, mpc, i>>
    BY <1>10, Dying DEF Die, mainVars
  <2>2. \A q \in Procs : /\ st[q] = "unborn" <=> st'[q] = "unborn"
                         /\ st[q] = "reaped" => st'[q] = "reaped"
    BY <1>0, <2>1
  <2>3. st' \in [Procs -> {"unborn", "running", "zombie", "reaped"}]
    BY <1>0, <2>1
  <2> QED BY <1>1, <2>1, <2>2, <2>3
<1>11. ASSUME UNCHANGED <<mainVars, st>>
       PROVE  CastInv'
  BY <1>0, <1>1, <1>11 DEF mainVars
<1>12. ASSUME NEW p \in Procs, Open(p) \/ Moves(p)
       PROVE  CastInv'
  BY <1>11, <1>12, Opening, Moving
<1>13. CASE Signal \/ UNCHANGED vars
  BY <1>11, <1>13 DEF Signal, vars, mainVars
<1> QED BY <1>2, <1>3, <1>4, <1>5, <1>6, <1>7, <1>8, <1>9, <1>10, <1>12, <1>13,
           Steps DEF Moves

(* Main is at the FIFO only in its own part of the first demonstration. *)
LEMMA StepMainEnds ==
  ASSUME IInv, [Next]_vars
  PROVE  /\ "main" \in blocked' => mpc' = "io"
         /\ at'["main"] \in {2, 3} => mpc' = "io"
         /\ st'["main"] # "unborn" /\ st'["main"] # "reaped"
<1>0. /\ "main" \in Procs /\ at["main"] \in 1..7 /\ TypeOK
      /\ st \in [Procs -> {"unborn", "running", "zombie", "reaped"}]
      /\ "main" \in blocked => mpc = "io"
      /\ at["main"] \in {2, 3} => mpc = "io"
      /\ st["main"] # "unborn" /\ st["main"] # "reaped"
  BY ProcNames DEF IInv, TypeOK, MainInv
<1>1. CASE Mkfifo \/ ForkLaterFails
  <2>1. mpc # "io" /\ UNCHANGED <<at, blocked, st>>
    BY <1>1 DEF Mkfifo, ForkLaterFails, MainAt
  <2> QED BY <1>0, <2>1
<1>2. CASE Fork
  <2>1. /\ mpc = "fork" /\ UNCHANGED <<at, blocked>>
        /\ st' = [st EXCEPT ![Forks(demo)[i]] = "running"]
    BY <1>2 DEF Fork, MainAt
  <2>2. st'["main"] = st["main"] \/ st'["main"] = "running"
    BY <1>0, <2>1
  <2> QED BY <1>0, <2>1, <2>2
<1>3. CASE IoDone
  <2>1. at["main"] >= 4
    BY <1>0, <1>3, OpTable DEF IoDone, EndOf
  <2>2. at["main"] \notin {1, 2, 3}
    BY <1>0, <2>1
  <2>3. "main" \notin blocked
    BY <1>0, <2>2, Holding DEF OpensR, OpensW
  <2> QED BY <1>0, <1>3, <2>2, <2>3 DEF IoDone
<1>4. CASE Unlink
  <2>1. /\ mpc = "unlink" /\ UNCHANGED <<at, blocked>>
        /\ st'["main"] = "zombie"
    BY <1>0, <1>4 DEF Unlink, MainAt
  <2> QED BY <1>0, <2>1
<1>5. CASE Leaves
  <2>1. mpc # "io" /\ UNCHANGED <<at, blocked>> /\ st'["main"] = "running"
    BY <1>5, Leaving
  <2> QED BY <1>0, <2>1
<1>6. CASE WaitsMore
  <2>1. mpc # "io" /\ UNCHANGED <<at, blocked>> /\ st'["main"] = "running"
    BY <1>6, Waiting DEF WaitsMore
  <2> QED BY <1>0, <2>1
<1>7. CASE OpenFails("main")
  <2>1. "main" \notin blocked /\ UNCHANGED <<at, blocked, st>>
    BY <1>7 DEF OpenFails, Active
  <2>2. OpensR("main", at["main"]) \/ OpensW("main", at["main"])
    BY <1>0, <1>7, OpTable DEF OpenFails
  <2>3. at["main"] = 1
    BY <2>2 DEF OpensR, OpensW
  <2> QED BY <1>0, <2>1, <2>3
<1>8. ASSUME NEW p \in Procs, Open(p)
      PROVE  /\ "main" \in blocked' => mpc' = "io"
             /\ at'["main"] \in {2, 3} => mpc' = "io"
             /\ st'["main"] # "unborn" /\ st'["main"] # "reaped"
  <2>1. /\ p = "main" => mpc = "io"
        /\ UNCHANGED <<mpc, st>>
        /\ \/ blocked' = blocked \cup {p} /\ at' = at
           \/ blocked' = {} /\ Advance(blocked \cup {p})
    BY <1>8, Opening, Acting DEF mainVars
  <2>2. at'["main"] = at["main"] \/ "main" \in blocked \cup {p}
    BY <1>0, <2>1, Advancing
  <2> QED BY <1>0, <2>1, <2>2
<1>9. ASSUME NEW p \in Procs, Dies(p)
      PROVE  /\ "main" \in blocked' => mpc' = "io"
             /\ at'["main"] \in {2, 3} => mpc' = "io"
             /\ st'["main"] # "unborn" /\ st'["main"] # "reaped"
  <2>1. /\ st' = [st EXCEPT ![p] = "zombie"] /\ blocked' = blocked \ {p}
        /\ UNCHANGED <<mpc, at>>
    BY <1>9, Dying DEF Die, mainVars
  <2> QED BY <1>0, <2>1
<1>10. ASSUME NEW p \in Procs, Moves(p)
       PROVE  /\ "main" \in blocked' => mpc' = "io"
              /\ at'["main"] \in {2, 3} => mpc' = "io"
              /\ st'["main"] # "unborn" /\ st'["main"] # "reaped"
  <2>1. /\ p = "main" => mpc = "io"
        /\ UNCHANGED <<mpc, st, blocked>>
        /\ p # "main" => at'["main"] = at["main"]
    BY <1>0, <1>10, Moving, Acting DEF mainVars
  <2> QED BY <1>0, <2>1
<1>11. CASE Signal \/ UNCHANGED vars
  BY <1>0, <1>11 DEF Signal, vars, mainVars
<1> QED BY <1>1, <1>2, <1>3, <1>4, <1>5, <1>6, <1>7, <1>8, <1>9, <1>10, <1>11,
           Steps DEF Moves

(* Where main is, and the pids it has. *)
LEMMA StepMain ==
  ASSUME IInv, [Next]_vars
  PROVE  MainInv'
<1>0. /\ MainInv /\ TypeOK /\ {"writer1", "writer2", "server", "client"} \subseteq Procs
      /\ st \in [Procs -> {"unborn", "running", "zombie", "reaped"}]
      /\ pids \in Seq(Procs \cup {"-1"}) /\ i \in 1..3 /\ demo \in Demos
  BY ProcNames DEF IInv, TypeOK
<1>1. /\ "main" \in blocked' => mpc' = "io"
      /\ at'["main"] \in {2, 3} => mpc' = "io"
      /\ st'["main"] # "unborn" /\ st'["main"] # "reaped"
  BY StepMainEnds
<1>2. ASSUME UNCHANGED mainVars,
             \A q \in Procs : /\ st[q] = "unborn" => st'[q] = "unborn"
                              /\ st[q] = "reaped" => st'[q] = "reaped"
      PROVE  MainInv'
  <2>1. UNCHANGED <<demo, mpc, i, pids>>
    BY <1>2 DEF mainVars
  <2>2. /\ st["writer1"] = "unborn" => st'["writer1"] = "unborn"
        /\ st["writer2"] = "unborn" => st'["writer2"] = "unborn"
        /\ st["client"] = "unborn" => st'["client"] = "unborn"
        /\ st["writer1"] \in {"unborn", "reaped"} => st'["writer1"] \in {"unborn", "reaped"}
        /\ st["writer2"] \in {"unborn", "reaped"} => st'["writer2"] \in {"unborn", "reaped"}
        /\ st["server"] \in {"unborn", "reaped"} => st'["server"] \in {"unborn", "reaped"}
    BY <1>0, <1>2
  <2> QED BY <1>0, <1>1, <2>1, <2>2 DEF MainInv
<1>3. CASE Mkfifo
  <2>1. /\ mpc = "mkfifo" /\ UNCHANGED <<demo, i, pids, st>>
        /\ mpc' = IF demo = "nonblock" THEN "open" ELSE "fork"
    BY <1>3 DEF Mkfifo, MainAt
  <2>2. demo \in {"basic", "multi", "nonblock", "clisrv"} /\ i = 1 /\ Len(pids) = 0
    BY <1>0, <2>1 DEF MainInv, Demos
  <2>3. demo # "nonblock" => i \in 1..Len(Forks(demo))
    <3>1. Len(Forks("basic")) = 1 /\ Len(Forks("multi")) = 3 /\ Len(Forks("clisrv")) = 2
      BY ForksTable
    <3>2. /\ 1 \in 1..Len(Forks("basic")) /\ 1 \in 1..Len(Forks("multi"))
          /\ 1 \in 1..Len(Forks("clisrv"))
      BY <3>1
    <3> QED BY <2>2, <3>2
  <2> QED BY <1>1, <2>1, <2>2, <2>3 DEF MainInv
<1>4. CASE Fork
  <2>1. /\ mpc = "fork" /\ demo' = demo
        /\ st' = [st EXCEPT ![Forks(demo)[i]] = "running"]
        /\ pids' = Append(pids, Forks(demo)[i])
        /\ i' = IF i < Len(Forks(demo)) THEN i + 1 ELSE 1
        /\ mpc' = IF i < Len(Forks(demo)) THEN "fork"
                  ELSE IF demo = "basic" THEN "io" ELSE "wait"
    BY <1>4 DEF Fork, MainAt
  <2>2. /\ Len(pids) = i - 1
        /\ i > 1 => pids[1] = Forks(demo)[1]
        /\ demo = "multi" /\ i > 2 =>
              pids[2] \in {"writer1", "-1"}
              /\ (pids[2] = "-1" => st["writer1"] = "unborn")
    BY <1>0, <2>1 DEF MainInv
  <2>3. PICK f \in Procs : f = Forks(demo)[i]
    BY <2>1, Forking, ProcNames
  <2>4. /\ Len(pids') = i /\ pids'[i] = f
        /\ \A k \in 1..(i - 1) : pids'[k] = pids[k]
    BY <1>0, <2>1, <2>2, <2>3
  <2>5. \A q \in Procs \ {f} : st'[q] = st[q]
    BY <1>0, <2>1, <2>3
  <2>6. CASE demo = "basic"
    <3>1. i = 1 /\ Len(Forks(demo)) = 1 /\ f = "child"
      BY <2>1, <2>3, <2>6, Forking
    <3>3. ~(i < Len(Forks(demo)))
      BY <3>1
    <3>2. i' = 1 /\ mpc' = "io"
      BY <2>1, <2>6, <3>3
    <3> QED BY <1>1, <2>1, <2>4, <2>6, <3>1, <3>2 DEF MainInv
  <2>7. CASE demo = "multi"
    <3>0. Len(Forks(demo)) = 3 /\ Forks(demo)[1] = "reader"
      BY <2>7, ForksTable
    <3>1. CASE i = 1
      <4>1. i' = 2 /\ mpc' = "fork" /\ f = "reader" /\ i' \in 1..Len(Forks(demo))
        BY <2>1, <2>3, <2>7, <3>0, <3>1
      <4> QED BY <1>1, <2>1, <2>4, <2>7, <3>0, <3>1, <4>1 DEF MainInv
    <3>2. CASE i = 2
      <4>1. f = "writer1"
        BY <2>1, <2>3, <2>7, <3>2, Forking
      <4>2. i' = 3 /\ mpc' = "fork" /\ i' \in 1..Len(Forks(demo))
        BY <2>1, <2>7, <3>0, <3>2
      <4>3. pids'[1] = "reader" /\ pids'[2] = "writer1" /\ Len(pids') = 2
        BY <2>2, <2>4, <3>0, <3>2, <4>1
      <4> QED BY <1>1, <2>1, <2>7, <3>0, <4>2, <4>3 DEF MainInv
    <3>3. CASE i = 3
      <4>1. f = "writer2"
        BY <2>1, <2>3, <2>7, <3>3, Forking
      <4>0. ~(i < Len(Forks(demo)))
        BY <3>0, <3>3
      <4>2. i' = 1 /\ mpc' = "wait"
        BY <2>1, <2>7, <4>0
      <4>3. pids'[1] = pids[1] /\ pids'[2] = pids[2] /\ pids'[3] = "writer2" /\ Len(pids') = 3
        BY <2>4, <3>3, <4>1
      <4>4. pids[1] = "reader" /\ pids[2] \in {"writer1", "-1"}
            /\ (pids[2] = "-1" => st'["writer1"] = "unborn")
        BY <1>0, <2>2, <2>5, <2>7, <3>0, <3>3, <4>1
      <4>5. i' \in 1..Len(pids')
        BY <4>2, <4>3
      <4> QED BY <1>1, <2>1, <2>7, <4>2, <4>3, <4>4, <4>5 DEF MainInv
    <3> QED BY <1>0, <3>1, <3>2, <3>3
  <2>8. CASE demo = "clisrv"
    <3>0. Forks(demo) = <<"server", "client">>
      BY <2>8, ForksTable
    <3>1. CASE i = 1
      <4>0. i < Len(Forks(demo)) /\ 2 \in 1..Len(Forks(demo)) /\ Forks(demo)[i] = "server"
        BY <3>0, <3>1
      <4>1. f = "server" /\ i' = 2 /\ mpc' = "fork" /\ i' \in 1..Len(Forks(demo))
        BY <2>1, <2>3, <3>1, <4>0
      <4>2. pids'[1] = "server" /\ Len(pids') = 1 /\ Forks(demo)[1] = "server"
        BY <2>4, <3>0, <3>1, <4>1
      <4> QED BY <1>1, <2>1, <2>8, <4>1, <4>2 DEF MainInv
    <3>2. CASE i = 2
      <4>0. ~(i < Len(Forks(demo))) /\ Forks(demo)[i] = "client"
        BY <3>0, <3>2
      <4>1. f = "client" /\ i' = 1 /\ mpc' = "wait"
        BY <2>1, <2>3, <2>8, <4>0
      <4>2. pids'[1] = "server" /\ Len(pids') = 2 /\ pids'[2] = "client"
        BY <2>2, <2>4, <3>0, <3>2, <4>1
      <4>3. i' \in 1..Len(pids')
        BY <4>1, <4>2
      <4> QED BY <1>1, <2>1, <2>8, <4>1, <4>2, <4>3 DEF MainInv
    <3> QED BY <2>1, <2>8, <3>1, <3>2, Forking
  <2> QED BY <2>1, <2>6, <2>7, <2>8, Forking

<1>5. CASE ForkLaterFails
  <2>1. /\ mpc = "fork" /\ i > 1 /\ UNCHANGED <<demo, st>>
        /\ pids' = IF demo = "multi" THEN Append(pids, "-1") ELSE pids
        /\ i' = IF demo = "multi" /\ i < Len(Forks(demo)) THEN i + 1 ELSE 1
        /\ mpc' = IF demo = "multi" /\ i < Len(Forks(demo)) THEN "fork" ELSE "wait"
    BY <1>5 DEF ForkLaterFails, MainAt
  <2>2. /\ Len(pids) = i - 1
        /\ pids[1] = Forks(demo)[1]
        /\ demo = "multi" /\ i > 2 =>
              pids[2] \in {"writer1", "-1"}
              /\ (pids[2] = "-1" => st["writer1"] = "unborn")
    BY <1>0, <2>1 DEF MainInv
  <2>3. st[Forks(demo)[i]] = "unborn"
    BY <2>1, Forking
  <2>4. CASE demo = "multi"
    <3>0. Len(Forks(demo)) = 3 /\ Forks(demo)[1] = "reader"
      BY <2>4, ForksTable
    <3>1. /\ Len(pids') = i /\ pids'[i] = "-1"
          /\ \A k \in 1..(i - 1) : pids'[k] = pids[k]
      BY <1>0, <2>1, <2>2, <2>4
    <3>2. CASE i = 2
      <4>1. st["writer1"] = "unborn"
        BY <2>1, <2>3, <2>4, <3>2, Forking
      <4>0. i < Len(Forks(demo)) /\ 3 \in 1..Len(Forks(demo))
        BY <3>0, <3>2
      <4>2. i' = 3 /\ mpc' = "fork" /\ i' \in 1..Len(Forks(demo))
        BY <2>1, <2>4, <3>2, <4>0
      <4>3. pids'[1] = "reader" /\ pids'[2] = "-1" /\ Len(pids') = 2
        BY <2>2, <3>0, <3>1, <3>2
      <4> QED BY <1>1, <2>1, <2>4, <3>0, <4>1, <4>2, <4>3 DEF MainInv
    <3>3. CASE i = 3
      <4>1. st["writer2"] = "unborn"
        BY <2>1, <2>3, <2>4, <3>3, Forking
      <4>0. ~(i < Len(Forks(demo)))
        BY <3>0, <3>3
      <4>2. i' = 1 /\ mpc' = "wait"
        BY <2>1, <4>0
      <4>3. pids'[1] = pids[1] /\ pids'[2] = pids[2] /\ pids'[3] = "-1" /\ Len(pids') = 3
        BY <3>1, <3>3
      <4>4. pids[1] = "reader" /\ pids[2] \in {"writer1", "-1"}
            /\ (pids[2] = "-1" => st["writer1"] = "unborn")
        BY <2>2, <2>4, <3>0, <3>3
      <4>5. i' \in 1..Len(pids')
        BY <4>2, <4>3
      <4> QED BY <1>1, <2>1, <2>4, <4>1, <4>2, <4>3, <4>4, <4>5 DEF MainInv
    <3> QED BY <1>0, <2>1, <3>2, <3>3
  <2>5. CASE demo = "clisrv"
    <3>0. Forks(demo) = <<"server", "client">>
      BY <2>5, ForksTable
    <3>1. i = 2
      BY <1>0, <2>1, <2>5, Forking
    <3>2. st["client"] = "unborn" /\ pids[1] = "server" /\ Len(pids) = 1
      BY <2>2, <2>3, <3>0, <3>1
    <3>3. i' = 1 /\ mpc' = "wait" /\ pids' = pids
      BY <2>1, <2>5
    <3>4. i' \in 1..Len(pids')
      BY <3>2, <3>3
    <3> QED BY <1>1, <2>1, <2>5, <3>2, <3>3, <3>4 DEF MainInv
  <2> QED BY <1>0, <2>1, <2>4, <2>5, Forking
<1>6. CASE IoDone
  <2>1. mpc = "io" /\ mpc' = "wait" /\ UNCHANGED <<demo, i, pids, st>>
    BY <1>6 DEF IoDone, MainAt
  <2>2. demo = "basic" /\ i = 1 /\ Len(pids) = 1 /\ pids[1] = "child"
    BY <1>0, <2>1 DEF MainInv
  <2>3. i \in 1..Len(pids)
    BY <2>2
  <2> QED BY <1>1, <2>1, <2>2, <2>3 DEF MainInv
<1>7. CASE Unlink
  <2>1. mpc = "unlink" /\ mpc' = "exited" /\ demo' = demo
    BY <1>7 DEF Unlink, MainAt
  <2> QED BY <1>0, <1>1, <2>1 DEF MainInv
<1>8. CASE Leaves
  <2>1. Leave /\ demo \in {"basic", "multi", "nonblock", "clisrv"}
    BY <1>8, Leaving
  <2>2. /\ mpc' = IF demo = "clisrv" THEN "unlink" ELSE "mkfifo"
        /\ demo = "clisrv" => demo' = "end"
        /\ demo # "clisrv" => demo' # "end"
        /\ i' = 1 /\ Len(pids') = 0
    BY <2>1 DEF Leave, NextDemo
  <2> QED BY <1>1, <2>2 DEF MainInv
<1>9. CASE WaitsMore
  <2>1. /\ mpc = "wait" /\ demo \in {"multi", "clisrv"}
        /\ i \in {1, 2} /\ i < Len(pids) /\ i' = i + 1
        /\ UNCHANGED <<demo, mpc, pids>>
        /\ demo = "multi" /\ i = 1 => st'["writer1"] \in {"unborn", "reaped"}
        /\ demo = "multi" /\ i = 2 => st'["writer2"] \in {"unborn", "reaped"}
        /\ demo = "clisrv" => i = 1 /\ st'["server"] \in {"unborn", "reaped"}
    BY <1>9, WaitingMore
  <2>2. \A q \in Procs : st'[q] = st[q] \/ (st[q] = "zombie" /\ st'[q] = "reaped")
    BY <1>9, Waiting DEF WaitsMore
  <2>3. CASE demo = "multi"
    <3>1. /\ Len(pids) = 3 /\ pids[1] = "reader"
          /\ pids[2] \in {"writer1", "-1"} /\ pids[3] \in {"writer2", "-1"}
          /\ pids[2] = "-1" => st["writer1"] = "unborn"
          /\ pids[3] = "-1" => st["writer2"] = "unborn"
          /\ i = 2 => st["writer1"] \in {"unborn", "reaped"}
      BY <1>0, <2>1, <2>3 DEF MainInv
    <3>2. /\ pids[2] = "-1" => st'["writer1"] = "unborn"
          /\ pids[3] = "-1" => st'["writer2"] = "unborn"
      BY <1>0, <2>2, <3>1
    <3>3. st'["writer1"] \in {"unborn", "reaped"}
      BY <1>0, <2>1, <2>2, <2>3, <3>1
    <3>4. i' >= 3 => st'["writer2"] \in {"unborn", "reaped"}
      BY <2>1, <2>3
    <3>5. i' \in 1..Len(pids)
      BY <2>1, <3>1
    <3> QED BY <1>1, <2>1, <2>3, <3>1, <3>2, <3>3, <3>4, <3>5 DEF MainInv
  <2>4. CASE demo = "clisrv"
    <3>1. /\ Len(pids) \in {1, 2} /\ pids[1] = "server"
          /\ Len(pids) = 2 => pids[2] = "client"
          /\ Len(pids) = 1 => st["client"] = "unborn"
      BY <1>0, <2>1, <2>4 DEF MainInv
    <3>0. i = 1 /\ i' = 2 /\ i < Len(pids)
      BY <2>1, <2>4
    <3>3. Len(pids) = 1 \/ Len(pids) = 2
      BY <3>1
    <3>4. Len(pids) = 2
      BY <3>0, <3>3
    <3>2. Len(pids) = 2 /\ i' = 2 /\ i' \in 1..Len(pids)
      BY <3>0, <3>4
    <3> QED BY <1>1, <2>1, <2>4, <3>1, <3>2 DEF MainInv
  <2> QED BY <2>1, <2>3, <2>4
<1>10. CASE OpenFails("main")
  <2>1. mpc = "io" /\ mpc' = "waitErr" /\ UNCHANGED <<demo, i, pids>>
    BY <1>10 DEF OpenFails, Active
  <2> QED BY <1>0, <1>1, <2>1 DEF MainInv
<1>11. ASSUME NEW p \in Procs, Dies(p)
       PROVE  MainInv'
  <2>1. /\ st[p] = "running" /\ st' = [st EXCEPT ![p] = "zombie"]
        /\ UNCHANGED mainVars
    BY <1>11, Dying DEF Die
  <2> QED BY <1>0, <1>2, <2>1
<1>12. ASSUME NEW p \in Procs, Open(p) \/ Moves(p)
       PROVE  MainInv'
  <2>1. UNCHANGED <<mainVars, st>>
    BY <1>12, Opening, Moving
  <2> QED BY <1>2, <2>1
<1>13. CASE Signal \/ UNCHANGED vars
  BY <1>2, <1>13 DEF Signal, vars, mainVars
<1> QED BY <1>3, <1>4, <1>5, <1>6, <1>7, <1>8, <1>9, <1>10, <1>11, <1>12, <1>13,
           Steps DEF Moves

(* The first demonstration: main and its child. *)
LEMMA StepBasic ==
  ASSUME IInv, [Next]_vars
  PROVE  BasicInv'
<1>0. /\ BasicInv /\ TypeOK /\ "main" \in Procs /\ "child" \in Procs
      /\ st \in [Procs -> {"unborn", "running", "zombie", "reaped"}]
      /\ at["main"] \in 1..7 /\ at["child"] \in 1..7
      /\ mpc = "io" => demo = "basic"
  BY ProcNames DEF IInv, TypeOK, MainInv
<1>1. ASSUME at' = at, mpc' # "io"
      PROVE  BasicInv'
  BY <1>0, <1>1 DEF BasicInv
<1>2. CASE Mkfifo \/ ForkLaterFails \/ IoDone \/ Unlink \/ OpenFails("main")
  <2>1. at' = at /\ mpc' # "io"
    BY <1>2 DEF Mkfifo, ForkLaterFails, IoDone, Unlink, OpenFails
  <2> QED BY <1>1, <2>1
<1>3. CASE Leaves
  <2>1. at' = at /\ mpc' # "io"
    BY <1>3, Leaving DEF Leave
  <2> QED BY <1>1, <2>1
<1>4. CASE WaitsMore
  <2>1. at' = at /\ mpc' # "io"
    BY <1>4, WaitingMore
  <2> QED BY <1>1, <2>1
<1>5. CASE Fork
  <2>1. /\ mpc = "fork" /\ UNCHANGED <<at, data>>
        /\ mpc' = "io" => demo = "basic"
    BY <1>5 DEF Fork, MainAt
  <2>2. at["main"] # 2
    BY <2>1 DEF IInv, MainInv
  <2>3. demo = "basic" => data = <<>>
    <3> SUFFICES ASSUME demo = "basic" PROVE data = <<>>
      OBVIOUS
    <3>1. st["child"] = "unborn"
      BY <2>1, Forking
    <3>2. \A q \in Children : st[q] \in {"unborn", "reaped"}
      BY <1>0, <3>1, Cast DEF Children
    <3> QED BY <2>1, <3>2, Quiet
  <2> QED BY <1>0, <2>1, <2>2, <2>3 DEF BasicInv
<1>6. CASE Signal \/ UNCHANGED vars
  BY <1>0, <1>6 DEF Signal, vars, mainVars, BasicInv
<1>7. ASSUME NEW p \in Procs, Open(p)
      PROVE  BasicInv'
  <2>1. UNCHANGED <<demo, mpc, st, exists, data>>
    BY <1>7, Opening DEF mainVars
  <2>2. CASE at' = at
    BY <1>0, <2>1, <2>2 DEF BasicInv
  <2>3. CASE /\ Advance(blocked \cup {p})
             /\ OpensR(p, at[p]) => writers # {}
             /\ OpensW(p, at[p]) => readers # {}
    <3> DEFINE B == blocked \cup {p}
    <3>1. \A q \in Procs : /\ q \in B => at'[q] = at[q] + 1
                           /\ q \notin B => at'[q] = at[q]
      BY <1>0, <2>3, Advancing
    <3>2. \A q \in B : st[q] = "running"
      <4>1. st[p] = "running" /\ blocked \subseteq Procs
        BY <1>7, Opening, Acting DEF IInv, TypeOK
      <4> QED BY <4>1, Holding
    <3>3. /\ demo = "basic" =>
               /\ "child" \in B /\ at["child"] = 1
               /\ "main" \in B \/ at["main"] \in {2, 3}
               /\ "main" \in B => at["main"] = 1
          /\ demo = "multi" => B \subseteq {"reader", "writer1", "writer2"}
          /\ demo = "clisrv" => B = {"server", "client"}
          /\ demo \in {"basic", "multi", "clisrv"}
      BY <1>7, <2>3, Meeting
    <3> HIDE DEF B
    <3>4. CASE demo = "basic"
      <4>1. at'["child"] = 2 /\ st["child"] = "running"
        BY <1>0, <3>1, <3>2, <3>3, <3>4
      <4>2. CASE "main" \in B
        <5>1. at["main"] = 1 /\ at'["main"] = 2
          BY <1>0, <3>1, <3>3, <3>4, <4>2
        <5>2. mpc = "io" => data = <<>>
          BY <1>0, <5>1 DEF BasicInv
        <5> QED BY <2>1, <4>1, <5>1, <5>2 DEF BasicInv
      <4>3. CASE "main" \notin B
        <5>1. at'["main"] = at["main"] /\ at["main"] \in {2, 3}
          BY <1>0, <3>1, <3>3, <3>4, <4>3
        <5> QED BY <1>0, <2>1, <4>1, <5>1 DEF BasicInv
      <4> QED BY <4>2, <4>3
    <3>5. CASE demo \in {"multi", "clisrv"}
      <4>1. "main" \notin B /\ "child" \notin B
        BY <3>3, <3>5
      <4>2. at'["main"] = at["main"] /\ at'["child"] = at["child"] /\ mpc' # "io"
        BY <1>0, <2>1, <3>1, <3>5, <4>1
      <4> QED BY <1>0, <4>2 DEF BasicInv
    <3> QED BY <3>3, <3>4, <3>5
  <2> QED BY <1>7, <2>2, <2>3, Opening
<1>8. ASSUME NEW p \in Procs, Dies(p)
      PROVE  BasicInv'
  <2>1. /\ st' = [st EXCEPT ![p] = "zombie"]
        /\ exists' = exists \/ exists' = FALSE
        /\ UNCHANGED <<demo, mpc, at>>
        /\ data' = data \/ data' = <<>>
    BY <1>8, Dying DEF Die, Release, mainVars
  <2>2. ASSUME mpc = "io", at["main"] = 2, exists', st'["main"] = "running"
        PROVE  st'["child"] = "running" /\ at["child"] = 2
    <3>1. p # "main" /\ exists /\ st["main"] = "running"
      BY <1>0, <2>1, <2>2
    <3>2. st["child"] = "running" /\ at["child"] = 2
      BY <1>0, <2>2, <3>1 DEF BasicInv
    <3>3. p # "child"
      <4> SUFFICES ASSUME p = "child" PROVE FALSE
        OBVIOUS
      <4>1. ~WriteBroken(p)
        BY <1>0, <3>2, OpTable DEF WriteBroken, Writes
      <4>2. ~Exit(p)
        <5>1. EndOf(p) = 4 /\ ~(at[p] >= 4)
          BY <3>2 DEF EndOf
        <5> QED BY <1>0, <5>1, OpTable DEF Exit
      <4>3. ~OpenFails(p) /\ ~cleanup_handler(p)
        BY <2>2, <3>1 DEF OpenFails, cleanup_handler
      <4> QED BY <1>8, <4>1, <4>2, <4>3 DEF Dies
    <3> QED BY <1>0, <2>1, <3>2, <3>3
  <2> QED BY <1>0, <2>1, <2>2 DEF BasicInv
<1>9. ASSUME NEW p \in Procs, Moves(p)
      PROVE  BasicInv'
  <2>1. /\ UNCHANGED <<demo, mpc, st, exists>>
        /\ \A q \in Procs \ {p} : at'[q] = at[q]
        /\ at'[p] = at[p] + 1 \/ (p = "reader" /\ at'[p] = at[p])
        /\ Writes(p, at[p]) \/ Reads(p, at[p]) \/ Closes(p, at[p])
        /\ demo = "basic" => p \in {"main", "child"}
        /\ p = "main" => mpc = "io"
    BY <1>9, Moving, Acting DEF mainVars
  <2>2. at[p] # 1 /\ at[p] \in 1..7
    BY <2>1 DEF Writes, Reads, Closes, IInv, TypeOK
  <2>3. at'["main"] = 1 => at'["child"] = 1
    <3> SUFFICES ASSUME at'["main"] = 1 PROVE at'["child"] = 1
      OBVIOUS
    <3>1. at["main"] = 1 /\ p # "main"
      BY <1>0, <2>1, <2>2
    <3>2. at["child"] = 1
      BY <1>0, <3>1 DEF BasicInv
    <3> QED BY <1>0, <2>1, <2>2, <3>2
  <2>4. CASE mpc # "io"
    BY <2>1, <2>3, <2>4 DEF BasicInv
  <2>5. CASE mpc = "io" /\ p = "main"
    <3>1. CASE Write(p)
      <4>1. at["main"] = 2 /\ at'["main"] = 3
        BY <1>9, <2>5, <3>1, Moving DEF Writes
      <4>2. data = <<>> /\ data' = Append(data, "main")
        BY <1>0, <2>5, <3>1, <4>1 DEF BasicInv, Write
      <4>3. data' = <<"main">>
        BY <4>2
      <4> QED BY <2>3, <4>1, <4>3 DEF BasicInv
    <3>2. CASE Close(p)
      <4>1. at["main"] = 3 /\ at'["main"] = 4
        BY <1>9, <2>5, <3>2, Moving DEF Closes
      <4>2. data' = data \/ data' = <<>>
        BY <3>2 DEF Close, Release
      <4> QED BY <1>0, <2>3, <2>5, <4>1, <4>2 DEF BasicInv
    <3>3. ~Read(p) /\ ~ReadEof(p)
      BY <1>9, <2>5, Moving DEF Reads
    <3> QED BY <1>9, <3>1, <3>2, <3>3 DEF Moves
  <2>6. CASE mpc = "io" /\ p = "child"
    <3>1. ~Write(p)
      BY <1>9, <2>6, Moving DEF Writes
    <3>2. data' = data \/ data' = <<>>
      BY <1>9, <3>1 DEF Moves, Read, ReadEof, Close, Release
    <3>3. at'["main"] = at["main"]
      BY <1>0, <2>1, <2>6
    <3>4. ~(at["main"] = 2 /\ exists /\ st["main"] = "running")
      <4> SUFFICES ASSUME at["main"] = 2, exists, st["main"] = "running"
                   PROVE  FALSE
        OBVIOUS
      <4>1. data = <<>> /\ at["child"] = 2
        BY <1>0, <2>6 DEF BasicInv
      <4>2. "main" \in writers
        BY <1>0 DEF IInv, EndsInv, HasW
      <4>3. ~Read(p) /\ ~ReadEof(p)
        BY <4>1, <4>2 DEF Read, ReadEof
      <4>4. ~Close(p)
        <5>1. ~Closes(p, at[p])
          BY <2>6, <4>1 DEF Closes
        <5> QED BY <1>9, <5>1, Moving
      <4> QED BY <1>9, <3>1, <4>3, <4>4 DEF Moves
    <3> QED BY <1>0, <2>1, <2>3, <3>2, <3>3, <3>4 DEF BasicInv
  <2> QED BY <1>0, <2>1, <2>4, <2>5, <2>6
<1> QED BY <1>2, <1>3, <1>4, <1>5, <1>6, <1>7, <1>8, <1>9, Steps DEF Moves

(* One more message, of a process that has not written before. *)
LEMMA GotOneMore ==
  ASSUME NEW m \in Seq(Procs), NEW n \in Seq(Procs), NEW p \in Procs,
         GotAll(m), p \notin wrote, wrote' = wrote \cup {p},
         Len(n) = Len(m) + 1, n[Len(n)] = p,
         \A k \in 1..Len(m) : n[k] = m[k]
  PROVE  GotAll(n)'
<1>1. /\ DOMAIN m = 1..Len(m) /\ DOMAIN n = 1..Len(n)
      /\ Len(m) \in Nat
  OBVIOUS
<1>2. \A k \in DOMAIN n : k \in 1..Len(m) \/ k = Len(n)
  BY <1>1
<1>3. \A k \in DOMAIN m : m[k] \in wrote /\ m[k] # p /\ k \in DOMAIN n /\ n[k] = m[k]
  BY <1>1 DEF GotAll
<1>4. \A k \in DOMAIN n : n[k] \in wrote'
  BY <1>1, <1>2, <1>3
<1>5. ASSUME NEW w \in WriterSet \cap wrote'
      PROVE  \E k \in DOMAIN n :
                n[k] = w /\ \A l \in DOMAIN n : n[l] = w => l = k
  <2>1. CASE w = p
    <3>1. Len(n) \in DOMAIN n
      BY <1>1
    <3>2. \A l \in DOMAIN n : n[l] = w => l = Len(n)
      BY <1>1, <1>2, <1>3, <2>1
    <3> QED BY <2>1, <3>1, <3>2
  <2>2. CASE w # p
    <3>1. PICK k \in DOMAIN m : m[k] = w /\ \A l \in DOMAIN m : m[l] = w => l = k
      BY <1>5, <2>2 DEF GotAll
    <3>2. k \in DOMAIN n /\ n[k] = w
      BY <1>3, <3>1
    <3>3. \A l \in DOMAIN n : n[l] = w => l = k
      BY <1>1, <1>2, <1>3, <2>2, <3>1
    <3> QED BY <3>2, <3>3
  <2> QED BY <2>1, <2>2
<1> QED BY <1>4, <1>5 DEF GotAll

(* The second demonstration: the reader and the writers. *)
LEMMA StepMulti ==
  ASSUME IInv, [Next]_vars
  PROVE  MultiInv'
<1>0. /\ MultiInv /\ FreshInv /\ TypeOK /\ "reader" \in Procs
      /\ WriterSet \subseteq Procs /\ WriterSet = {"writer1", "writer2"}
      /\ st \in [Procs -> {"unborn", "running", "zombie", "reaped"}]
      /\ at["reader"] \in 1..7 /\ got["reader"] \in Seq(Procs) /\ data \in Seq(Procs)
      /\ got \in [Procs -> Seq(Procs)]
  BY ProcNames DEF IInv, TypeOK
<1>1. ASSUME UNCHANGED <<got, wrote, data>>,
             \A q \in WriterSet \cup {"reader"} : at'[q] = at[q],
             demo' = "multi" => demo = "multi" \/ data = <<>>,
             st'["reader"] = "running" /\ at["reader"] = 2 => st["reader"] = "running"
      PROVE  MultiInv'
  <2>1. at'["reader"] = at["reader"] /\ \A w \in WriterSet : at'[w] = at[w]
    BY <1>1
  <2>2. GotAll(got["reader"] \o data) => GotAll(got["reader"] \o data)'
    BY <1>1 DEF GotAll
  <2> QED BY <1>0, <1>1, <2>1, <2>2 DEF MultiInv
<1>2. CASE Mkfifo \/ ForkLaterFails \/ IoDone \/ Signal \/ OpenFails("main") \/ UNCHANGED vars
  <2>1. UNCHANGED <<demo, st, at, got, wrote, data>>
    BY <1>2 DEF Mkfifo, ForkLaterFails, IoDone, Signal, OpenFails, vars, mainVars
  <2> QED BY <1>1, <2>1
<1>3. CASE Fork
  <2>1. /\ mpc = "fork" /\ UNCHANGED <<demo, at, got, wrote, data>>
        /\ st' = [st EXCEPT ![Forks(demo)[i]] = "running"]
    BY <1>3 DEF Fork, MainAt
  <2>2. st["reader"] = "unborn" => at["reader"] = 1
    BY <1>0 DEF FreshInv
  <2>3. st'["reader"] = st["reader"] \/ st["reader"] = "unborn"
    BY <1>0, <2>1, Forking
  <2> QED BY <1>1, <2>1, <2>2, <2>3
<1>4. CASE Unlink
  <2>1. /\ UNCHANGED <<demo, at, got, wrote, data>>
        /\ st' = [st EXCEPT !["main"] = "zombie"]
    BY <1>4 DEF Unlink
  <2>2. st'["reader"] = st["reader"]
    BY <1>0, <2>1
  <2> QED BY <1>1, <2>1, <2>2
<1>5. CASE Leaves
  <2>1. /\ mpc # "io" /\ UNCHANGED <<at, got, wrote, data>>
        /\ \A q \in Procs : st'[q] = st[q] \/ (st[q] = "zombie" /\ st'[q] = "reaped")
        /\ \A q \in Children : st'[q] \in {"unborn", "reaped"}
    BY <1>5, Leaving
  <2>2. \A q \in Children : st[q] # "running"
    BY <2>1 DEF Children
  <2>3. data = <<>>
    BY <2>1, <2>2, Quiet
  <2> QED BY <1>0, <1>1, <2>1, <2>3
<1>6. CASE WaitsMore
  <2>1. UNCHANGED <<demo, at, got, wrote, data>>
    BY <1>6, WaitingMore
  <2>2. \A q \in Procs : st'[q] = st[q] \/ (st[q] = "zombie" /\ st'[q] = "reaped")
    BY <1>6, Waiting DEF WaitsMore
  <2> QED BY <1>0, <1>1, <2>1, <2>2
<1>7. ASSUME NEW p \in Procs, Open(p)
      PROVE  MultiInv'
  <2>1. UNCHANGED <<demo, st, got, wrote, data>>
    BY <1>7, Opening DEF mainVars
  <2>2. CASE at' = at
    BY <1>1, <2>1, <2>2
  <2>3. CASE /\ Advance(blocked \cup {p})
             /\ OpensR(p, at[p]) => writers # {}
             /\ OpensW(p, at[p]) => readers # {}
    <3> DEFINE B == blocked \cup {p}
    <3>1. \A q \in Procs : /\ q \in B => at'[q] = at[q] + 1
                           /\ q \notin B => at'[q] = at[q]
      BY <1>0, <2>3, Advancing
    <3>2. /\ demo = "basic" => B \subseteq {"main", "child"}
          /\ demo = "multi" => /\ \A q \in B : at[q] = 1
                               /\ "reader" \in B \/ at["reader"] \in {2, 3}
          /\ demo = "clisrv" => B = {"server", "client"}
          /\ demo \in {"basic", "multi", "clisrv"}
      BY <1>7, <2>3, Meeting
    <3> HIDE DEF B
    <3>3. CASE demo = "multi" /\ "reader" \in B
      <4>1. at["reader"] = 1 /\ at'["reader"] = 2
        BY <1>0, <3>1, <3>2, <3>3
      <4>2. data = <<>> /\ got["reader"] = <<>> /\ \A w \in WriterSet : at[w] = 1
        BY <1>0, <3>3, <4>1 DEF MultiInv, FreshInv
      <4>3. \A w \in WriterSet : at[w] <= 2
        BY <4>2
      <4>4. WriterSet \cap wrote = {}
        BY <1>0, <4>3 DEF FreshInv
      <4>5. got'["reader"] \o data' = <<>>
        BY <2>1, <4>2
      <4>6. GotAll(<<>>)'
        BY <2>1, <4>4 DEF GotAll
      <4> QED BY <4>1, <4>5, <4>6 DEF MultiInv
    <3>4. CASE demo = "multi" /\ "reader" \notin B
      <4>1. at'["reader"] = at["reader"] /\ at["reader"] \in {2, 3}
        BY <1>0, <3>1, <3>2, <3>4
      <4>2. GotAll(got["reader"] \o data) => GotAll(got["reader"] \o data)'
        BY <2>1 DEF GotAll
      <4> QED BY <1>0, <2>1, <4>1, <4>2 DEF MultiInv
    <3>5. CASE demo \in {"basic", "clisrv"}
      <4>1. \A q \in WriterSet \cup {"reader"} : q \notin B
        BY <1>0, <3>2, <3>5
      <4>2. \A q \in WriterSet \cup {"reader"} : at'[q] = at[q]
        BY <1>0, <3>1, <4>1
      <4> QED BY <1>1, <2>1, <4>2
    <3> QED BY <3>2, <3>3, <3>4, <3>5
  <2> QED BY <1>7, <2>2, <2>3, Opening
<1>8. ASSUME NEW p \in Procs, Dies(p)
      PROVE  MultiInv'
  <2>1. /\ st' = [st EXCEPT ![p] = "zombie"]
        /\ data' = IF (readers \cup writers) \subseteq {p} THEN <<>> ELSE data
        /\ UNCHANGED <<demo, at, got, wrote>>
    BY <1>8, Dying DEF Die, Release, mainVars
  <2>2. at["reader"] = 1 => /\ \A w \in WriterSet : at[w] = 1
                            /\ demo = "multi" => data' = <<>>
    BY <1>0, <2>1 DEF MultiInv
  <2>3. ASSUME st'["reader"] = "running", at["reader"] = 2
        PROVE  GotAll(got["reader"] \o data)'
    <3>1. st["reader"] = "running" /\ p # "reader"
      BY <1>0, <2>1, <2>3
    <3>2. "reader" \in readers
      BY <1>0, <2>3, <3>1 DEF IInv, EndsInv, HasR
    <3>3. data' = data
      BY <2>1, <3>1, <3>2
    <3>4. GotAll(got["reader"] \o data)
      BY <1>0, <2>3, <3>1 DEF MultiInv
    <3> QED BY <2>1, <3>3, <3>4 DEF GotAll
  <2> QED BY <2>1, <2>2, <2>3 DEF MultiInv
<1>9. ASSUME NEW p \in Procs, Moves(p)
      PROVE  MultiInv'
  <2>1. /\ UNCHANGED <<demo, st>>
        /\ \A q \in Procs \ {p} : at'[q] = at[q]
        /\ at'[p] = at[p] + 1 \/ (p = "reader" /\ at'[p] = at[p])
        /\ Writes(p, at[p]) \/ Reads(p, at[p]) \/ Closes(p, at[p])
        /\ demo = "multi" => p \in {"reader", "writer1", "writer2"}
    BY <1>9, Moving, Acting DEF mainVars
  <2>2. at[p] # 1 /\ at[p] \in 1..7
    BY <2>1 DEF Writes, Reads, Closes, IInv, TypeOK
  <2>3. ASSUME at'["reader"] = 1
        PROVE  /\ \A w \in WriterSet : at'[w] = 1
               /\ demo' = "multi" => data' = <<>>
    <3>1. p # "reader" /\ at["reader"] = 1
      BY <1>0, <2>1, <2>2, <2>3
    <3>2. \A w \in WriterSet : at[w] = 1
      BY <1>0, <3>1 DEF MultiInv
    <3>3. \A w \in WriterSet : w # p
      BY <2>2, <3>2
    <3> QED BY <1>0, <2>1, <3>1, <3>2, <3>3
  <2>4. ASSUME st["reader"] = "running", at'["reader"] = 2
        PROVE  GotAll(got["reader"] \o data)'
    <3>1. at["reader"] = 2
      BY <1>0, <2>1, <2>2, <2>4
    <3>2. /\ GotAll(got["reader"] \o data)
          /\ "reader" \in readers
      BY <1>0, <2>4, <3>1 DEF MultiInv, IInv, EndsInv, HasR
    <3>3. demo = "multi"
      BY <2>4, Cast, ProcNames
    <3>4. CASE p = "reader"
      <4>1. Read(p)
        <5>1. ~Write(p) /\ ~Close(p) /\ ~ReadEof(p)
          BY <1>9, <2>4, <3>1, <3>4, Moving
        <5> QED BY <1>9, <5>1 DEF Moves
      <4>2. got'["reader"] = got["reader"] \o data /\ data' = <<>> /\ wrote' = wrote
        BY <1>0, <3>4, <4>1 DEF Read
      <4>3. got["reader"] \o data \in Seq(Procs)
        BY <1>0
      <4>4. got'["reader"] \o data' = got["reader"] \o data
        BY <4>2, <4>3, ConcatEmptySeq
      <4> QED BY <3>2, <4>2, <4>4 DEF GotAll
    <3>5. CASE p \in WriterSet /\ Write(p)
      <4>1. /\ data' = Append(data, p) /\ got' = got /\ wrote' = wrote \cup {p}
            /\ Writes(p, at[p])
        BY <1>9, <3>5, Moving DEF Write
      <4>2. at[p] = 2
        BY <1>0, <3>5, <4>1 DEF Writes
      <4>3. p \notin wrote
        BY <1>0, <3>5, <4>2 DEF FreshInv
      <4>0. /\ got["reader"] \o data \in Seq(Procs)
            /\ got["reader"] \o Append(data, p) \in Seq(Procs)
        BY <1>0
      <4>4. PICK m \in Seq(Procs) : m = got["reader"] \o data
        BY <4>0, Zenon
      <4>5. PICK n \in Seq(Procs) : n = got["reader"] \o Append(data, p)
        BY <4>0, Zenon
      <4>6. /\ Len(n) = Len(m) + 1 /\ n[Len(n)] = p
            /\ \A k \in 1..Len(m) : n[k] = m[k]
        BY <1>0, <4>4, <4>5
      <4>7. GotAll(m)
        BY <3>2, <4>4
      <4>8. GotAll(n)'
        BY <4>1, <4>3, <4>6, <4>7, GotOneMore
      <4>9. got'["reader"] \o data' = n
        BY <4>1, <4>5
      <4> QED BY <4>8, <4>9 DEF GotAll
    <3>6. CASE p \in WriterSet /\ ~Write(p)
      <4>1. ~Read(p) /\ ~ReadEof(p)
        BY <1>0, <1>9, <3>6, Moving DEF Reads
      <4>2. Close(p)
        BY <1>9, <3>6, <4>1 DEF Moves
      <4>3. "reader" # p
        BY <1>0, <3>6
      <4>4. data' = data /\ got' = got /\ wrote' = wrote
        BY <3>2, <4>2, <4>3 DEF Close, Release
      <4> QED BY <3>2, <4>4 DEF GotAll
    <3> QED BY <1>0, <2>1, <3>3, <3>4, <3>5, <3>6
  <2> QED BY <2>1, <2>3, <2>4 DEF MultiInv
<1> QED BY <1>2, <1>3, <1>4, <1>5, <1>6, <1>7, <1>8, <1>9, Steps DEF Moves

(* The last demonstration: a step of neither the server nor the client. *)
LEMMA ClisrvKept ==
  ASSUME IInv,
         at'["server"] = at["server"], at'["client"] = at["client"],
         got'["server"] = got["server"], got'["client"] = got["client"],
         demo' = "clisrv" =>
            \/ data' = <<>>
            \/ demo = "clisrv" /\ data' = data,
         \A q \in {"server", "client"} :
            st'[q] = "running" /\ st[q] # "running" => at[q] = 1
  PROVE  ClisrvInv' /\ NoCrossTalk'
<1>0. ClisrvInv /\ NoCrossTalk /\ at["server"] \in 1..7 /\ at["client"] \in 1..7
  BY ProcNames DEF IInv, TypeOK
<1>1. NoCrossTalk'
  BY <1>0 DEF NoCrossTalk
<1>2. /\ at["client"] = 2 => at["server"] = 2 \/ st'["client"] # "running"
      /\ at["client"] = 6 => at["server"] >= 6 \/ st'["server"] # "running"
      /\ at["client"] = 7 => at["server"] >= 6 \/ st'["server"] # "running"
  BY <1>0 DEF ClisrvInv
<1>3. ClisrvInv'
  BY <1>0, <1>2 DEF ClisrvInv
<1> QED BY <1>1, <1>3

(* The server and the client meet in their open() calls. *)
LEMMA ClisrvMeet ==
  ASSUME IInv, demo = "clisrv", UNCHANGED <<demo, st, got, data>>,
         at["server"] = at["client"], at["server"] \in {1, 4},
         at'["server"] = at["server"] + 1, at'["client"] = at["client"] + 1
  PROVE  ClisrvInv' /\ NoCrossTalk'
<1>0. ClisrvInv /\ NoCrossTalk
  BY DEF IInv
<1>1. NoCrossTalk'
  BY <1>0 DEF NoCrossTalk
<1>2. CASE at["server"] = 1
  <2>1. /\ at["client"] = 1 /\ at'["server"] = 2 /\ at'["client"] = 2
        /\ data = <<>> /\ got["server"] = <<>> /\ got["client"] = <<>>
    BY <1>0, <1>2 DEF ClisrvInv
  <2> QED BY <1>1, <2>1 DEF ClisrvInv
<1>3. CASE at["server"] = 4
  <2>1. /\ at["client"] = 4 /\ at'["server"] = 5 /\ at'["client"] = 5
        /\ data = <<>> /\ got["client"] = <<>>
    BY <1>0, <1>3 DEF ClisrvInv
  <2> QED BY <1>1, <2>1 DEF ClisrvInv
<1> QED BY <1>2, <1>3

(* A write(), read() or close() of the server. *)
LEMMA ServerMoves ==
  ASSUME IInv, Moves("server")
  PROVE  ClisrvInv' /\ NoCrossTalk'
<1> DEFINE s == at["server"]
           c == at["client"]
<1>0. /\ ClisrvInv /\ NoCrossTalk /\ "server" \in Procs /\ "client" \in Procs
      /\ at["server"] \in 1..7 /\ at["client"] \in 1..7
      /\ got \in [Procs -> Seq(Procs)]
  BY ProcNames DEF IInv, TypeOK
<1>1. /\ st["server"] = "running" /\ demo = "clisrv"
      /\ UNCHANGED <<demo, st>>
      /\ at'["client"] = c /\ at'["server"] = s + 1
      /\ Writes("server", s) \/ Reads("server", s) \/ Closes("server", s)
  BY <1>0, Moving, Acting DEF mainVars
<1>2. got'["client"] = got["client"]
  BY <1>0 DEF Moves, Write, Read, ReadEof, Close
<1>3. CASE Read("server")
  <2>1. s = 2 /\ at'["server"] = 3
    BY <1>0, <1>1, <1>3, Moving DEF Reads
  <2>2. data # <<>> /\ data' = <<>> /\ got'["server"] = got["server"] \o data
    BY <1>0, <1>3 DEF Read
  <2>3. data = <<"client">> /\ c \in {3, 4} /\ got["server"] = <<>>
    BY <1>0, <1>1, <2>1, <2>2 DEF ClisrvInv
  <2>4. got'["server"] = <<"client">>
    BY <2>2, <2>3
  <2>5. NoCrossTalk'
    BY <1>0, <1>2, <2>4 DEF NoCrossTalk
  <2>6. ClisrvInv'
    BY <1>0, <1>1, <1>2, <2>1, <2>2, <2>3 DEF ClisrvInv
  <2> QED BY <2>5, <2>6
<1>4. CASE ReadEof("server")
  <2>1. s = 2 /\ at'["server"] = 3
    BY <1>0, <1>1, <1>4, Moving DEF Reads
  <2>2. data = <<>> /\ writers = {} /\ data' = data /\ got' = got
    BY <1>4 DEF ReadEof
  <2>3. c = 2 => st["client"] # "running"
    BY <1>0, <2>2 DEF IInv, EndsInv, HasW
  <2>4. NoCrossTalk'
    BY <1>0, <2>2 DEF NoCrossTalk
  <2>5. ClisrvInv'
    BY <1>0, <1>1, <2>1, <2>2, <2>3 DEF ClisrvInv
  <2> QED BY <2>4, <2>5
<1>5. CASE Write("server")
  <2>0. Writes("server", s)
    BY <1>0, <1>5, Moving DEF Moves
  <2>a. s = 5
    BY <2>0 DEF Writes
  <2>1. s = 5 /\ at'["server"] = 6
    BY <1>1, <2>a
  <2>2. readers # {} /\ data' = Append(data, "server") /\ got' = got
    BY <1>5 DEF Write
  <2>3. c = 5
    <3>1. PICK q \in Procs : q \in readers
      BY <2>2 DEF IInv, TypeOK
    <3>2. q \in {"server", "client"}
      BY <1>1, <3>1, Holding, MainEnds, Running
    <3>3. HasR(q, at[q]) \/ OpensR(q, at[q])
      BY <3>1, Holding
    <3>4. q = "client" /\ c \in {4, 5, 6}
      BY <2>1, <3>2, <3>3 DEF HasR, OpensR
    <3> QED BY <1>0, <1>1, <2>1, <3>4 DEF ClisrvInv
  <2>4. data = <<>>
    BY <1>0, <1>1, <2>1 DEF ClisrvInv
  <2>5. data' = <<"server">>
    BY <2>2, <2>4
  <2>6. NoCrossTalk'
    BY <1>0, <2>2 DEF NoCrossTalk
  <2>7. ClisrvInv'
    BY <1>0, <1>1, <2>1, <2>2, <2>3, <2>5 DEF ClisrvInv
  <2> QED BY <2>6, <2>7
<1>6. CASE Close("server")
  <2>1. s \in {3, 6} /\ got' = got
    BY <1>6, Moving, <1>0 DEF Closes, Close, Moves
  <2>2. data' = data \/ data' = <<>>
    BY <1>6 DEF Close, Release
  <2>3. NoCrossTalk'
    BY <1>0, <2>1 DEF NoCrossTalk
  <2>4. CASE s = 3
    <3>1. data' = <<>> /\ at'["server"] = 4
      BY <1>0, <1>1, <2>2, <2>4 DEF ClisrvInv
    <3> QED BY <1>0, <1>1, <2>1, <2>3, <2>4, <3>1 DEF ClisrvInv
  <2>5. CASE s = 6
    <3>1. at'["server"] = 7
      BY <1>1, <2>5
    <3> QED BY <1>0, <1>1, <2>1, <2>2, <2>3, <2>5, <3>1 DEF ClisrvInv
  <2> QED BY <2>1, <2>4, <2>5
<1> QED BY <1>3, <1>4, <1>5, <1>6 DEF Moves

(* A write(), read() or close() of the client. *)
LEMMA ClientMoves ==
  ASSUME IInv, Moves("client")
  PROVE  ClisrvInv' /\ NoCrossTalk'
<1> DEFINE s == at["server"]
           c == at["client"]
<1>0. /\ ClisrvInv /\ NoCrossTalk /\ "server" \in Procs /\ "client" \in Procs
      /\ at["server"] \in 1..7 /\ at["client"] \in 1..7
      /\ got \in [Procs -> Seq(Procs)]
  BY ProcNames DEF IInv, TypeOK
<1>1. /\ st["client"] = "running" /\ demo = "clisrv"
      /\ UNCHANGED <<demo, st>>
      /\ at'["server"] = s /\ at'["client"] = c + 1
      /\ Writes("client", c) \/ Reads("client", c) \/ Closes("client", c)
  BY <1>0, Moving, Acting DEF mainVars
<1>2. got'["server"] = got["server"]
  BY <1>0 DEF Moves, Write, Read, ReadEof, Close
<1>3. CASE Write("client")
  <2>1. c = 2 /\ at'["client"] = 3
    BY <1>0, <1>1, <1>3, Moving DEF Writes
  <2>2. data' = Append(data, "client") /\ got' = got
    BY <1>3 DEF Write
  <2>3. s = 2 /\ data = <<>>
    BY <1>0, <1>1, <2>1 DEF ClisrvInv
  <2>4. data' = <<"client">>
    BY <2>2, <2>3
  <2>5. NoCrossTalk'
    BY <1>0, <2>2 DEF NoCrossTalk
  <2>6. ClisrvInv'
    BY <1>0, <1>1, <2>1, <2>2, <2>3, <2>4 DEF ClisrvInv
  <2> QED BY <2>5, <2>6
<1>4. CASE Read("client")
  <2>0. Reads("client", c)
    BY <1>0, <1>4, Moving DEF Moves
  <2>a. c = 5
    BY <2>0 DEF Reads
  <2>1. c = 5 /\ at'["client"] = 6
    BY <1>1, <2>a
  <2>2. data # <<>> /\ data' = <<>> /\ got'["client"] = got["client"] \o data
    BY <1>0, <1>4 DEF Read
  <2>3. data = <<"server">> /\ s >= 6 /\ got["client"] = <<>>
    BY <1>0, <1>1, <2>1, <2>2 DEF ClisrvInv
  <2>4. got'["client"] = <<"server">>
    BY <2>2, <2>3
  <2>5. NoCrossTalk'
    BY <1>0, <1>2, <2>4 DEF NoCrossTalk
  <2>6. ClisrvInv'
    BY <1>0, <1>1, <1>2, <2>1, <2>2, <2>3 DEF ClisrvInv
  <2> QED BY <2>5, <2>6
<1>5. CASE ReadEof("client")
  <2>0. Reads("client", c)
    BY <1>0, <1>5, Moving DEF Moves
  <2>a. c = 5
    BY <2>0 DEF Reads
  <2>1. c = 5 /\ at'["client"] = 6
    BY <1>1, <2>a
  <2>2. data = <<>> /\ writers = {} /\ data' = data /\ got' = got
    BY <1>5 DEF ReadEof
  <2>3. s = 5 => st["server"] # "running"
    BY <1>0, <2>2 DEF IInv, EndsInv, HasW
  <2>4. s >= 6 \/ st["server"] # "running"
    BY <1>0, <2>1, <2>3 DEF ClisrvInv
  <2>5. NoCrossTalk'
    BY <1>0, <2>2 DEF NoCrossTalk
  <2>6. ClisrvInv'
    BY <1>0, <1>1, <2>1, <2>2, <2>4 DEF ClisrvInv
  <2> QED BY <2>5, <2>6
<1>6. CASE Close("client")
  <2>1. c \in {3, 6} /\ got' = got
    BY <1>6, Moving, <1>0 DEF Closes, Close, Moves
  <2>2. data' = data \/ data' = <<>>
    BY <1>6 DEF Close, Release
  <2>3. NoCrossTalk'
    BY <1>0, <2>1 DEF NoCrossTalk
  <2>4. CASE c = 3
    <3>1. at'["client"] = 4
      BY <1>1, <2>4
    <3> QED BY <1>0, <1>1, <2>1, <2>2, <2>3, <2>4, <3>1 DEF ClisrvInv
  <2>5. CASE c = 6
    <3>1. at'["client"] = 7 /\ data' = <<>>
      BY <1>0, <1>1, <2>2, <2>5 DEF ClisrvInv
    <3> QED BY <1>0, <1>1, <2>1, <2>3, <2>5, <3>1 DEF ClisrvInv
  <2> QED BY <2>1, <2>4, <2>5
<1> QED BY <1>3, <1>4, <1>5, <1>6 DEF Moves

(* The last demonstration: neither gets its own message back. *)
LEMMA StepClisrv ==
  ASSUME IInv, [Next]_vars
  PROVE  ClisrvInv' /\ NoCrossTalk'
<1>0. /\ TypeOK /\ FreshInv /\ "server" \in Procs /\ "client" \in Procs
      /\ st \in [Procs -> {"unborn", "running", "zombie", "reaped"}]
      /\ got \in [Procs -> Seq(Procs)]
  BY ProcNames DEF IInv, TypeOK
<1>1. CASE Mkfifo \/ ForkLaterFails \/ IoDone \/ Signal \/ OpenFails("main") \/ UNCHANGED vars
  <2>1. UNCHANGED <<demo, st, at, got, data>>
    BY <1>1 DEF Mkfifo, ForkLaterFails, IoDone, Signal, OpenFails, vars, mainVars
  <2> QED BY <2>1, ClisrvKept
<1>2. CASE Fork
  <2>1. /\ mpc = "fork" /\ UNCHANGED <<demo, at, got, data>>
        /\ st' = [st EXCEPT ![Forks(demo)[i]] = "running"]
    BY <1>2 DEF Fork, MainAt
  <2>2. \A q \in {"server", "client"} : st'[q] = st[q] \/ st[q] = "unborn"
    BY <1>0, <2>1, Forking
  <2>3. \A q \in {"server", "client"} : st[q] = "unborn" => at[q] = 1
    BY <1>0 DEF FreshInv
  <2> QED BY <2>1, <2>2, <2>3, ClisrvKept
<1>3. CASE Unlink
  <2>1. /\ UNCHANGED <<demo, at, got, data>>
        /\ st' = [st EXCEPT !["main"] = "zombie"]
    BY <1>3 DEF Unlink
  <2>2. \A q \in {"server", "client"} : st'[q] = st[q]
    BY <1>0, <2>1
  <2> QED BY <2>1, <2>2, ClisrvKept
<1>4. CASE Leaves
  <2>1. /\ mpc # "io" /\ UNCHANGED <<at, got, data>>
        /\ \A q \in Procs : st'[q] = st[q] \/ (st[q] = "zombie" /\ st'[q] = "reaped")
        /\ \A q \in Children : st'[q] \in {"unborn", "reaped"}
    BY <1>4, Leaving
  <2>2. \A q \in Children : st[q] # "running"
    BY <2>1 DEF Children
  <2>3. data = <<>>
    BY <2>1, <2>2, Quiet
  <2> QED BY <1>0, <2>1, <2>3, ClisrvKept
<1>5. CASE WaitsMore
  <2>1. UNCHANGED <<demo, at, got, data>>
    BY <1>5, WaitingMore
  <2>2. \A q \in Procs : st'[q] = st[q] \/ (st[q] = "zombie" /\ st'[q] = "reaped")
    BY <1>5, Waiting DEF WaitsMore
  <2> QED BY <1>0, <2>1, <2>2, ClisrvKept
<1>6. ASSUME NEW p \in Procs, Open(p)
      PROVE  ClisrvInv' /\ NoCrossTalk'
  <2>1. UNCHANGED <<demo, st, got, data>>
    BY <1>6, Opening DEF mainVars
  <2>2. CASE at' = at
    BY <2>1, <2>2, ClisrvKept
  <2>3. CASE /\ Advance(blocked \cup {p})
             /\ OpensR(p, at[p]) => writers # {}
             /\ OpensW(p, at[p]) => readers # {}
    <3> DEFINE B == blocked \cup {p}
    <3>1. \A q \in Procs : /\ q \in B => at'[q] = at[q] + 1
                           /\ q \notin B => at'[q] = at[q]
      BY <1>0, <2>3, Advancing
    <3>2. /\ demo = "basic" => B \subseteq {"main", "child"}
          /\ demo = "multi" => B \subseteq {"reader", "writer1", "writer2"}
          /\ demo = "clisrv" => /\ B = {"server", "client"}
                                /\ at["server"] = at["client"]
                                /\ at["server"] \in {1, 4}
          /\ demo \in {"basic", "multi", "clisrv"}
      BY <1>6, <2>3, Meeting
    <3> HIDE DEF B
    <3>3. CASE demo = "clisrv"
      <4>1. /\ at'["server"] = at["server"] + 1 /\ at'["client"] = at["client"] + 1
            /\ at["server"] = at["client"] /\ at["server"] \in {1, 4}
        BY <1>0, <3>1, <3>2, <3>3
      <4> QED BY <2>1, <3>3, <4>1, ClisrvMeet
    <3>4. CASE demo # "clisrv"
      <4>1. "server" \notin B /\ "client" \notin B
        BY <3>2, <3>4
      <4>2. at'["server"] = at["server"] /\ at'["client"] = at["client"]
        BY <1>0, <3>1, <4>1
      <4> QED BY <2>1, <3>4, <4>2, ClisrvKept
    <3> QED BY <3>3, <3>4
  <2> QED BY <1>6, <2>2, <2>3, Opening
<1>7. ASSUME NEW p \in Procs, Dies(p)
      PROVE  ClisrvInv' /\ NoCrossTalk'
  <2>1. /\ st' = [st EXCEPT ![p] = "zombie"]
        /\ data' = data \/ data' = <<>>
        /\ UNCHANGED <<demo, at, got>>
    BY <1>7, Dying DEF Die, Release, mainVars
  <2>2. \A q \in {"server", "client"} : st'[q] = "running" => st[q] = "running"
    BY <1>0, <2>1
  <2> QED BY <2>1, <2>2, ClisrvKept
<1>8. ASSUME NEW p \in Procs, Moves(p), p \notin {"server", "client"}
      PROVE  ClisrvInv' /\ NoCrossTalk'
  <2>1. /\ UNCHANGED <<demo, st>> /\ demo # "clisrv"
        /\ \A q \in Procs \ {p} : at'[q] = at[q]
    BY <1>8, Moving, Acting DEF mainVars
  <2>2. \A q \in Procs \ {p} : got'[q] = got[q]
    BY <1>0, <1>8 DEF Moves, Write, Read, ReadEof, Close
  <2>3. /\ at'["server"] = at["server"] /\ at'["client"] = at["client"]
        /\ got'["server"] = got["server"] /\ got'["client"] = got["client"]
    BY <1>0, <1>8, <2>1, <2>2
  <2> QED BY <2>1, <2>3, ClisrvKept
<1>9. ASSUME NEW p \in Procs, Moves(p)
      PROVE  ClisrvInv' /\ NoCrossTalk'
  BY <1>8, <1>9, ServerMoves, ClientMoves
<1> QED BY <1>1, <1>2, <1>3, <1>4, <1>5, <1>6, <1>7, <1>9, Steps DEF Moves

-----------------------------------------------------------------------------
(* The theorems *)

(* The inductive invariant holds in every reachable state, for any number  *)
(* of signals.                                                             *)
THEOREM Invariance == Spec => []IInv
<1>1. Init => IInv
  BY InitIInv
<1>2. IInv /\ [Next]_vars => IInv'
  BY StepTypeOK, StepCleanedUp, StepEnds, StepFresh, StepCast, StepMain, StepBasic,
     StepMulti, StepClisrv DEF IInv
<1> QED BY <1>1, <1>2, PTL DEF Spec

(* Type correctness: in particular main never gets past the non-blocking   *)
(* open() of the third demonstration (line 219), because no process has    *)
(* the FIFO open for reading then.                                         *)
THEOREM TypeCorrect == Spec => []TypeOK
<1>1. IInv => TypeOK
  BY DEF IInv
<1> QED BY <1>1, Invariance, PTL

(* However main ends, it leaves no FIFO behind. *)
THEOREM FifoIsCleanedUp == Spec => []CleanedUp
<1>1. IInv => CleanedUp
  BY DEF IInv
<1> QED BY <1>1, Invariance, PTL

(* Each demonstration starts without children, open ends and data of the   *)
(* earlier ones, whichever fork() failed and whoever was hit by a signal.  *)
THEOREM DemosAreSeparate == Spec => []NoLeftovers
<1>1. IInv => NoLeftovers
  <2> SUFFICES ASSUME IInv, mpc = "mkfifo"
               PROVE  /\ \A p \in Procs \ {"main"} : st[p] \in {"unborn", "reaped"}
                      /\ readers \cup writers = {} /\ data = <<>>
    BY DEF NoLeftovers
  <2>1. \A p \in Children : st[p] \in {"unborn", "reaped"}
    BY DEF IInv, CastInv
  <2>2. readers = {} /\ writers = {} /\ data = <<>>
    BY <2>1, Quiet
  <2> QED BY <2>1, <2>2 DEF Children
<1> QED BY <1>1, Invariance, PTL

(* Neither the server nor the client reads its own message. *)
THEOREM NoOwnMessages == Spec => []NoCrossTalk
<1>1. IInv => NoCrossTalk
  BY DEF IInv
<1> QED BY <1>1, Invariance, PTL

(* The reader has every message that was written, once, when it meets end  *)
(* of file.                                                                *)
THEOREM NothingIsLost == Spec => NoLossBeforeEof
<1>1. ASSUME IInv, [Next]_vars, at["reader"] = 2, at'["reader"] = 3
      PROVE  GotAll(got["reader"])
  <2>0. /\ "reader" \in Procs /\ TypeOK /\ got["reader"] \in Seq(Procs)
        /\ blocked \subseteq Procs
    BY <1>1, ProcNames DEF IInv, TypeOK
  <2>1. ~(Mkfifo \/ Fork \/ ForkLaterFails \/ IoDone \/ Unlink \/ Signal
          \/ OpenFails("main") \/ UNCHANGED vars)
    BY <1>1 DEF Mkfifo, Fork, ForkLaterFails, IoDone, Unlink, Signal, OpenFails, vars
  <2>2. ~Leaves
    BY <1>1, Leaving
  <2>3. ~WaitsMore
    BY <1>1, WaitingMore
  <2>4. PICK p \in Procs : Open(p) \/ Dies(p) \/ Moves(p)
    BY <1>1, <2>1, <2>2, <2>3, Steps DEF Moves
  <2>5. ~Dies(p)
    <3>1. Dies(p) => at' = at
      BY <1>1, Dying
    <3> QED BY <1>1, <3>1
  <2>6. ~Open(p)
    <3> SUFFICES ASSUME Open(p) PROVE FALSE
      OBVIOUS
    <3>1. Advance(blocked \cup {p}) /\ (OpensR(p, at[p]) \/ OpensW(p, at[p]))
      BY <1>1, Opening
    <3>2. "reader" \in blocked \cup {p}
      BY <1>1, <2>0, <3>1, Advancing
    <3>3. OpensR("reader", at["reader"]) \/ OpensW("reader", at["reader"])
      BY <1>1, <2>0, <3>1, <3>2, Holding
    <3> QED BY <1>1, <3>3 DEF OpensR, OpensW
  <2>7. p = "reader" /\ Moves("reader")
    BY <1>1, <2>0, <2>4, <2>5, <2>6, Moving
  <2>8. st["reader"] = "running" /\ ReadEof("reader")
    <3>1. ~Write("reader") /\ ~Read("reader")
      BY <1>1, <2>7, Moving DEF Writes
    <3>2. ~Closes("reader", at["reader"])
      BY <1>1 DEF Closes
    <3>3. ~Close("reader")
      BY <1>1, <2>7, <3>2, Moving
    <3>4. Active("reader")
      BY <1>1, <2>7, Moving
    <3> QED BY <2>7, <3>1, <3>3, <3>4 DEF Moves, Active, Able
  <2>9. data = <<>>
    BY <2>8 DEF ReadEof
  <2>10. GotAll(got["reader"] \o data)
    BY <1>1, <2>8 DEF IInv, MultiInv
  <2>11. got["reader"] \o data = got["reader"]
    BY <2>0, <2>9, ConcatEmptySeq
  <2> QED BY <2>10, <2>11
<1>2. IInv /\ [Next]_vars => [at["reader"] = 2 /\ at'["reader"] = 3 => GotAll(got["reader"])]_vars
  BY <1>1
<1> QED BY <1>2, Invariance, PTL DEF Spec, NoLossBeforeEof
=============================================================================
