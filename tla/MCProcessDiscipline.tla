------------------------ MODULE MCProcessDiscipline ------------------------
(***************************************************************************)
(* The rules of module ProcessDiscipline, evaluated by TLC on the text of  *)
(* the programs of modules ProcessPrograms and IpcPrograms, with one round *)
(* of every loop, two or three.  The module of a run about something else  *)
(* extends this one: the run of Processes itself makes no use of the rules *)
(* and is as good for programs that break them.                            *)
(***************************************************************************)
EXTENDS Integers, Sequences, FiniteSets, TLC

(* The same function, written out, so that TLC computes its values once.   *)
Table(f) == f @@ <<>>

ProcessCode(n) == INSTANCE IpcPrograms WITH Loops <- n

(* The rules for the program code with the marks m. *)
ProcessRules(code, m) ==
    INSTANCE ProcessDiscipline
        WITH Code <- code, Marks <- m,
             Vars <- {"work1", "work2", "work3", "flag", "buf", "cnt", "out",
                      "ready", "req", "type1", "type2", "out2", "semid",
                      "otime", "wsem", "rsem", "sem", "tries", "dir", "seq",
                      "raw", "file", "log", "len", "off1", "off2", "created",
                      "status"},
             BinarySems <- {"wsem", "rsem"},
             Pipes <- {"p", "q", "p2", "q2", "self", "f", "in", "tty",
                       "notify"},
             Queues <- {"srv", "resp1", "resp2", "mq", "main", "client1",
                        "client2"},
             Signals <- {"USR1", "INT", "QUIT", "CHLD", "ALRM", "PIPE", "TTOU",
                         "STOP", "HUP", "CONT", "ABRT", "KILL", "TERM"}

-----------------------------------------------------------------------------
(* The marks of the program g: what is known at the start of the processes *)
(* that nobody forks goes along the edges of the text until nothing is     *)
(* added.  A place to which several marks come keeps only the token.       *)
(* A fact is a process, a place and a mark.                                *)
Onward(code, g, fact) ==
    LET p == fact[1]
        i == fact[2]
        call == code[g][p][i]
    IN  IF i > Len(code[g][p]) THEN {}
        ELSE {<<p, e[1], e[2]>> : e \in ProcessRules(code, <<>>)!Edges(call, i, fact[3])}
             \cup IF call.op = "fork"
                  THEN {<<call.x, 1, ProcessRules(code, <<>>)!ForkMark(fact[3])>>} ELSE {}

RECURSIVE Facts(_, _, _, _)
Facts(code, g, old, new) ==
    IF new = {} THEN old
    ELSE LET all == old \cup new
         IN  Facts(code, g, all, UNION {Onward(code, g, f) : f \in new} \ all)

FirstFacts(code, g) ==
    {<<p, 1, ProcessRules(code, <<>>)!Fresh("none")>> : p \in
        {q \in DOMAIN code[g] :
           \A r \in DOMAIN code[g] : ~ProcessRules(code, <<>>)!Forks(g, r, q)}}

MarksOf(code, g) ==
    LET facts == Facts(code, g, {}, FirstFacts(code, g))
        At(p, i) == {f[3] : f \in {h \in facts : h[1] = p /\ h[2] = i}}
        One(S) == CHOOSE k \in S : TRUE
    IN  Table([p \in DOMAIN code[g] |->
           Table([i \in {f[2] : f \in {h \in facts : h[1] = p}} |->
              IF Cardinality(At(p, i)) = 1 THEN One(At(p, i))
              ELSE ProcessRules(code, <<>>)!Forget(One(At(p, i)))])])

(* Every program keeps the rules, with the marks that its text gives. *)
ASSUME ProcessesAreDisciplined ==
    \A n \in 1..3 : \E all \in {ProcessCode(n)!EveryProgram} :
        \A g \in DOMAIN all : \E code \in {g :> all[g]} :
            \E m \in {g :> MarksOf(code, g)} : ProcessRules(code, m)!Disciplined
=============================================================================
