---------------------------- MODULE InotifyDtree ----------------------------
(***************************************************************************)
(* tlpi-dist/inotify: inotify_dtree.c keeps a cache of the pathnames of    *)
(* the directories under its root directories, from inotify events, and    *)
(* rand_dtree.c creates, deletes and renames directories there.            *)
(*                                                                         *)
(* A pathname is a sequence of names, a directory an i-node with its       *)
(* current pathname.  The kernel keeps the watches and the queue of events *)
(* of the one inotify instance.  The cache is the set of its slots in use; *)
(* which slot an entry is in is left out.  nftw() visits one directory per *)
(* step, so the tree may change under it.  rename() changes the tree and   *)
(* then queues its two events one by one.                                  *)
(***************************************************************************)
EXTENDS Naturals, FiniteSets, SequencesExt

CONSTANTS Names,        \* names of subdirectories
          RootDirs,     \* the directories on the command line
          Outside,      \* directories that are not monitored
          Mounts,       \* the root directories that are mount points
          FirstDirs,    \* the directories there are when the program starts
          TestDir,      \* the directory argument of rand_dtree
          Mode,         \* mutators: what each does, "c", "d", "m" or "user"
          DLIM,         \* rand_dtree's bound on a pathname, as a depth
          ReadMax,      \* events that fit into the read buffer (-b)
          MaxQueue,     \* max_queued_events
          abortOnCacheProblem,  \* without option -a, with it, or both
          MaxOps        \* bound: operations on the tree, commands typed and
                        \* failures of inotify_add_watch()

(* A pathname: a directory at the top, then names of subdirectories.       *)
AllNames == Names \cup RootDirs \cup Outside
Paths == {p \in Seq(AllNames) : /\ p # <<>>
                                /\ \A k \in 2..Len(p) : p[k] \in Names}

ASSUME DtreeAssumption ==
    /\ FirstDirs \subseteq Paths /\ IsFiniteSet(FirstDirs)
    /\ \A p \in FirstDirs : Len(p) > 1 => Front(p) \in FirstDirs
    /\ Mounts \subseteq RootDirs /\ TestDir \in RootDirs
    /\ RootDirs \cap Outside = {}
    /\ {<<d>> : d \in RootDirs \cup Outside} \subseteq FirstDirs
    /\ {DLIM, ReadMax, MaxQueue} \subseteq Nat \ {0}
    /\ MaxOps \in Nat
    /\ abortOnCacheProblem \subseteq BOOLEAN

VARIABLES tree,         \* the directories: [ino, path]
          nextIno,
          watches,      \* [wd, ino, self]: self when IN_MOVE_SELF is watched
          nextWd,
          queue,        \* unread events of the inotify instance
          pc,           \* where inotify_dtree is
          ret,          \* where it goes after nftw()
          buf,          \* unprocessed events of processInotifyEvents
          firstTry,
          cache,        \* wlCache: [wd, path]
          rootDirPaths, \* the root directories still monitored
          walk,         \* nftw(): the directories being traversed
          job,          \* what each mutator is doing
          ops, stop, mounted,
          raced         \* history: a directory was removed or renamed while
                        \* earlier changes were still to be processed, one
                        \* root directory was moved into another, a file
                        \* system was unmounted, or a command dropped entries
                        \* or added a directory outside the roots

fsVars == <<tree, nextIno, mounted>>
kernel == <<watches, nextWd, queue>>
monitor == <<pc, ret, buf, firstTry, cache, rootDirPaths, walk>>
mutators == <<job, ops>>
vars == <<fsVars, kernel, monitor, mutators, stop, raced>>

Mutators == DOMAIN Mode

-----------------------------------------------------------------------------
(* The file system and the inotify instance (external).                    *)

Exists(p) == p = <<>> \/ \E d \in tree : d.path = p
InoAt(p) == IF p = <<>> THEN 0 ELSE (CHOOSE d \in tree : d.path = p).ino
Children(i) == {d \in tree : Len(d.path) > 1 /\ InoAt(Front(d.path)) = i}
Move(p, from, to) == to \o SubSeq(p, Len(from) + 1, Len(p))

Event(wd, mask, name, cookie) ==
    [wd |-> wd, mask |-> mask, name |-> name, cookie |-> cookie]
Overflow == Event(0, "IN_Q_OVERFLOW", "", 0)

(* Events for the queue: one that is the same as the last one is merged    *)
(* with it, and a full queue gets one overflow event instead of the rest.  *)
Notify(q, events) ==
    LET merged == q # <<>> /\ events # <<>> /\ Last(q) = Head(events)
        new == IF merged THEN Tail(events) ELSE events
        room == IF Len(q) < MaxQueue THEN MaxQueue - Len(q) ELSE 0
        full == q \o SubSeq(new, 1, room)
    IN  IF Len(new) <= room THEN q \o new
        ELSE IF Overflow \in ToSet(full) THEN full
        ELSE Append(full, Overflow)

(* The events of a directory i-node, if it is watched.                     *)
EventsOf(i, mask, name, cookie) ==
    SetToSeq({Event(w.wd, mask, name, cookie) :
              w \in {x \in watches : x.ino = i}})
(* Directories are gone, each with its watch: two events for every one.    *)
Gone(inos, mask) ==
    LET wds == SetToSeq({w.wd : w \in {x \in watches : x.ino \in inos}}) IN
    [k \in 1..2 * Len(wds) |->
        Event(wds[(k + 1) \div 2],
              IF k % 2 = 1 THEN mask ELSE "IN_IGNORED", "", 0)]

Settled ==
    /\ pc = "select" /\ queue = <<>>
    /\ \A m \in Mutators : job[m].pc # "moved"

-----------------------------------------------------------------------------
(* rand_dtree: the mutators in modes c, d and m.  A mutator chooses from   *)
(* the list of directories it has made, and what it chose may be gone when *)
(* it is used.  The names it makes up are new; here a new name is the first *)
(* one that is free in the directory, so that names are used again, as     *)
(* other programs do.                                                      *)

Idle == [pc |-> "list", path |-> <<>>, to |-> <<>>, ino |-> 0, dir |-> 0,
         cookie |-> 0]
getDirList == {d.path : d \in {x \in tree : x.path[1] = TestDir}}
Free(d) == {n \in Names : ~Exists(Append(d, n))}
NewPath(d) == Append(d, CHOOSE n \in Free(d) : TRUE)
NewPaths(dirs) == {NewPath(d) : d \in {x \in dirs : Len(x) < DLIM /\ Free(x) # {}}}

Choose(m, mode, place) ==
    /\ Mode[m] = mode /\ job[m].pc = "list" /\ ~stop /\ ops < MaxOps
    /\ ops' = ops + 1
    /\ job' = [job EXCEPT ![m] = [place EXCEPT !.cookie = ops + 1]]
    /\ UNCHANGED <<fsVars, kernel, monitor, stop, raced>>

ChooseCreate(m) == \E p \in NewPaths(getDirList) :
    Choose(m, "c", [Idle EXCEPT !.pc = "mkdir", !.path = p])

ChooseDelete(m) == \E p \in getDirList :
    /\ Len(p) > 1
    /\ Choose(m, "d", [Idle EXCEPT !.pc = "rmdir", !.path = p])

ChooseRename(m) == \E p \in getDirList, q \in NewPaths(getDirList) :
    /\ Cardinality(getDirList) >= 3 /\ Len(p) > 1
    /\ Choose(m, "m", [Idle EXCEPT !.pc = "rename", !.path = p, !.to = q])

(* Other programs rename and remove root directories, and move directories *)
(* from one tree to another, into and out of the monitored ones.           *)
ChooseUser(m) ==
    LET dirs == {d.path : d \in tree} IN
    \E p \in dirs :
        \/ \E q \in NewPaths(dirs) :
             /\ p[1] # q[1]
             /\ Choose(m, "user", [Idle EXCEPT !.pc = "rename", !.path = p,
                                               !.to = q])
        \/ /\ p[1] \in RootDirs /\ Len(p) = 1
           /\ Choose(m, "user", [Idle EXCEPT !.pc = "rmdir", !.path = p])

(* mkdir() in a chain of subdirectories of random length.                  *)
Mkdir(m) ==
    LET p == job[m].path
        made == Exists(Front(p)) /\ ~Exists(p)
    IN
    /\ job[m].pc = "mkdir"
    /\ IF made
       THEN /\ tree' = tree \cup {[ino |-> nextIno, path |-> p]}
            /\ nextIno' = nextIno + 1
            /\ queue' = Notify(queue, EventsOf(InoAt(Front(p)), "IN_CREATE",
                                               Last(p), 0))
       ELSE UNCHANGED <<tree, nextIno, queue>>
    /\ \/ job' = [job EXCEPT ![m] = Idle]
       \/ /\ Len(p) < DLIM /\ Free(p) # {}
          /\ job' = [job EXCEPT ![m].path = NewPath(p)]
    /\ UNCHANGED <<mounted, watches, nextWd, monitor, ops, stop, raced>>

(* rmdir() of a directory and then of its parents, until one fails or is   *)
(* not rand_dtree's own.                                                   *)
Rmdir(m) ==
    LET p == job[m].path
        i == InoAt(p)
        done == Exists(p) /\ Children(i) = {}
    IN
    /\ job[m].pc = "rmdir"
    /\ IF done
       THEN /\ tree' = {d \in tree : d.path # p}
            /\ watches' = {w \in watches : w.ino # i}
            /\ queue' = Notify(queue, Gone({i}, "IN_DELETE_SELF"))
            /\ raced' = (raced \/ ~Settled)
       ELSE UNCHANGED <<tree, watches, queue, raced>>
    /\ job' = [job EXCEPT ![m] = IF done /\ Len(p) > 2
                                 THEN [@ EXCEPT !.path = Front(p)] ELSE Idle]
    /\ UNCHANGED <<nextIno, mounted, nextWd, monitor, ops, stop>>

(* rename(): the tree changes, and IN_MOVED_FROM is queued.                *)
Rename(m) ==
    LET p == job[m].path
        q == job[m].to
        isRoot == Len(p) = 1 /\ p[1] \in rootDirPaths
    IN
    /\ job[m].pc = "rename"
    /\ IF Exists(p) /\ Exists(Front(q)) /\ ~Exists(q) /\ ~IsPrefix(p, q)
       THEN /\ tree' = {IF IsPrefix(p, d.path)
                        THEN [d EXCEPT !.path = Move(@, p, q)] ELSE d :
                        d \in tree}
            /\ queue' = Notify(queue, EventsOf(InoAt(Front(p)),
                                 "IN_MOVED_FROM", Last(p), job[m].cookie))
            /\ job' = [job EXCEPT ![m].pc = "moved", ![m].ino = InoAt(p),
                                  ![m].dir = InoAt(Front(q))]
            /\ raced' = (raced \/ ~Settled \/ (isRoot /\ q[1] \in rootDirPaths))
       ELSE /\ job' = [job EXCEPT ![m] = Idle]
            /\ UNCHANGED <<tree, queue, raced>>
    /\ UNCHANGED <<nextIno, mounted, watches, nextWd, monitor, ops, stop>>

(* rename(): IN_MOVED_TO and, if it is watched for, IN_MOVE_SELF.          *)
RenameTo(m) ==
    LET self == {w \in watches : w.ino = job[m].ino /\ w.self} IN
    /\ job[m].pc = "moved"
    /\ queue' = Notify(queue,
                   EventsOf(job[m].dir, "IN_MOVED_TO", Last(job[m].to),
                            job[m].cookie)
                   \o (IF self = {} THEN <<>>
                       ELSE EventsOf(job[m].ino, "IN_MOVE_SELF", "", 0)))
    /\ job' = [job EXCEPT ![m] = Idle]
    /\ UNCHANGED <<fsVars, watches, nextWd, monitor, ops, stop, raced>>

(* A file system is unmounted, which leaves the empty mount point.         *)
Unmount(r) ==
    LET lost == {d \in tree : d.path[1] = r}
        inos == {d.ino : d \in lost}
    IN
    /\ r \in mounted /\ ops < MaxOps
    /\ mounted' = mounted \ {r}
    /\ tree' = (tree \ lost) \cup {[ino |-> nextIno, path |-> <<r>>]}
    /\ nextIno' = nextIno + 1
    /\ watches' = {w \in watches : w.ino \notin inos}
    /\ queue' = Notify(queue, Gone(inos, "IN_UNMOUNT"))
    /\ ops' = ops + 1
    /\ raced' = TRUE
    /\ UNCHANGED <<nextWd, monitor, job, stop>>

-----------------------------------------------------------------------------
(* inotify_dtree: the cache.                                               *)

findWatch(wd) == {c \in cache : c.wd = wd}
PathOf(wd) == (CHOOSE c \in cache : c.wd = wd).path
pathnameInCache(p) == \E c \in cache : c.path = p
isRootDirPath(p) == Len(p) = 1 /\ p[1] \in rootDirPaths
CachedUnder(p) == {c \in cache : IsPrefix(p, c.path)}
Watched == {w.wd : w \in watches}

(* The process is gone, and with it the inotify instance.                  *)
Exit(how) ==
    /\ pc' = how
    /\ cache' = {} /\ watches' = {} /\ queue' = <<>> /\ buf' = <<>>
    /\ walk' = <<>>
    /\ UNCHANGED <<nextWd, ret, firstTry, rootDirPaths>>

(* Go on with the events rest of the buffer, or back to select().          *)
Resume(rest) == IF rest = <<>> THEN "select" ELSE "process"
Advance(rest) == buf' = rest /\ pc' = Resume(rest) /\ firstTry' = TRUE

(* A directory of the traversal, unless it is done with.                   *)
Frame(p, names) == [path |-> p, ino |-> 0, names |-> names]
Unfinished(f) == IF f.ino = 0 /\ f.names = {} THEN <<>> ELSE <<f>>
Continue(frames) ==
    /\ walk' = frames
    /\ pc' = IF frames = <<>> THEN ret ELSE "walk"

(* watchSubtree: a traversal that starts at p and goes on at place.        *)
watchSubtree(p, place) ==
    /\ walk' = <<Frame(Front(p), {Last(p)})>>
    /\ ret' = place /\ pc' = "walk"

(* Mutant: the events left in the read buffer are not discarded. *)
reinitializeKeepsBuffer(roots, place) ==
    /\ watches' = {} /\ nextWd' = 1 /\ queue' = <<>> /\ cache' = {}
    /\ UNCHANGED buf /\ firstTry' = TRUE
    /\ walk' = <<Frame(<<>>, roots)>>
    /\ ret' = place /\ pc' = "walk"
    /\ raced' = FALSE

(* reinitialize: a new inotify instance and an empty cache, and the        *)
(* traversal of the root directories.  What is left in the read buffer is  *)
(* discarded.                                                              *)
reinitialize(roots, place) ==
    /\ watches' = {} /\ nextWd' = 1 /\ queue' = <<>> /\ cache' = {}
    /\ buf' = <<>> /\ firstTry' = TRUE
    /\ walk' = <<Frame(<<>>, roots)>>
    /\ ret' = place /\ pc' = "walk"
    /\ raced' = FALSE

(* Mutant: a directory that is already watched gets a second entry. *)
CacheEntryAgain(wd, p) == cache \cup {[wd |-> wd, path |-> p]}

(* traverseTree: what the cache is after the watch wd was added for p.     *)
CacheEntry(wd, p) ==
    IF findWatch(wd) # {} THEN cache ELSE cache \cup {[wd |-> wd, path |-> p]}

(* nftw() returns -1: the traversal is given up, and only the calls for    *)
(* other root directories are still to come.                               *)
Abandoned(frames) ==
    IF frames # <<>> /\ Last(frames).path = <<>> THEN <<Last(frames)>> ELSE <<>>

(* traverseTree: the call of nftw() for one name of a directory.  A name   *)
(* that is gone is passed over, unless it goes when nftw() is about to     *)
(* open the directory.                                                     *)
Visit ==
    /\ pc = "walk" /\ Head(walk).ino = 0
    /\ \E n \in Head(walk).names :
         LET p == Append(Head(walk).path, n)
             rest == Unfinished([Head(walk) EXCEPT !.names = @ \ {n}])
                     \o Tail(walk)
             old == {w \in watches : w.ino = InoAt(p)}
             wd == IF old = {} THEN nextWd ELSE (CHOOSE w \in old : TRUE).wd
         IN IF Exists(p)
            THEN /\ watches' = (watches \ old) \cup
                     {[wd |-> wd, ino |-> InoAt(p), self |-> isRootDirPath(p)]}
                 /\ nextWd' = IF old = {} THEN nextWd + 1 ELSE nextWd
                 /\ cache' = CacheEntry(wd, p)
                 /\ Continue(<<[Frame(p, {}) EXCEPT !.ino = InoAt(p)]>> \o rest)
            ELSE /\ Continue(rest) \/ Continue(Abandoned(rest))
                 /\ UNCHANGED <<watches, nextWd, cache>>
    /\ UNCHANGED <<fsVars, queue, ret, buf, firstTry, rootDirPaths, mutators,
                   stop, raced>>

(* inotify_add_watch() fails for another reason, as when there are too     *)
(* many watches: the program gives up.                                     *)
WatchFails ==
    /\ pc = "walk" /\ Head(walk).ino = 0 /\ ops < MaxOps
    /\ ops' = ops + 1
    /\ Exit("exit")
    /\ UNCHANGED <<fsVars, job, stop, raced>>

(* nftw() reads the entries of the directory it has opened.                *)
ReadDir ==
    /\ pc = "walk" /\ Head(walk).ino # 0
    /\ Continue(Unfinished(Frame(Head(walk).path,
                     {Last(d.path) : d \in Children(Head(walk).ino)}))
                \o Tail(walk))
    /\ UNCHANGED <<fsVars, kernel, ret, buf, firstTry, cache, rootDirPaths,
                   mutators, stop, raced>>

-----------------------------------------------------------------------------
(* processInotifyEvents and processNextInotifyEvent.                       *)

ReadEvents ==
    /\ pc \in {"select", "read"} /\ queue # <<>>
    /\ LET k == IF Len(queue) < ReadMax THEN Len(queue) ELSE ReadMax IN
         /\ buf' = SubSeq(queue, 1, k)
         /\ queue' = SubSeq(queue, k + 1, Len(queue))
    /\ pc' = "process" /\ firstTry' = TRUE
    /\ UNCHANGED <<fsVars, watches, nextWd, ret, cache, rootDirPaths, walk,
                   mutators, stop, raced>>

ev == Head(buf)
Processing(masks) ==
    /\ pc = "process" /\ ev.mask \in masks
    /\ UNCHANGED <<fsVars, mutators>>
Found(masks) == Processing(masks) /\ findWatch(ev.wd) # {}

(* A rename() of which both events are in the buffer, one after the other. *)
Pair ==
    /\ Len(buf) > 1 /\ buf[2].mask = "IN_MOVED_TO"
    /\ buf[2].cookie = ev.cookie

(* findWatchChecked fails: the cache is built again, or the program aborts *)
(* and leaves the stop file.                                               *)
CacheProblem ==
    /\ Processing({"IN_CREATE", "IN_DELETE_SELF", "IN_MOVED_FROM",
                   "IN_MOVED_TO", "IN_MOVE_SELF", "IN_UNMOUNT"})
    /\ \/ findWatch(ev.wd) = {}
       \/ ev.mask = "IN_MOVED_FROM" /\ Pair /\ findWatch(buf[2].wd) = {}
    /\ \/ /\ TRUE \in abortOnCacheProblem
          /\ Exit("abort") /\ stop' = TRUE /\ UNCHANGED raced
       \/ /\ FALSE \in abortOnCacheProblem
          /\ reinitialize(rootDirPaths, "select")
          /\ UNCHANGED <<rootDirPaths, stop>>

Ignored ==
    /\ Processing({"IN_IGNORED"})
    /\ Advance(Tail(buf))
    /\ UNCHANGED <<kernel, ret, cache, rootDirPaths, walk, stop, raced>>

QueueOverflow ==
    /\ Processing({"IN_Q_OVERFLOW"})
    /\ reinitialize(rootDirPaths, "select")
    /\ UNCHANGED <<rootDirPaths, stop>>

(* A directory was created in, or moved into, a monitored directory.       *)
Created ==
    /\ Found({"IN_CREATE", "IN_MOVED_TO"})
    /\ LET fullPath == Append(PathOf(ev.wd), ev.name) IN
         IF pathnameInCache(fullPath)
         THEN Advance(Tail(buf)) /\ UNCHANGED <<ret, walk>>
         ELSE /\ watchSubtree(fullPath, Resume(Tail(buf)))
              /\ buf' = Tail(buf) /\ firstTry' = TRUE
    /\ UNCHANGED <<kernel, cache, rootDirPaths, stop, raced>>

(* zapRootDirPath of path p, which the program does not survive if it is   *)
(* the last one.                                                           *)
LastRoot(p) == rootDirPaths = {p[1]}

DeleteSelf ==
    /\ Found({"IN_DELETE_SELF"})
    /\ LET p == PathOf(ev.wd) IN
         IF isRootDirPath(p) /\ LastRoot(p)
         THEN Exit("exit")
         ELSE /\ rootDirPaths' = IF isRootDirPath(p) THEN rootDirPaths \ {p[1]}
                                 ELSE rootDirPaths
              /\ cache' = cache \ findWatch(ev.wd)
              /\ Advance(Tail(buf))
              /\ UNCHANGED <<kernel, ret, walk>>
    /\ UNCHANGED <<stop, raced>>

Unmounted ==
    /\ Found({"IN_UNMOUNT"})
    /\ cache' = cache \ findWatch(ev.wd)
    /\ Advance(Tail(buf))
    /\ UNCHANGED <<kernel, ret, rootDirPaths, walk, stop, raced>>

(* Mutant: the subdirectories keep their old pathnames. *)
rewriteOnePath(from, to) ==
    {IF c.path = from THEN [c EXCEPT !.path = to] ELSE c : c \in cache}

(* The entries of from and its subdirectories get their new pathnames.     *)
rewriteCachedPaths(from, to) ==
    {IF IsPrefix(from, c.path) THEN [c EXCEPT !.path = Move(@, from, to)]
     ELSE c : c \in cache}

(* Both events of a rename are consumed.                                   *)
MovedWithin ==
    /\ Found({"IN_MOVED_FROM"}) /\ Pair /\ findWatch(buf[2].wd) # {}
    /\ cache' = rewriteCachedPaths(Append(PathOf(ev.wd), ev.name),
                                   Append(PathOf(buf[2].wd), buf[2].name))
    /\ Advance(SubSeq(buf, 3, Len(buf)))
    /\ UNCHANGED <<kernel, ret, rootDirPaths, walk, stop, raced>>

(* zapSubtree: inotify_rm_watch() fails for a watch the kernel has already *)
(* removed; otherwise it queues IN_IGNORED.                                *)
CanZap(p) == \A c \in CachedUnder(p) : c.wd \in Watched
ZapEntries(entries) ==
    /\ cache' = cache \ entries
    /\ watches' = {w \in watches : w.wd \notin {c.wd : c \in entries}}
    /\ queue' = Notify(queue, SetToSeq({Event(c.wd, "IN_IGNORED", "", 0) :
                                        c \in entries}))
    /\ UNCHANGED nextWd
zapSubtree(p, roots, rest) ==
    IF CanZap(p)
    THEN /\ ZapEntries(CachedUnder(p))
         /\ Advance(rest)
         /\ UNCHANGED <<ret, walk, raced>>
    ELSE reinitialize(roots, "select")

(* IN_MOVED_FROM without its IN_MOVED_TO: a move out of the tree.          *)
MovedOut ==
    /\ Found({"IN_MOVED_FROM"}) /\ ~Pair
    /\ Len(buf) > 1 \/ ~firstTry
    /\ zapSubtree(Append(PathOf(ev.wd), ev.name), rootDirPaths, Tail(buf))
    /\ UNCHANGED <<rootDirPaths, stop>>

(* A root directory was renamed and is monitored no more.                  *)
MoveSelf ==
    /\ Found({"IN_MOVE_SELF"})
    /\ LET p == PathOf(ev.wd) IN
         CASE ~isRootDirPath(p) ->
                /\ Advance(Tail(buf))
                /\ UNCHANGED <<kernel, ret, cache, rootDirPaths, walk, raced>>
           [] isRootDirPath(p) /\ LastRoot(p) -> Exit("exit") /\ UNCHANGED raced
           [] OTHER ->
                /\ rootDirPaths' = rootDirPaths \ {p[1]}
                /\ zapSubtree(p, rootDirPaths', Tail(buf))
    /\ UNCHANGED stop

(* Mutant: firstTry stays set, so the event is never taken for a move out. *)
HangingAgain ==
    /\ Found({"IN_MOVED_FROM"}) /\ Len(buf) = 1 /\ firstTry
    /\ pc' = "hang"
    /\ UNCHANGED <<kernel, ret, buf, firstTry, cache, rootDirPaths, walk, stop,
                   raced>>

(* IN_MOVED_FROM at the end of the buffer: read once more, with a timeout. *)
Hanging ==
    /\ Found({"IN_MOVED_FROM"}) /\ Len(buf) = 1 /\ firstTry
    /\ pc' = "hang" /\ firstTry' = FALSE
    /\ UNCHANGED <<kernel, ret, buf, cache, rootDirPaths, walk, stop, raced>>

(* How many events fit into the rest of the buffer depends on their names. *)
SecondRead ==
    /\ pc \in {"hang", "blocked"} /\ queue # <<>>
    /\ \E k \in 1..Len(queue) :
         /\ buf' = buf \o SubSeq(queue, 1, k)
         /\ queue' = SubSeq(queue, k + 1, Len(queue))
    /\ pc' = "process"
    /\ UNCHANGED <<fsVars, watches, nextWd, ret, firstTry, cache, rootDirPaths,
                   walk, mutators, stop, raced>>

(* SIGALRM interrupts the read(), or comes before it and the read() stays  *)
(* blocked until there is an event.                                        *)
Alarm ==
    /\ pc = "hang" /\ queue = <<>>
    /\ pc' \in {"process", "blocked"}
    /\ UNCHANGED <<fsVars, kernel, ret, buf, firstTry, cache, rootDirPaths,
                   walk, mutators, stop, raced>>

-----------------------------------------------------------------------------
(* executeCommand: the commands that change the cache.  The events are     *)
(* read after a command if select() had found some, and read() blocks when *)
(* the command has thrown them away.                                       *)

Command ==
    /\ pc = "select" /\ ops < MaxOps
    /\ ops' = ops + 1
    /\ UNCHANGED <<fsVars, job, firstTry, stop>>
AfterCommand == IF queue = <<>> THEN "select" ELSE "read"
Arguments == {d.path : d \in tree} \cup {c.path : c \in cache}

(* What zapSubtree removes when its failure is not looked at: everything,  *)
(* or the entries before the first it cannot remove.                       *)
Zapped(p) == IF CanZap(p) THEN {CachedUnder(p)}
             ELSE SUBSET {c \in CachedUnder(p) : c.wd \in Watched}

AddSubtree(p) ==
    /\ Command
    /\ \E entries \in Zapped(p) : ZapEntries(entries)
    /\ watchSubtree(p, AfterCommand)
    /\ raced' = (raced \/ ~Settled \/ p[1] \notin rootDirPaths)
    /\ UNCHANGED <<buf, rootDirPaths>>

ZapSubtree(p) ==
    /\ Command
    /\ \E entries \in Zapped(p) : ZapEntries(entries)
    /\ pc' = AfterCommand
    /\ raced' = TRUE
    /\ UNCHANGED <<ret, buf, rootDirPaths, walk>>

RebuildCache ==
    /\ pc = "select" /\ ops < MaxOps
    /\ ops' = ops + 1
    /\ reinitialize(rootDirPaths, AfterCommand)
    /\ UNCHANGED <<fsVars, job, rootDirPaths, stop>>

Quit ==
    /\ pc = "select" /\ ops < MaxOps
    /\ ops' = ops + 1
    /\ Exit("exit")
    /\ UNCHANGED <<fsVars, job, stop, raced>>

executeCommand ==
    \/ \E p \in Arguments : AddSubtree(p) \/ ZapSubtree(p)
    \/ RebuildCache
    \/ Quit

-----------------------------------------------------------------------------
(* main: the first call of reinitialize, with some directories there.      *)
FirstTree == LET dirs == SetToSeq(FirstDirs) IN
    {[ino |-> k, path |-> dirs[k]] : k \in DOMAIN dirs}

Init ==
    /\ tree = FirstTree
    /\ nextIno = Cardinality(FirstDirs) + 1
    /\ mounted = Mounts
    /\ watches = {} /\ nextWd = 1 /\ queue = <<>>
    /\ pc = "walk" /\ ret = "select" /\ buf = <<>> /\ firstTry = TRUE
    /\ cache = {} /\ rootDirPaths = RootDirs
    /\ walk = <<Frame(<<>>, RootDirs)>>
    /\ job = [m \in Mutators |-> Idle]
    /\ ops = 0 /\ stop = FALSE /\ raced = FALSE

MonitorStep ==
    \/ Visit \/ ReadDir \/ ReadEvents
    \/ CacheProblem \/ Ignored \/ QueueOverflow \/ Created \/ DeleteSelf
    \/ Unmounted \/ MovedWithin \/ MovedOut \/ MoveSelf \/ Hanging
    \/ SecondRead \/ Alarm

MutatorStep(m) ==
    \/ ChooseCreate(m) \/ ChooseDelete(m) \/ ChooseRename(m) \/ ChooseUser(m)
    \/ Mkdir(m) \/ Rmdir(m) \/ Rename(m) \/ RenameTo(m)

Next ==
    \/ MonitorStep
    \/ \E m \in Mutators : MutatorStep(m)
    \/ \E r \in RootDirs : Unmount(r)
    \/ executeCommand
    \/ WatchFails

(* A process that can run does run; nobody has to change the tree or type  *)
(* a command.                                                              *)
Spec == Init /\ [][Next]_vars /\ WF_vars(MonitorStep)

-----------------------------------------------------------------------------
Ended == {"exit", "abort"}
Events == [wd : Nat, mask : {"IN_CREATE", "IN_MOVED_FROM", "IN_MOVED_TO"},
           name : Names, cookie : 0..MaxOps]
          \cup [wd : Nat, mask : {"IN_DELETE_SELF", "IN_MOVE_SELF",
                                  "IN_IGNORED", "IN_UNMOUNT", "IN_Q_OVERFLOW"},
                name : {""}, cookie : {0}]
Jobs == [pc : {"list", "mkdir", "rmdir", "rename", "moved"},
         path : Paths \cup {<<>>}, to : Paths \cup {<<>>},
         ino : Nat, dir : Nat, cookie : 0..MaxOps]

(* Type correctness of the state of both programs and of the kernel: the   *)
(* queue is never longer than the limit and the overflow event, and the    *)
(* monitor has a directory to visit or an event to process wherever it     *)
(* takes one.                                                              *)
TypeOK ==
    /\ {nextIno, nextWd} \subseteq Nat \ {0}
    /\ tree \subseteq [ino : 1..nextIno - 1, path : Paths]
    /\ watches \subseteq [wd : 1..nextWd - 1, ino : 1..nextIno - 1,
                          self : BOOLEAN]
    /\ cache \subseteq [wd : 1..nextWd - 1, path : Paths]
    /\ queue \in Seq(Events) /\ Len(queue) <= MaxQueue + 1
    /\ buf \in Seq(Events)
    /\ rootDirPaths \subseteq RootDirs /\ mounted \subseteq RootDirs
    /\ pc \in {"walk", "select", "read", "process", "hang", "blocked"} \cup Ended
    /\ walk \in Seq([path : Paths \cup {<<>>}, ino : Nat,
                     names : SUBSET AllNames])
    /\ (pc = "walk") <=> (walk # <<>>)
    /\ pc = "walk" => ret \in IF buf = <<>> THEN {"select", "read"}
                               ELSE {"process"}
    /\ pc # "walk" => (buf # <<>> <=> pc \in {"process", "hang", "blocked"})
    /\ job \in [Mutators -> Jobs] /\ ops \in 0..MaxOps
    /\ {firstTry, raced, stop} \subseteq BOOLEAN

(* No two slots of the cache hold one watch descriptor, the cache has an   *)
(* entry for every watch, and an entry without a watch only as long as the *)
(* event that tells of it, or of lost events, is still to be processed     *)
(* (findWatch in traverseTree; markCacheSlotEmpty; zapSubtree;             *)
(* reinitialize): no watch is leaked and no entry stays for ever.          *)
CacheMatchesWatches ==
    /\ \A c, e \in cache : c.wd = e.wd => c = e
    /\ Watched \subseteq {c.wd : c \in cache}
    /\ \A c \in cache : c.wd \in Watched \/ \E e \in ToSet(buf \o queue) :
          \/ e.wd = c.wd /\ e.mask \in {"IN_DELETE_SELF", "IN_UNMOUNT"}
          \/ e = Overflow

(* If directories are removed and renamed one at a time, each when the     *)
(* events of earlier changes were processed, while directories are created *)
(* at any time, then the cache has exactly the directories under the root  *)
(* directories, each with its pathname, whenever all events are processed. *)
(* Until the cache is rebuilt, nothing is said after a root directory was  *)
(* moved into another one, after an unmount, and after a command that      *)
(* drops entries or adds a directory outside the root directories.         *)
(* This is the race that the comment at the call of watchSubtree for       *)
(* IN_CREATE deals with, and the split pair of a rename().                 *)
TracksChanges ==
    Settled /\ ~raced =>
        {[ino |-> (CHOOSE w \in watches : w.wd = c.wd).ino, path |-> c.path] :
            c \in cache}
        = {d \in tree : d.path[1] \in rootDirPaths}

(* Every event is processed: the program ends up waiting, in select() or   *)
(* in a read() that nothing interrupts, with no event queued, whatever     *)
(* order the events of renames come in (firstTry, reinitialize).  If the   *)
(* alarm rings before that read(), the IN_MOVED_FROM in the buffer waits   *)
(* with it for the next event.                                             *)
Drains ==
    <>[](/\ queue = <<>>
         /\ pc \in {"select", "read", "blocked"} \cup Ended)
=============================================================================
