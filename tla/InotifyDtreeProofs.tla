------------------------- MODULE InotifyDtreeProofs -------------------------
(***************************************************************************)
(* Proofs about InotifyDtree for every directory tree, every set of        *)
(* mutators and every limit of the queue and of the read buffer.           *)
(***************************************************************************)
EXTENDS InotifyDtree, FiniteSetTheorems, SequenceTheorems, TLAPS

(* The events that tell that a watch is gone. *)
GoneMasks == {"IN_DELETE_SELF", "IN_UNMOUNT"}

(* The queue is longer than its limit only by the overflow event. *)
QueueInv == Len(queue) > MaxQueue => Overflow \in ToSet(queue)

(* An i-node has one watch, and a watch descriptor is of one i-node. *)
WatchInv ==
    /\ IsFiniteSet(watches) /\ IsFiniteSet(cache)
    /\ \A v, w \in watches : v.ino = w.ino \/ v.wd = w.wd => v = w

(* An event that tells that a watch is gone is of a watch descriptor that  *)
(* was given out and is not in use.                                        *)
GoneInv ==
    \A e \in ToSet(buf) \cup ToSet(queue) :
        e.mask \in GoneMasks => e.wd \in 1..nextWd - 1 /\ e.wd \notin Watched

(* What a mutator is about to do has the pathnames it needs. *)
JobInv ==
    \A m \in Mutators :
        /\ job[m].pc = "mkdir" => job[m].path \in Paths /\ Len(job[m].path) > 1
        /\ job[m].pc \in {"rmdir", "rename"} => job[m].path \in Paths
        /\ job[m].pc \in {"rename", "moved"} =>
              job[m].to \in Paths /\ Len(job[m].to) > 1

IInv ==
    /\ TypeOK
    /\ QueueInv
    /\ WatchInv
    /\ GoneInv
    /\ JobInv
    /\ CacheMatchesWatches

-----------------------------------------------------------------------------
(* The elements of a sequence, of its parts and of sequences made of it. *)

(* The elements of a sequence by their positions. *)
LEMMA ToSetElements ==
  ASSUME NEW S, NEW s \in Seq(S)
  PROVE  /\ ToSet(s) = {s[i] : i \in 1..Len(s)}
         /\ ToSet(s) \subseteq S
  BY DEF ToSet

(* The one element of a sequence of length one. *)
LEMMA ToSetSingle ==
  ASSUME NEW x PROVE ToSet(<<x>>) = {x}
  BY DEF ToSet

(* The elements of a concatenation. *)
LEMMA ToSetConcat ==
  ASSUME NEW S, NEW s \in Seq(S), NEW t \in Seq(S)
  PROVE  ToSet(s \o t) = ToSet(s) \cup ToSet(t)
<1>1. /\ s \o t \in Seq(S)
      /\ Len(s \o t) = Len(s) + Len(t)
      /\ \A i \in 1..Len(s) : (s \o t)[i] = s[i]
      /\ \A i \in 1..Len(t) : (s \o t)[Len(s) + i] = t[i]
  OBVIOUS
<1>2. ToSet(s \o t) = {(s \o t)[i] : i \in 1..Len(s \o t)}
  BY <1>1, ToSetElements
<1>3. /\ ToSet(s) = {s[i] : i \in 1..Len(s)}
      /\ ToSet(t) = {t[i] : i \in 1..Len(t)}
  BY ToSetElements
<1>4. ASSUME NEW x \in ToSet(s) PROVE x \in ToSet(s \o t)
  BY <1>1, <1>2, <1>3
<1>5. ASSUME NEW x \in ToSet(t) PROVE x \in ToSet(s \o t)
  <2>1. PICK i \in 1..Len(t) : x = t[i]
    BY <1>3
  <2>2. Len(s) + i \in 1..Len(s \o t) /\ x = (s \o t)[Len(s) + i]
    BY <1>1, <2>1
  <2> QED BY <1>2, <2>2
<1>6. ASSUME NEW i \in 1..Len(s \o t)
      PROVE  (s \o t)[i] \in ToSet(s) \cup ToSet(t)
  <2>1. CASE i <= Len(s)
    BY <1>1, <1>3, <2>1
  <2>2. CASE i > Len(s)
    <3>1. i - Len(s) \in 1..Len(t) /\ i = Len(s) + (i - Len(s))
      BY <1>1, <2>2
    <3>2. (s \o t)[i] = t[i - Len(s)]
      BY <1>1, <3>1
    <3> QED BY <1>3, <3>1, <3>2
  <2> QED BY <1>1, <2>1, <2>2
<1>7. ASSUME NEW x \in ToSet(s \o t) PROVE x \in ToSet(s) \cup ToSet(t)
  BY <1>2, <1>6
<1> QED BY <1>4, <1>5, <1>7

(* The elements of a nonempty sequence: its head and those of its tail. *)
LEMMA ToSetHeadTail ==
  ASSUME NEW S, NEW s \in Seq(S), s # <<>>
  PROVE  ToSet(s) = {Head(s)} \cup ToSet(Tail(s))
<1>1. /\ Tail(s) \in Seq(S) /\ Len(Tail(s)) = Len(s) - 1
      /\ Head(s) = s[1] /\ Len(s) \in Nat \ {0}
      /\ \A i \in 1..Len(Tail(s)) : Tail(s)[i] = s[i + 1]
  BY HeadTailProperties, EmptySeq
<1>2. /\ ToSet(s) = {s[i] : i \in 1..Len(s)}
      /\ ToSet(Tail(s)) = {Tail(s)[i] : i \in 1..Len(Tail(s))}
  BY <1>1, ToSetElements
<1>3. ASSUME NEW x \in ToSet(Tail(s)) PROVE x \in ToSet(s)
  <2>1. PICK i \in 1..Len(Tail(s)) : x = Tail(s)[i]
    BY <1>2
  <2>2. i + 1 \in 1..Len(s) /\ x = s[i + 1]
    BY <1>1, <2>1
  <2> QED BY <1>2, <2>2
<1>4. ASSUME NEW i \in 1..Len(s), i # 1
      PROVE  s[i] \in ToSet(Tail(s))
  <2>1. i - 1 \in 1..Len(Tail(s)) /\ (i - 1) + 1 = i
    BY <1>1, <1>4
  <2>2. Tail(s)[i - 1] = s[i]
    BY <1>1, <2>1
  <2> QED BY <1>2, <2>1, <2>2
<1> QED BY <1>1, <1>2, <1>3, <1>4

(* A part of a sequence has elements of the sequence only. *)
LEMMA ToSetSubSeq ==
  ASSUME NEW S, NEW s \in Seq(S), NEW m \in 1..Len(s) + 1, NEW n \in 0..Len(s)
  PROVE  SubSeq(s, m, n) \in Seq(S) /\ ToSet(SubSeq(s, m, n)) \subseteq ToSet(s)
<1>1. /\ SubSeq(s, m, n) \in Seq(S)
      /\ Len(SubSeq(s, m, n)) = IF m <= n THEN n - m + 1 ELSE 0
      /\ \A i \in 1..n - m + 1 : SubSeq(s, m, n)[i] = s[m + i - 1]
  BY SubSeqProperties
<1> QED BY <1>1 DEF ToSet

(* A sequence cut into two has the elements of both parts. *)
LEMMA ToSetCut ==
  ASSUME NEW S, NEW s \in Seq(S), NEW k \in 0..Len(s)
  PROVE  ToSet(s) = ToSet(SubSeq(s, 1, k)) \cup ToSet(SubSeq(s, k + 1, Len(s)))
<1>1. SubSeq(s, 1, k) \o SubSeq(s, k + 1, Len(s)) = SubSeq(s, 1, Len(s))
  <2>1. Len(s) \in Nat /\ 1 \in 1..Len(s) + 1 /\ k \in 1 - 1..Len(s)
        /\ Len(s) \in k..Len(s)
    OBVIOUS
  <2> QED BY ONLY <2>1, s \in Seq(S), ConcatAdjacentSubSeq, Zenon
<1>2. SubSeq(s, 1, Len(s)) = s
  BY SubSeqFull
<1>3. SubSeq(s, 1, k) \in Seq(S) /\ SubSeq(s, k + 1, Len(s)) \in Seq(S)
  BY ToSetSubSeq
<1>4. ToSet(SubSeq(s, 1, k) \o SubSeq(s, k + 1, Len(s)))
      = ToSet(SubSeq(s, 1, k)) \cup ToSet(SubSeq(s, k + 1, Len(s)))
  BY <1>3, ToSetConcat
<1> QED BY <1>1, <1>2, <1>4

(* SetToSeq lists exactly the elements of a finite set. *)
LEMMA SetToSeqElements ==
  ASSUME NEW S, IsFiniteSet(S)
  PROVE  /\ SetToSeq(S) \in Seq(S)
         /\ ToSet(SetToSeq(S)) = S
<1> DEFINE n == Cardinality(S)
           f == SetToSeq(S)
<1>1. n \in Nat /\ ExistsBijection(1..n, S)
  BY FS_CardinalityType
<1>2. \E g \in [1..n -> S] : IsInjective(g)
  BY <1>1 DEF ExistsBijection, Bijection, Injection, IsInjective
<1>3. f \in [1..n -> S] /\ IsInjective(f)
  BY <1>2 DEF SetToSeq
<1>4. f \in Injection(1..n, S)
  BY <1>3 DEF Injection, IsInjective
<1>5. IsFiniteSet(1..n) /\ Cardinality(1..n) = n
  BY <1>1, FS_Interval
<1>6. f \in Surjection(1..n, S)
  BY <1>4, <1>5, FS_Injection
<1>7. f \in Seq(S) /\ DOMAIN f = 1..n
  BY <1>1, <1>3
<1>8. ASSUME NEW x \in S PROVE x \in ToSet(f)
  BY <1>6, <1>7 DEF Surjection, ToSet
<1> QED BY <1>7, <1>8, ToSetElements

-----------------------------------------------------------------------------
(* What the kernel queues. *)

NamedMasks == {"IN_CREATE", "IN_MOVED_FROM", "IN_MOVED_TO"}
OtherMasks == {"IN_DELETE_SELF", "IN_MOVE_SELF", "IN_IGNORED", "IN_UNMOUNT",
               "IN_Q_OVERFLOW"}

(* The events the kernel makes are of the type, and have their fields. *)
LEMMA EventType ==
  /\ \A wd \in Nat, mask \in NamedMasks, name \in Names, cookie \in 0..MaxOps :
        Event(wd, mask, name, cookie) \in Events
  /\ \A wd \in Nat, mask \in OtherMasks : Event(wd, mask, "", 0) \in Events
  /\ Overflow \in Events
  /\ Overflow.mask = "IN_Q_OVERFLOW"
  /\ \A wd, mask, name, cookie :
        /\ Event(wd, mask, name, cookie).wd = wd
        /\ Event(wd, mask, name, cookie).mask = mask
  BY DtreeAssumption DEF Event, Events, Overflow, NamedMasks, OtherMasks

(* Notify loses no event of the queue, and a new one only if the overflow  *)
(* event is in the queue; it adds nothing else, and keeps to the limit.    *)
LEMMA NotifyProperties ==
  ASSUME NEW q \in Seq(Events), NEW events \in Seq(Events),
         Len(q) <= MaxQueue + 1, Len(q) > MaxQueue => Overflow \in ToSet(q)
  PROVE  LET r == Notify(q, events) IN
         /\ r \in Seq(Events)
         /\ Len(r) <= MaxQueue + 1
         /\ Len(r) > MaxQueue => Overflow \in ToSet(r)
         /\ ToSet(q) \subseteq ToSet(r)
         /\ ToSet(r) \subseteq ToSet(q) \cup ToSet(events) \cup {Overflow}
         /\ ToSet(events) \subseteq ToSet(r) \/ Overflow \in ToSet(r)
<1> DEFINE merged == q # <<>> /\ events # <<>> /\ Last(q) = Head(events)
           new == IF merged THEN Tail(events) ELSE events
           room == IF Len(q) < MaxQueue THEN MaxQueue - Len(q) ELSE 0
           first == SubSeq(new, 1, room)
           full == q \o first
           r == Notify(q, events)
<1>1. MaxQueue \in Nat /\ Len(q) \in Nat /\ room \in Nat
  BY DtreeAssumption
<1>2. /\ new \in Seq(Events) /\ ToSet(new) \subseteq ToSet(events)
      /\ ToSet(events) \subseteq ToSet(q) \cup ToSet(new)
  <2>1. CASE merged
    <3>1. Tail(events) \in Seq(Events)
          /\ ToSet(events) = {Head(events)} \cup ToSet(Tail(events))
      BY <2>1, ToSetHeadTail, HeadTailProperties
    <3>2. Head(events) \in ToSet(q)
      <4>1. Len(q) \in 1..Len(q) /\ Head(events) = q[Len(q)]
        BY <2>1, EmptySeq DEF Last
      <4> QED BY <4>1, ToSetElements
    <3> QED BY <2>1, <3>1, <3>2
  <2>2. CASE ~merged
    BY <2>2
  <2> QED BY <2>1, <2>2
<1>3. r = IF Len(new) <= room THEN q \o new
          ELSE IF Overflow \in ToSet(full) THEN full
          ELSE Append(full, Overflow)
  BY DEF Notify
<1> HIDE DEF merged, new, room, r
<1>4. CASE Len(new) <= room
  <2>1. r = q \o new /\ r \in Seq(Events) /\ Len(r) = Len(q) + Len(new)
    BY <1>2, <1>3, <1>4
  <2>2. ToSet(r) = ToSet(q) \cup ToSet(new)
    BY <1>2, <2>1, ToSetConcat
  <2>3. /\ Len(r) <= MaxQueue + 1
        /\ Len(r) > MaxQueue => Len(q) > MaxQueue
    BY <1>1, <1>2, <1>4, <2>1 DEF room
  <2> QED BY <1>2, <2>1, <2>2, <2>3 DEF r
<1>5. CASE Len(new) > room
  <2>1. first \in Seq(Events) /\ ToSet(first) \subseteq ToSet(new)
        /\ Len(first) = room
    <3>1. room \in 0..Len(new) /\ 1 \in 1..Len(new) + 1
      BY <1>1, <1>2, <1>5
    <3>2. first \in Seq(Events) /\ ToSet(first) \subseteq ToSet(new)
      BY <1>2, <3>1, ToSetSubSeq
    <3>3. Len(first) = room
      BY <1>2, <3>1, SubSeqProperties
    <3> QED BY <3>2, <3>3
  <2>2. full \in Seq(Events) /\ Len(full) = Len(q) + room
    BY <2>1
  <2>3. ToSet(full) = ToSet(q) \cup ToSet(first)
    BY <2>1, ToSetConcat
  <2> HIDE DEF full, first
  <2>4. Len(q) + room <= MaxQueue \/ (room = 0 /\ Len(q) > MaxQueue)
    BY <1>1 DEF room
  <2>5. CASE Overflow \in ToSet(full)
    <3>1. r = full
      BY <1>1, <1>2, <1>3, <1>5, <2>5
    <3> QED BY <1>1, <1>2, <2>1, <2>2, <2>3, <2>4, <2>5, <3>1 DEF r
  <2>6. CASE Overflow \notin ToSet(full)
    <3>1. r = Append(full, Overflow)
      BY <1>1, <1>2, <1>3, <1>5, <2>6
    <3> DEFINE last == <<Overflow>>
    <3>2. r = full \o last /\ r \in Seq(Events) /\ Len(r) = Len(full) + 1
      BY <2>2, <3>1, EventType, AppendProperties, AppendIsConcat
    <3>3. ToSet(r) = ToSet(full) \cup {Overflow}
      <4>1. last \in Seq(Events) /\ ToSet(last) = {Overflow}
        <5>1. Overflow \in Events
          BY EventType
        <5> QED BY <5>1, ToSetSingle
      <4> HIDE DEF last
      <4> QED BY <2>2, <3>2, <4>1, ToSetConcat
    <3>4. Len(q) + room <= MaxQueue
      BY <2>3, <2>4, <2>6
    <3>5. Len(r) <= MaxQueue + 1
      BY <1>1, <2>2, <3>2, <3>4
    <3> QED BY <1>2, <2>1, <2>3, <3>2, <3>3, <3>5 DEF r
  <2> QED BY <2>5, <2>6
<1> QED BY <1>1, <1>2, <1>4, <1>5

(* The watch descriptors of finitely many watches or entries of the cache. *)
LEMMA FiniteWds ==
  ASSUME NEW T, IsFiniteSet(T)
  PROVE  IsFiniteSet({w.wd : w \in T})
<1> DEFINE f == [w \in T |-> w.wd]
<1>1. f \in Surjection(T, {w.wd : w \in T})
  BY DEF Surjection
<1> HIDE DEF f
<1> QED BY <1>1, FS_Surjection

(* The events of a directory. *)
LEMMA EventsOfElements ==
  ASSUME IsFiniteSet(watches), NEW i, NEW mask, NEW name, NEW cookie,
         \A w \in watches : w.ino = i => Event(w.wd, mask, name, cookie) \in Events
  PROVE  /\ EventsOf(i, mask, name, cookie) \in Seq(Events)
         /\ \A e \in ToSet(EventsOf(i, mask, name, cookie)) : e.mask = mask
<1> DEFINE T == {x \in watches : x.ino = i}
           E == {Event(w.wd, mask, name, cookie) : w \in T}
<1>1. IsFiniteSet(T)
  BY FS_Subset
<1>2. IsFiniteSet(E)
  <2> DEFINE f == [w \in T |-> Event(w.wd, mask, name, cookie)]
  <2>1. f \in Surjection(T, E)
    BY DEF Surjection
  <2> HIDE DEF f, T, E
  <2> QED BY <1>1, <2>1, FS_Surjection
<1>3. SetToSeq(E) \in Seq(E) /\ ToSet(SetToSeq(E)) = E
  BY <1>2, SetToSeqElements
<1>4. E \subseteq Events /\ \A e \in E : e.mask = mask
  BY DEF Event
<1>5. EventsOf(i, mask, name, cookie) = SetToSeq(E)
  BY DEF EventsOf
<1> HIDE DEF E
<1>6. SetToSeq(E) \in Seq(Events)
  BY <1>3, <1>4, SeqMonotonic
<1> QED BY <1>3, <1>4, <1>5, <1>6

(* The events of directories that are gone. *)
LEMMA GoneElements ==
  ASSUME TypeOK, IsFiniteSet(watches), NEW inos, NEW mask \in GoneMasks
  PROVE  /\ Gone(inos, mask) \in Seq(Events)
         /\ \A e \in ToSet(Gone(inos, mask)) :
              \E w \in watches : w.ino \in inos /\ e.wd = w.wd
         /\ \A w \in watches : w.ino \in inos =>
              \E e \in ToSet(Gone(inos, mask)) : e.wd = w.wd /\ e.mask = mask
<1> DEFINE T == {x \in watches : x.ino \in inos}
           W == {w.wd : w \in T}
           wds == SetToSeq(W)
           g == Gone(inos, mask)
           m(k) == IF k % 2 = 1 THEN mask ELSE "IN_IGNORED"
<1>1. IsFiniteSet(T)
  BY FS_Subset
<1>2. IsFiniteSet(W)
  BY <1>1, FiniteWds
<1>3. wds \in Seq(W) /\ ToSet(wds) = W /\ Len(wds) \in Nat
  <2> HIDE DEF W
  <2>1. wds \in Seq(W) /\ ToSet(wds) = W
    BY <1>2, SetToSeqElements
  <2> QED BY <2>1, LenProperties
<1>4. W \subseteq Nat
  BY DEF TypeOK
<1>5. g = [k \in 1..2 * Len(wds) |-> Event(wds[(k + 1) \div 2], m(k), "", 0)]
  BY DEF Gone
<1>6. \A w \in W : \E x \in watches : x.ino \in inos /\ w = x.wd
  OBVIOUS
<1>7. \A w \in watches : w.ino \in inos => w.wd \in W
  OBVIOUS
<1> HIDE DEF W, wds, g
<1>8. ASSUME NEW k \in 1..2 * Len(wds)
      PROVE  /\ wds[(k + 1) \div 2] \in W
             /\ Event(wds[(k + 1) \div 2], m(k), "", 0) \in Events
  <2>1. (k + 1) \div 2 \in 1..Len(wds)
    BY <1>3
  <2>2. wds[(k + 1) \div 2] \in W
    BY <1>3, <2>1
  <2>3. m(k) \in OtherMasks
    BY DEF GoneMasks, OtherMasks
  <2> QED BY <1>4, <2>2, <2>3, EventType
<1>9. g \in Seq(Events) /\ DOMAIN g = 1..2 * Len(wds)
  <2>1. g \in [1..2 * Len(wds) -> Events]
    BY <1>5, <1>8
  <2>2. 2 * Len(wds) \in Nat
    BY <1>3
  <2> QED BY <2>1, <2>2
<1>10. ASSUME NEW e \in ToSet(g)
       PROVE  e.wd \in W
  <2>1. PICK k \in 1..2 * Len(wds) : e = g[k]
    BY <1>9 DEF ToSet
  <2>2. e = Event(wds[(k + 1) \div 2], m(k), "", 0)
    BY <1>5, <2>1
  <2> QED BY <1>8, <2>2 DEF Event
<1>11. ASSUME NEW w \in W
       PROVE  \E e \in ToSet(g) : e.wd = w /\ e.mask = mask
  <2>1. PICK j \in 1..Len(wds) : w = wds[j]
    BY <1>3 DEF ToSet
  <2> DEFINE k == 2 * j - 1
  <2>2. k \in 1..2 * Len(wds) /\ (k + 1) \div 2 = j /\ k % 2 = 1
    BY <1>3
  <2> HIDE DEF k
  <2>3. g[k] = Event(w, mask, "", 0) /\ g[k] \in ToSet(g)
    BY <1>5, <1>9, <2>1, <2>2 DEF ToSet
  <2>4. PICK e \in ToSet(g) : e = Event(w, mask, "", 0)
    BY <2>3
  <2> QED BY <2>4 DEF Event
<1> QED BY <1>6, <1>7, <1>9, <1>10, <1>11 DEF g

-----------------------------------------------------------------------------
(* Pathnames. *)

(* A pathname is a nonempty sequence of names. *)
LEMMA PathType ==
  ASSUME NEW p \in Paths
  PROVE  p \in Seq(AllNames) /\ p # <<>> /\ Len(p) \in Nat \ {0}
         /\ \A k \in 2..Len(p) : p[k] \in Names
  BY EmptySeq DEF Paths

(* A name alone is a pathname. *)
LEMMA OneNamePath ==
  ASSUME NEW d \in AllNames
  PROVE  <<d>> \in Paths /\ Len(<<d>>) = 1 /\ <<d>>[1] = d
  BY DEF Paths

(* The pathname of an entry of a directory (fullPath). *)
LEMMA AppendPath ==
  ASSUME NEW p \in Paths, NEW n \in Names
  PROVE  Append(p, n) \in Paths /\ Len(Append(p, n)) > 1
<1>1. n \in AllNames
  BY DEF AllNames
<1>2. /\ p \in Seq(AllNames) /\ Len(p) \in Nat \ {0}
      /\ \A k \in 2..Len(p) : p[k] \in Names
  BY PathType
<1>3. /\ Append(p, n) \in Seq(AllNames) /\ Append(p, n) # <<>>
      /\ Len(Append(p, n)) = Len(p) + 1
      /\ \A k \in 1..Len(p) : Append(p, n)[k] = p[k]
      /\ Append(p, n)[Len(p) + 1] = n
  BY <1>1, <1>2, AppendProperties
<1>4. ASSUME NEW k \in 2..Len(p) + 1 PROVE Append(p, n)[k] \in Names
  <2>1. CASE k = Len(p) + 1
    BY <1>3, <2>1
  <2>2. CASE k # Len(p) + 1
    BY <1>2, <1>3, <2>2
  <2> QED BY <2>1, <2>2
<1>5. \A k \in 2..Len(Append(p, n)) : Append(p, n)[k] \in Names
  BY <1>3, <1>4
<1>6. Append(p, n) \in Paths
  BY <1>3, <1>5, Zenon DEF Paths
<1> QED BY <1>2, <1>3, <1>6

(* A pathname without its last name, and that name. *)
LEMMA FrontLastPath ==
  ASSUME NEW p \in Paths
  PROVE  /\ Front(p) \in Paths \cup {<<>>} /\ Last(p) \in AllNames
         /\ Len(p) > 1 => Front(p) \in Paths /\ Last(p) \in Names
         /\ Len(p) <= 1 => Front(p) = <<>>
<1>1. /\ p \in Seq(AllNames) /\ Len(p) \in Nat \ {0}
      /\ \A k \in 2..Len(p) : p[k] \in Names
  BY PathType
<1>2. Last(p) \in AllNames /\ (Len(p) > 1 => Last(p) \in Names)
  BY <1>1 DEF Last
<1>3. CASE Len(p) <= 1
  <2>1. Front(p) = <<>>
    BY <1>1, <1>3, SubSeqEmpty DEF Front
  <2> QED BY <1>1, <1>2, <1>3, <2>1
<1>4. CASE Len(p) > 1
  <2>1. /\ Front(p) \in Seq(AllNames)
        /\ Len(Front(p)) = Len(p) - 1
        /\ \A k \in 1..Len(p) - 1 : Front(p)[k] = p[k]
    <3>1. \A k \in 1..Len(p) - 1 : p[k] \in AllNames
      BY <1>1
    <3>2. 1 \in Int /\ Len(p) - 1 \in Int
      BY <1>1
    <3>3. /\ SubSeq(p, 1, Len(p) - 1) \in Seq(AllNames)
          /\ Len(SubSeq(p, 1, Len(p) - 1)) = IF 1 <= Len(p) - 1
                                             THEN (Len(p) - 1) - 1 + 1 ELSE 0
          /\ \A k \in 1..(Len(p) - 1) - 1 + 1 :
                SubSeq(p, 1, Len(p) - 1)[k] = p[1 + k - 1]
      BY <3>1, <3>2, SubSeqProperties
    <3> QED BY <1>1, <1>4, <3>3 DEF Front
  <2>2. Front(p) # <<>>
    BY <1>1, <1>4, <2>1
  <2>3. ASSUME NEW k \in 2..Len(Front(p)) PROVE Front(p)[k] \in Names
    BY <1>1, <2>1, <2>3
  <2>4. Front(p) \in Paths
    BY <2>1, <2>2, <2>3, Zenon DEF Paths
  <2> QED BY <1>1, <1>2, <1>4, <2>4
<1> QED BY <1>1, <1>3, <1>4

(* The pathname of a directory that was moved with one above it. *)
LEMMA MovePath ==
  ASSUME NEW p \in Paths, NEW from \in Paths, NEW to \in Paths,
         Len(from) <= Len(p)
  PROVE  Move(p, from, to) \in Paths
<1> DEFINE m == Len(from) + 1
           below == SubSeq(p, m, Len(p))
<1>1. /\ p \in Seq(AllNames) /\ Len(p) \in Nat /\ Len(from) \in Nat \ {0}
      /\ to \in Seq(AllNames) /\ to # <<>> /\ Len(to) \in Nat \ {0}
      /\ \A k \in 2..Len(p) : p[k] \in Names
      /\ \A k \in 2..Len(to) : to[k] \in Names
  BY PathType
<1>2. \A k \in m..Len(p) : p[k] \in Names
  BY <1>1
<1>3. /\ below \in Seq(Names)
      /\ Len(below) = IF m <= Len(p) THEN Len(p) - m + 1 ELSE 0
  BY <1>1, <1>2, SubSeqProperties
<1>4. below \in Seq(AllNames) /\ Len(below) \in Nat
      /\ \A k \in 1..Len(below) : below[k] \in Names
  BY <1>3, SeqMonotonic, LenProperties DEF AllNames
<1>5. Move(p, from, to) = to \o below
  BY DEF Move
<1> HIDE DEF below
<1>6. /\ to \o below \in Seq(AllNames) /\ Len(to \o below) = Len(to) + Len(below)
      /\ \A i \in 1 .. Len(to) + Len(below) : (to \o below)[i] =
                     IF i <= Len(to) THEN to[i] ELSE below[i - Len(to)]
  BY <1>1, <1>4, ConcatProperties
<1>7. ASSUME NEW k \in 2..Len(to \o below) PROVE (to \o below)[k] \in Names
  <2>1. CASE k <= Len(to)
    BY <1>1, <1>4, <1>6, <2>1
  <2>2. CASE k > Len(to)
    <3>1. k - Len(to) \in 1..Len(below)
      BY <1>1, <1>4, <1>6, <2>2
    <3> QED BY <1>1, <1>4, <1>6, <2>2, <3>1
  <2> QED BY <1>1, <2>1, <2>2
<1>8. to \o below # <<>>
  BY <1>1, <1>4, <1>6
<1> QED BY <1>5, <1>6, <1>7, <1>8 DEF Paths

-----------------------------------------------------------------------------
(* Changes of the events, the watches and the cache. *)

Pending == ToSet(buf) \cup ToSet(queue)

(* Why an entry of the cache without a watch is still there. *)
Told(c, events) ==
    \E e \in events : \/ e.wd = c.wd /\ e.mask \in GoneMasks
                      \/ e = Overflow

(* CacheMatchesWatches in terms of the pending events. *)
LEMMA CacheMatchesDef ==
  ASSUME buf \in Seq(Events), queue \in Seq(Events)
  PROVE  CacheMatchesWatches <=>
           /\ \A c, e \in cache : c.wd = e.wd => c = e
           /\ Watched \subseteq {c.wd : c \in cache}
           /\ \A c \in cache : c.wd \in Watched \/ Told(c, Pending)
<1>1. ToSet(buf \o queue) = Pending
  BY ToSetConcat DEF Pending
<1> QED BY <1>1, Zenon DEF CacheMatchesWatches, Told, GoneMasks

(* The same in the next state. *)
LEMMA CacheMatchesDefNext ==
  ASSUME buf' \in Seq(Events), queue' \in Seq(Events)
  PROVE  CacheMatchesWatches' <=>
           /\ \A c, e \in cache' : c.wd = e.wd => c = e
           /\ Watched' \subseteq {c.wd : c \in cache'}
           /\ \A c \in cache' : c.wd \in Watched' \/ Told(c, Pending')
<1>1. ToSet(buf' \o queue') = Pending'
  BY ToSetConcat DEF Pending
<1> QED BY <1>1, Zenon DEF CacheMatchesWatches, Told, GoneMasks

(* The watches and the cache are left alone; events come and go, but none  *)
(* that tells of a watch that is gone.                                     *)
LEMMA EventsChange ==
  ASSUME IInv, UNCHANGED <<nextWd, watches, cache>>,
         buf' \in Seq(Events), queue' \in Seq(Events),
         \A e \in Pending : e.mask \in GoneMasks \/ e = Overflow
                            => e \in Pending' \/ Overflow \in Pending',
         \A e \in Pending' : e.mask \in GoneMasks => e \in Pending
  PROVE  WatchInv' /\ GoneInv' /\ CacheMatchesWatches'
<1>1. /\ \A c, e \in cache : c.wd = e.wd => c = e
      /\ Watched \subseteq {c.wd : c \in cache}
      /\ \A c \in cache : c.wd \in Watched \/ Told(c, Pending)
  BY CacheMatchesDef DEF IInv, TypeOK
<1>2. Watched' = Watched
  BY DEF Watched
<1>3. ASSUME NEW c \in cache, Told(c, Pending) PROVE Told(c, Pending')
  BY <1>3 DEF Told
<1>4. CacheMatchesWatches'
  BY <1>1, <1>2, <1>3, CacheMatchesDefNext
<1>5. GoneInv'
  BY <1>2 DEF IInv, GoneInv, Pending
<1> QED BY <1>4, <1>5 DEF IInv, WatchInv

(* Notify applied to the queue. *)
LEMMA QueueType ==
  ASSUME IInv, NEW events \in Seq(Events), queue' = Notify(queue, events)
  PROVE  /\ queue' \in Seq(Events) /\ Len(queue') <= MaxQueue + 1
         /\ QueueInv'
         /\ ToSet(queue) \subseteq ToSet(queue')
         /\ ToSet(queue') \subseteq ToSet(queue) \cup ToSet(events) \cup {Overflow}
         /\ ToSet(events) \subseteq ToSet(queue') \/ Overflow \in ToSet(queue')
  BY NotifyProperties DEF IInv, TypeOK, QueueInv

(* Events are queued, but none that tells of a watch that is gone. *)
LEMMA Queued ==
  ASSUME IInv, UNCHANGED <<nextWd, watches, cache, buf>>,
         NEW events \in Seq(Events), queue' = Notify(queue, events),
         \A e \in ToSet(events) : e.mask \notin GoneMasks
  PROVE  /\ queue' \in Seq(Events) /\ Len(queue') <= MaxQueue + 1
         /\ QueueInv' /\ WatchInv' /\ GoneInv' /\ CacheMatchesWatches'
<1>1. /\ queue' \in Seq(Events) /\ Len(queue') <= MaxQueue + 1 /\ QueueInv'
      /\ ToSet(queue) \subseteq ToSet(queue')
      /\ ToSet(queue') \subseteq ToSet(queue) \cup ToSet(events) \cup {Overflow}
  BY QueueType
<1>2. Pending \subseteq Pending'
      /\ \A e \in Pending' : e.mask \in GoneMasks => e \in Pending
  BY <1>1, EventType DEF Pending, GoneMasks
<1> QED BY <1>1, <1>2, EventsChange DEF IInv, TypeOK

(* Directories are gone, with their watches. *)
LEMMA WatchesGone ==
  ASSUME IInv, UNCHANGED <<nextWd, cache, buf>>,
         NEW inos, NEW mask \in GoneMasks,
         watches' = {w \in watches : w.ino \notin inos},
         queue' = Notify(queue, Gone(inos, mask))
  PROVE  /\ queue' \in Seq(Events) /\ Len(queue') <= MaxQueue + 1
         /\ QueueInv' /\ WatchInv' /\ GoneInv' /\ CacheMatchesWatches'
<1> DEFINE G == Gone(inos, mask)
<1>1. /\ G \in Seq(Events)
      /\ \A e \in ToSet(G) : \E w \in watches : w.ino \in inos /\ e.wd = w.wd
      /\ \A w \in watches : w.ino \in inos =>
           \E e \in ToSet(G) : e.wd = w.wd /\ e.mask = mask
  BY GoneElements DEF IInv, WatchInv
<1>2. /\ queue' \in Seq(Events) /\ Len(queue') <= MaxQueue + 1 /\ QueueInv'
      /\ ToSet(queue) \subseteq ToSet(queue')
      /\ ToSet(queue') \subseteq ToSet(queue) \cup ToSet(G) \cup {Overflow}
      /\ ToSet(G) \subseteq ToSet(queue') \/ Overflow \in ToSet(queue')
  BY <1>1, QueueType
<1> HIDE DEF G
<1>3. WatchInv'
  <2>1. watches' \subseteq watches /\ IsFiniteSet(watches)
    BY DEF IInv, WatchInv
  <2>2. IsFiniteSet(watches')
    BY <2>1, FS_Subset
  <2> QED BY <2>1, <2>2 DEF IInv, WatchInv
<1>4. /\ \A c, e \in cache : c.wd = e.wd => c = e
      /\ Watched \subseteq {c.wd : c \in cache}
      /\ \A c \in cache : c.wd \in Watched \/ Told(c, Pending)
  BY CacheMatchesDef DEF IInv, TypeOK
<1>5. Watched' \subseteq Watched /\ Pending \subseteq Pending'
  BY <1>2 DEF Watched, Pending
<1>6. ASSUME NEW c \in cache, c.wd \notin Watched' PROVE Told(c, Pending')
  <2>1. CASE c.wd \in Watched
    <3>1. PICK w \in watches : w.wd = c.wd /\ w.ino \in inos
      BY <1>6, <2>1 DEF Watched
    <3>2. PICK e \in ToSet(G) : e.wd = c.wd /\ e.mask = mask
      BY <1>1, <3>1
    <3> QED BY <1>2, <3>2 DEF Told, Pending
  <2>2. CASE c.wd \notin Watched
    <3>1. Told(c, Pending)
      BY <1>4, <2>2
    <3> QED BY <1>5, <3>1 DEF Told
  <2> QED BY <2>1, <2>2
<1>7. CacheMatchesWatches'
  <2>1. buf' \in Seq(Events)
    BY DEF IInv, TypeOK
  <2> QED BY <1>2, <1>4, <1>5, <1>6, <2>1, CacheMatchesDefNext
<1>8. GoneInv'
  <2> SUFFICES ASSUME NEW e \in Pending', e.mask \in GoneMasks
               PROVE  e.wd \in 1..nextWd - 1 /\ e.wd \notin Watched'
    BY DEF GoneInv, Pending
  <2>1. CASE e \in Pending
    BY <1>5, <2>1 DEF IInv, GoneInv, Pending
  <2>2. CASE e \in ToSet(G)
    <3>1. PICK w \in watches : w.ino \in inos /\ e.wd = w.wd
      BY <1>1, <2>2
    <3>2. w.wd \in 1..nextWd - 1
      BY DEF IInv, TypeOK
    <3>3. \A x \in watches' : x.wd # w.wd
      BY <3>1 DEF IInv, WatchInv
    <3> QED BY <3>1, <3>2, <3>3 DEF Watched
  <2>3. e # Overflow
    BY EventType DEF GoneMasks
  <2> QED BY <1>2, <2>1, <2>2, <2>3 DEF Pending
<1> QED BY <1>2, <1>3, <1>7, <1>8

-----------------------------------------------------------------------------
(* The steps of the mutators. *)

(* A mutator may be idle. *)
LEMMA IdleJob == Idle \in Jobs /\ Idle.pc = "list"
  BY DtreeAssumption DEF Idle, Jobs

(* The directories there are have pathnames and i-node numbers. *)
LEMMA TreeType ==
  ASSUME TypeOK
  PROVE  /\ \A d \in tree : d.path \in Paths /\ d.ino \in Nat \ {0}
         /\ getDirList \subseteq Paths
         /\ \A p : Exists(p) => p \in Paths \cup {<<>>} /\ InoAt(p) \in Nat
         /\ \A p : Exists(p) /\ p # <<>> =>
                \E d \in tree : d.path = p /\ d.ino = InoAt(p)
<1>1. \A d \in tree : d.path \in Paths /\ d.ino \in Nat \ {0}
  BY DEF TypeOK
<1>2. getDirList \subseteq Paths
  BY <1>1 DEF getDirList
<1>3. ASSUME NEW p, Exists(p), p # <<>>
      PROVE  \E d \in tree : d.path = p /\ d.ino = InoAt(p)
  <2>1. \E d \in tree : d.path = p
    BY <1>3 DEF Exists
  <2> DEFINE d == CHOOSE x \in tree : x.path = p
  <2>2. d \in tree /\ d.path = p
    BY <2>1
  <2>3. InoAt(p) = d.ino
    BY <1>3 DEF InoAt
  <2> QED BY <2>2, <2>3
<1>4. ASSUME NEW p, Exists(p) PROVE p \in Paths \cup {<<>>} /\ InoAt(p) \in Nat
  <2>1. CASE p = <<>>
    BY <2>1 DEF InoAt
  <2>2. CASE p # <<>>
    BY <1>1, <1>3, <1>4, <2>2
  <2> QED BY <2>1, <2>2
<1> QED BY <1>1, <1>2, <1>3, <1>4

(* The pathnames that mutators make up. *)
LEMMA NewPathType ==
  ASSUME NEW dirs \in SUBSET Paths, NEW q \in NewPaths(dirs)
  PROVE  q \in Paths /\ Len(q) > 1
<1>1. PICK d \in dirs : Free(d) # {} /\ q = NewPath(d)
  BY DEF NewPaths
<1>2. (CHOOSE n \in Free(d) : TRUE) \in Free(d)
  BY <1>1
<1>3. (CHOOSE n \in Free(d) : TRUE) \in Names
  BY <1>2 DEF Free
<1> QED BY <1>1, <1>3, AppendPath DEF NewPath

(* A job that JobInv allows. *)
ReadyJob(j) ==
    /\ j \in Jobs
    /\ j.pc = "mkdir" => j.path \in Paths /\ Len(j.path) > 1
    /\ j.pc \in {"rmdir", "rename"} => j.path \in Paths
    /\ j.pc \in {"rename", "moved"} => j.to \in Paths /\ Len(j.to) > 1

(* Every job has what it needs. *)
LEMMA JobsReady ==
  ASSUME TypeOK, JobInv
  PROVE  \A m \in Mutators : ReadyJob(job[m])
  BY DEF TypeOK, JobInv, ReadyJob

(* A mutator may take any job that has what it needs. *)
LEMMA JobChange ==
  ASSUME IInv, NEW m \in Mutators, NEW j, ReadyJob(j),
         job' = [job EXCEPT ![m] = j]
  PROVE  job' \in [Mutators -> Jobs] /\ JobInv'
<1>1. job' \in [Mutators -> Jobs]
  BY DEF IInv, TypeOK, ReadyJob
<1>2. ASSUME NEW x \in Mutators
      PROVE  ReadyJob(job'[x])
  BY JobsReady DEF IInv, TypeOK
<1> QED BY <1>1, <1>2 DEF JobInv, ReadyJob

(* A mutator chooses what to do. *)
LEMMA ChooseStep ==
  ASSUME IInv, NEW m \in Mutators, NEW mode, NEW place, ReadyJob(place),
         Choose(m, mode, place)
  PROVE  IInv'
<1> DEFINE j == [place EXCEPT !.cookie = ops + 1]
<1>1. ops + 1 \in 0..MaxOps
  BY DtreeAssumption DEF Choose, IInv, TypeOK
<1>2. ReadyJob(j)
  BY <1>1 DEF ReadyJob, Jobs
<1>3. job' = [job EXCEPT ![m] = j]
  BY DEF Choose
<1> HIDE DEF j
<1>4. job' \in [Mutators -> Jobs] /\ JobInv'
  BY <1>2, <1>3, JobChange
<1>5. TypeOK'
  BY <1>1, <1>4 DEF Choose, IInv, TypeOK, fsVars, kernel, monitor
<1>6. QueueInv' /\ WatchInv' /\ GoneInv' /\ CacheMatchesWatches'
  BY DEF Choose, IInv, QueueInv, WatchInv, GoneInv, CacheMatchesWatches,
         Watched, kernel, monitor
<1> QED BY <1>4, <1>5, <1>6 DEF IInv

(* The choices of rand_dtree in its modes and of other programs. *)
LEMMA ChooseActions ==
  ASSUME IInv, NEW m \in Mutators,
         ChooseCreate(m) \/ ChooseDelete(m) \/ ChooseRename(m) \/ ChooseUser(m)
  PROVE  IInv'
<1>1. TypeOK
  BY DEF IInv
<1>2. \A p \in Paths : /\ ReadyJob([Idle EXCEPT !.pc = "rmdir", !.path = p])
                       /\ Len(p) > 1 =>
                          ReadyJob([Idle EXCEPT !.pc = "mkdir", !.path = p])
  BY IdleJob DEF ReadyJob, Jobs
<1>3. \A p, q \in Paths :
        Len(q) > 1 => ReadyJob([Idle EXCEPT !.pc = "rename", !.path = p,
                                            !.to = q])
  BY IdleJob DEF ReadyJob, Jobs
<1>4. CASE ChooseCreate(m)
  BY <1>1, <1>2, <1>4, TreeType, NewPathType, ChooseStep DEF ChooseCreate
<1>5. CASE ChooseDelete(m)
  BY <1>1, <1>2, <1>5, TreeType, ChooseStep DEF ChooseDelete
<1>6. CASE ChooseRename(m)
  BY <1>1, <1>3, <1>6, TreeType, NewPathType, ChooseStep DEF ChooseRename
<1>7. CASE ChooseUser(m)
  <2> DEFINE dirs == {d.path : d \in tree}
  <2>1. dirs \subseteq Paths
    BY <1>1, TreeType
  <2>2. PICK p \in dirs :
        \/ \E q \in NewPaths(dirs) :
             Choose(m, "user", [Idle EXCEPT !.pc = "rename", !.path = p,
                                            !.to = q])
        \/ Choose(m, "user", [Idle EXCEPT !.pc = "rmdir", !.path = p])
    BY <1>7 DEF ChooseUser
  <2> HIDE DEF dirs
  <2>3. CASE Choose(m, "user", [Idle EXCEPT !.pc = "rmdir", !.path = p])
    BY <1>2, <2>1, <2>3, ChooseStep
  <2>4. ASSUME NEW q \in NewPaths(dirs),
               Choose(m, "user", [Idle EXCEPT !.pc = "rename", !.path = p,
                                              !.to = q])
        PROVE  IInv'
    BY <1>3, <2>1, <2>4, NewPathType, ChooseStep
  <2> QED BY <2>2, <2>3, <2>4
<1> QED BY <1>4, <1>5, <1>6, <1>7

(* mkdir() and its event. *)
LEMMA MkdirStep ==
  ASSUME IInv, NEW m \in Mutators, Mkdir(m)
  PROVE  IInv'
<1> DEFINE p == job[m].path
           made == Exists(Front(p)) /\ ~Exists(p)
           events == EventsOf(InoAt(Front(p)), "IN_CREATE", Last(p), 0)
<1>1. ReadyJob(job[m]) /\ job[m].pc = "mkdir"
  BY JobsReady DEF IInv, Mkdir
<1>2. p \in Paths /\ Len(p) > 1 /\ Last(p) \in Names
  BY <1>1, FrontLastPath DEF ReadyJob
<1>3. job' \in [Mutators -> Jobs] /\ JobInv'
  <2>1. CASE job' = [job EXCEPT ![m] = Idle]
    BY <2>1, IdleJob, JobChange DEF ReadyJob
  <2>2. CASE Free(p) # {} /\ job' = [job EXCEPT ![m].path = NewPath(p)]
    <3>1. (CHOOSE n \in Free(p) : TRUE) \in Free(p)
      BY <2>2
    <3>2. (CHOOSE n \in Free(p) : TRUE) \in Names
      BY <3>1 DEF Free
    <3>3. NewPath(p) \in Paths /\ Len(NewPath(p)) > 1
      BY <1>2, <3>2, AppendPath DEF NewPath
    <3>4. ReadyJob([job[m] EXCEPT !.path = NewPath(p)])
      BY <1>1, <3>3 DEF ReadyJob, Jobs
    <3>5. job' = [job EXCEPT ![m] = [job[m] EXCEPT !.path = NewPath(p)]]
      BY <2>2
    <3> QED BY <3>4, <3>5, JobChange
  <2> QED BY <2>1, <2>2 DEF Mkdir
<1>4. events \in Seq(Events) /\ \A e \in ToSet(events) : e.mask = "IN_CREATE"
  <2>1. \A w \in watches : Event(w.wd, "IN_CREATE", Last(p), 0) \in Events
    <3>1. \A w \in watches : w.wd \in Nat
      BY DEF IInv, TypeOK
    <3>2. 0 \in 0..MaxOps
      BY DtreeAssumption
    <3> QED BY <1>2, <3>1, <3>2, EventType DEF NamedMasks
  <2>2. IsFiniteSet(watches)
    BY DEF IInv, WatchInv
  <2> HIDE DEF p
  <2> QED BY <2>1, <2>2, EventsOfElements
<1>5. CASE made
  <2>1. queue' = Notify(queue, events) /\ UNCHANGED <<nextWd, watches, cache, buf>>
        /\ tree' = tree \cup {[ino |-> nextIno, path |-> p]}
        /\ nextIno' = nextIno + 1
    BY <1>5 DEF Mkdir, monitor
  <2> HIDE DEF events, p
  <2>2. /\ queue' \in Seq(Events) /\ Len(queue') <= MaxQueue + 1
        /\ QueueInv' /\ WatchInv' /\ GoneInv' /\ CacheMatchesWatches'
    BY <1>4, <2>1, Queued DEF GoneMasks
  <2>3. TypeOK'
    <3>1. /\ nextIno \in Nat \ {0} /\ nextIno' \in Nat \ {0}
          /\ 1..nextIno - 1 \subseteq 1..nextIno' - 1
          /\ nextIno \in 1..nextIno' - 1
      BY <2>1 DEF IInv, TypeOK
    <3>2. tree' \subseteq [ino : 1..nextIno' - 1, path : Paths]
      BY <1>2, <2>1, <3>1 DEF IInv, TypeOK
    <3>3. watches' \subseteq [wd : 1..nextWd' - 1, ino : 1..nextIno' - 1,
                              self : BOOLEAN]
      BY <2>1, <3>1 DEF IInv, TypeOK
    <3> QED BY <1>3, <2>1, <2>2, <3>1, <3>2, <3>3
            DEF Mkdir, IInv, TypeOK, monitor
  <2> QED BY <1>3, <2>2, <2>3 DEF IInv
<1>6. CASE ~made
  <2>1. UNCHANGED <<tree, nextIno, queue, mounted, watches, nextWd, monitor, ops,
                    stop, raced>>
    BY <1>6 DEF Mkdir
  <2>2. TypeOK'
    BY <1>3, <2>1 DEF IInv, TypeOK, monitor
  <2>3. QueueInv' /\ WatchInv' /\ GoneInv' /\ CacheMatchesWatches'
    BY <2>1 DEF IInv, QueueInv, WatchInv, GoneInv, CacheMatchesWatches,
                Watched, monitor
  <2> QED BY <1>3, <2>2, <2>3 DEF IInv
<1> QED BY <1>5, <1>6

(* rmdir(), after which the watch is gone. *)
LEMMA RmdirStep ==
  ASSUME IInv, NEW m \in Mutators, Rmdir(m)
  PROVE  IInv'
<1> DEFINE p == job[m].path
           i == InoAt(p)
           done == Exists(p) /\ Children(i) = {}
           j == IF done /\ Len(p) > 2 THEN [job[m] EXCEPT !.path = Front(p)]
                ELSE Idle
<1>1. ReadyJob(job[m]) /\ job[m].pc = "rmdir"
  BY JobsReady DEF IInv, Rmdir
<1>2. p \in Paths
  BY <1>1 DEF ReadyJob
<1>3. job' \in [Mutators -> Jobs] /\ JobInv'
  <2>1. Len(p) > 2 => Front(p) \in Paths
    BY <1>2, FrontLastPath, PathType
  <2>2. ReadyJob(j)
    BY <1>1, <2>1, IdleJob DEF ReadyJob, Jobs
  <2>3. job' = [job EXCEPT ![m] = j]
    BY DEF Rmdir
  <2> HIDE DEF j
  <2> QED BY <2>2, <2>3, JobChange
<1>4. CASE done
  <2>1. /\ UNCHANGED <<nextWd, cache, buf>>
        /\ tree' \subseteq tree
        /\ watches' = {w \in watches : w.ino \notin {i}}
        /\ queue' = Notify(queue, Gone({i}, "IN_DELETE_SELF"))
        /\ raced' \in BOOLEAN
    <3>1. watches' = {w \in watches : w.ino # i}
      BY <1>4 DEF Rmdir
    <3>2. raced' = (raced \/ ~Settled)
      BY <1>4 DEF Rmdir
    <3> QED BY <1>4, <3>1, <3>2 DEF Rmdir, monitor
  <2>2. "IN_DELETE_SELF" \in GoneMasks
    BY DEF GoneMasks
  <2> HIDE DEF i
  <2>3. /\ queue' \in Seq(Events) /\ Len(queue') <= MaxQueue + 1
        /\ QueueInv' /\ WatchInv' /\ GoneInv' /\ CacheMatchesWatches'
    BY <2>1, <2>2, WatchesGone
  <2>4. TypeOK'
    BY <1>3, <2>1, <2>3 DEF Rmdir, IInv, TypeOK, monitor
  <2> QED BY <1>3, <2>3, <2>4 DEF IInv
<1>5. CASE ~done
  <2>1. UNCHANGED <<tree, nextIno, queue, mounted, watches, nextWd, monitor, ops,
                    stop, raced>>
    BY <1>5 DEF Rmdir
  <2>2. TypeOK'
    BY <1>3, <2>1 DEF IInv, TypeOK, monitor
  <2>3. QueueInv' /\ WatchInv' /\ GoneInv' /\ CacheMatchesWatches'
    BY <2>1 DEF IInv, QueueInv, WatchInv, GoneInv, CacheMatchesWatches,
                Watched, monitor
  <2> QED BY <1>3, <2>2, <2>3 DEF IInv
<1> QED BY <1>4, <1>5

(* The first half of rename(). *)
LEMMA RenameStep ==
  ASSUME IInv, NEW m \in Mutators, Rename(m)
  PROVE  IInv'
<1> DEFINE p == job[m].path
           q == job[m].to
           moved == Exists(p) /\ Exists(Front(q)) /\ ~Exists(q) /\ ~IsPrefix(p, q)
           events == EventsOf(InoAt(Front(p)), "IN_MOVED_FROM", Last(p),
                              job[m].cookie)
<1>1. ReadyJob(job[m]) /\ job[m].pc = "rename"
  BY JobsReady DEF IInv, Rename
<1>2. p \in Paths /\ q \in Paths /\ Len(q) > 1 /\ job[m].cookie \in 0..MaxOps
  BY <1>1 DEF ReadyJob, Jobs
<1>3. events \in Seq(Events)
      /\ \A e \in ToSet(events) : e.mask = "IN_MOVED_FROM"
  <2>1. ASSUME NEW w \in watches, w.ino = InoAt(Front(p))
        PROVE  Event(w.wd, "IN_MOVED_FROM", Last(p), job[m].cookie) \in Events
    <3>1. w.ino # 0 /\ w.wd \in Nat
      BY DEF IInv, TypeOK
    <3>2. Front(p) # <<>>
      BY <2>1, <3>1 DEF InoAt
    <3>3. Last(p) \in Names
      BY <1>2, <3>2, FrontLastPath, PathType
    <3> QED BY <1>2, <3>1, <3>3, EventType DEF NamedMasks
  <2>2. IsFiniteSet(watches)
    BY DEF IInv, WatchInv
  <2> HIDE DEF p
  <2> QED BY <2>1, <2>2, EventsOfElements
<1>4. CASE moved
  <2>1. /\ UNCHANGED <<nextWd, watches, cache, buf>>
        /\ queue' = Notify(queue, events)
        /\ tree' = {IF IsPrefix(p, d.path)
                    THEN [d EXCEPT !.path = Move(@, p, q)] ELSE d : d \in tree}
    BY <1>4 DEF Rename, monitor
  <2>2. raced' \in BOOLEAN
    <3>1. raced' = (raced \/ ~Settled \/ (Len(p) = 1 /\ p[1] \in rootDirPaths
                                          /\ q[1] \in rootDirPaths))
      BY <1>4, Zenon DEF Rename
    <3> QED BY <3>1, Zenon
  <2>3. job' \in [Mutators -> Jobs] /\ JobInv'
    <3> DEFINE j == [job[m] EXCEPT !.pc = "moved", !.ino = InoAt(p),
                                   !.dir = InoAt(Front(q))]
    <3>1. InoAt(p) \in Nat /\ InoAt(Front(q)) \in Nat
      BY <1>4, TreeType DEF IInv
    <3>2. ReadyJob(j)
      BY <1>1, <3>1 DEF ReadyJob, Jobs
    <3>3. job' = [job EXCEPT ![m] = j]
      BY <1>4 DEF Rename, IInv, TypeOK
    <3> HIDE DEF j
    <3> QED BY <3>2, <3>3, JobChange
  <2>4. tree' \subseteq [ino : 1..nextIno - 1, path : Paths]
    <3>1. ASSUME NEW d \in tree, IsPrefix(p, d.path)
          PROVE  [d EXCEPT !.path = Move(@, p, q)]
                   \in [ino : 1..nextIno - 1, path : Paths]
      <4>1. d \in [ino : 1..nextIno - 1, path : Paths]
        BY DEF IInv, TypeOK
      <4>2. Move(d.path, p, q) \in Paths
        BY <1>2, <3>1, <4>1, MovePath DEF IsPrefix
      <4> QED BY <4>1, <4>2
    <3>2. tree \subseteq [ino : 1..nextIno - 1, path : Paths]
      BY DEF IInv, TypeOK
    <3> QED BY <2>1, <3>1, <3>2
  <2> HIDE DEF events, p, q
  <2>5. /\ queue' \in Seq(Events) /\ Len(queue') <= MaxQueue + 1
        /\ QueueInv' /\ WatchInv' /\ GoneInv' /\ CacheMatchesWatches'
    BY <1>3, <2>1, Queued DEF GoneMasks
  <2>6. TypeOK'
    BY <2>2, <2>3, <2>4, <2>5 DEF Rename, IInv, TypeOK, monitor
  <2> QED BY <2>3, <2>5, <2>6 DEF IInv
<1>5. CASE ~moved
  <2>1. /\ job' = [job EXCEPT ![m] = Idle]
        /\ UNCHANGED <<tree, nextIno, queue, mounted, watches, nextWd, monitor,
                       ops, stop, raced>>
    BY <1>5 DEF Rename
  <2>2. job' \in [Mutators -> Jobs] /\ JobInv'
    BY <2>1, IdleJob, JobChange DEF ReadyJob
  <2>3. TypeOK'
    BY <2>1, <2>2 DEF IInv, TypeOK, monitor
  <2>4. QueueInv' /\ WatchInv' /\ GoneInv' /\ CacheMatchesWatches'
    BY <2>1 DEF IInv, QueueInv, WatchInv, GoneInv, CacheMatchesWatches,
                Watched, monitor
  <2> QED BY <2>2, <2>3, <2>4 DEF IInv
<1> QED BY <1>4, <1>5

(* The second half of rename(). *)
LEMMA RenameToStep ==
  ASSUME IInv, NEW m \in Mutators, RenameTo(m)
  PROVE  IInv'
<1> DEFINE first == EventsOf(job[m].dir, "IN_MOVED_TO", Last(job[m].to),
                             job[m].cookie)
           self == EventsOf(job[m].ino, "IN_MOVE_SELF", "", 0)
           events == first \o (IF {w \in watches : w.ino = job[m].ino /\ w.self} = {}
                               THEN <<>> ELSE self)
<1>1. ReadyJob(job[m]) /\ job[m].pc = "moved" /\ IsFiniteSet(watches)
  BY JobsReady DEF IInv, RenameTo, WatchInv
<1>2. Last(job[m].to) \in Names /\ job[m].cookie \in 0..MaxOps
  BY <1>1, FrontLastPath DEF ReadyJob, Jobs
<1>3. /\ first \in Seq(Events) /\ \A e \in ToSet(first) : e.mask = "IN_MOVED_TO"
      /\ self \in Seq(Events) /\ \A e \in ToSet(self) : e.mask = "IN_MOVE_SELF"
  <2>1. \A w \in watches :
          /\ Event(w.wd, "IN_MOVED_TO", Last(job[m].to), job[m].cookie) \in Events
          /\ Event(w.wd, "IN_MOVE_SELF", "", 0) \in Events
    <3>1. \A w \in watches : w.wd \in Nat
      BY DEF IInv, TypeOK
    <3> QED BY <1>2, <3>1, EventType DEF NamedMasks, OtherMasks
  <2> QED BY <1>1, <2>1, EventsOfElements
<1> HIDE DEF first, self
<1>4. events \in Seq(Events) /\ \A e \in ToSet(events) : e.mask \notin GoneMasks
  <2>1. events \in Seq(Events)
    BY <1>3
  <2>2. CASE events = first \o <<>>
    <3>1. events = first
      BY <1>3, <2>2, ConcatEmptySeq
    <3> QED BY <1>3, <2>1, <3>1 DEF GoneMasks
  <2>3. CASE events = first \o self
    <3>1. ToSet(first \o self) = ToSet(first) \cup ToSet(self)
      BY <1>3, ToSetConcat
    <3> QED BY <1>3, <2>1, <2>3, <3>1 DEF GoneMasks
  <2> QED BY <2>1, <2>2, <2>3
<1>5. queue' = Notify(queue, events) /\ UNCHANGED <<nextWd, watches, cache, buf>>
  BY DEF RenameTo, first, self, monitor
<1>6. job' \in [Mutators -> Jobs] /\ JobInv'
  BY IdleJob, JobChange DEF ReadyJob, RenameTo
<1> HIDE DEF events
<1>7. /\ queue' \in Seq(Events) /\ Len(queue') <= MaxQueue + 1
      /\ QueueInv' /\ WatchInv' /\ GoneInv' /\ CacheMatchesWatches'
  BY <1>4, <1>5, Queued
<1>8. TypeOK'
  BY <1>6, <1>7 DEF RenameTo, IInv, TypeOK, fsVars, monitor
<1> QED BY <1>6, <1>7, <1>8 DEF IInv

(* An unmount, after which all watches below are gone. *)
LEMMA UnmountStep ==
  ASSUME IInv, NEW r \in RootDirs, Unmount(r)
  PROVE  IInv'
<1> DEFINE lost == {d \in tree : d.path[1] = r}
           inos == {d.ino : d \in lost}
           new == [ino |-> nextIno, path |-> <<r>>]
<1>1. /\ UNCHANGED <<nextWd, cache, buf>>
      /\ watches' = {w \in watches : w.ino \notin inos}
      /\ queue' = Notify(queue, Gone(inos, "IN_UNMOUNT"))
      /\ tree' = (tree \ lost) \cup {new} /\ nextIno' = nextIno + 1
      /\ ops' = ops + 1 /\ ops < MaxOps
  BY DEF Unmount, monitor
<1>2. "IN_UNMOUNT" \in GoneMasks
  BY DEF GoneMasks
<1>3. new \in [ino : {nextIno}, path : Paths]
  BY OneNamePath DEF AllNames
<1> HIDE DEF lost, inos, new
<1>4. /\ queue' \in Seq(Events) /\ Len(queue') <= MaxQueue + 1
      /\ QueueInv' /\ WatchInv' /\ GoneInv' /\ CacheMatchesWatches'
  BY <1>1, <1>2, WatchesGone
<1>5. TypeOK'
  <2>1. /\ nextIno \in Nat \ {0} /\ nextIno' \in Nat \ {0}
        /\ 1..nextIno - 1 \subseteq 1..nextIno' - 1
        /\ nextIno \in 1..nextIno' - 1
    BY <1>1 DEF IInv, TypeOK
  <2>2. tree' \subseteq [ino : 1..nextIno' - 1, path : Paths]
    BY <1>1, <1>3, <2>1 DEF IInv, TypeOK
  <2>3. watches' \subseteq [wd : 1..nextWd' - 1, ino : 1..nextIno' - 1,
                            self : BOOLEAN]
    BY <1>1, <2>1 DEF IInv, TypeOK
  <2>4. ops' \in 0..MaxOps
    BY <1>1, DtreeAssumption DEF IInv, TypeOK
  <2> QED BY <1>1, <1>4, <2>1, <2>2, <2>3, <2>4 DEF Unmount, IInv, TypeOK, monitor
<1>6. JobInv'
  BY DEF Unmount, IInv, JobInv
<1> QED BY <1>4, <1>5, <1>6 DEF IInv

-----------------------------------------------------------------------------
(* The steps of inotify_dtree. *)

Frames == [path : Paths \cup {<<>>}, ino : Nat, names : SUBSET AllNames]

(* reinitialize() establishes the invariant anew. *)
LEMMA Reinitialized ==
  ASSUME IInv, NEW roots \in SUBSET RootDirs, NEW place \in {"select", "read"},
         reinitialize(roots, place), UNCHANGED <<fsVars, job>>,
         rootDirPaths' \subseteq RootDirs, ops' \in 0..MaxOps, stop' \in BOOLEAN
  PROVE  IInv'
<1>1. walk' \in Seq(Frames) /\ walk' # <<>>
  <2>1. Frame(<<>>, roots) \in Frames
    BY DEF Frame, Frames, AllNames
  <2>2. walk' = <<Frame(<<>>, roots)>>
    BY DEF reinitialize
  <2> QED BY <2>1, <2>2
<1>2. queue' \in Seq(Events) /\ buf' \in Seq(Events) /\ Len(queue') = 0
      /\ ToSet(queue') = {} /\ ToSet(buf') = {}
  BY DEF reinitialize, ToSet
<1>3. TypeOK'
  <2>1. /\ nextWd' = 1 /\ watches' = {} /\ cache' = {} /\ buf' = <<>>
        /\ ret' = place /\ pc' = "walk"
        /\ {firstTry', raced', stop'} \subseteq BOOLEAN
    BY DEF reinitialize
  <2> QED BY <1>1, <1>2, <2>1, DtreeAssumption DEF IInv, TypeOK, Frames, fsVars
<1>4. QueueInv' /\ GoneInv'
  BY <1>2, DtreeAssumption DEF QueueInv, GoneInv
<1>5. WatchInv'
  BY FS_EmptySet DEF reinitialize, WatchInv
<1>6. CacheMatchesWatches'
  BY DEF reinitialize, CacheMatchesWatches, Watched
<1>7. JobInv'
  BY DEF IInv, JobInv
<1> QED BY <1>3, <1>4, <1>5, <1>6, <1>7 DEF IInv

(* So does the end of the process. *)
LEMMA Exited ==
  ASSUME IInv, NEW how \in Ended, Exit(how), UNCHANGED <<fsVars, job, raced>>,
         ops' \in 0..MaxOps, stop' \in BOOLEAN
  PROVE  IInv'
<1>1. queue' \in Seq(Events) /\ buf' \in Seq(Events) /\ Len(queue') = 0
      /\ ToSet(queue') = {} /\ ToSet(buf') = {} /\ walk' \in Seq(Frames)
  BY DEF Exit, ToSet
<1>2. TypeOK'
  BY <1>1, DtreeAssumption DEF Exit, IInv, TypeOK, Frames, fsVars, Ended
<1>3. QueueInv' /\ GoneInv'
  BY <1>1, DtreeAssumption DEF QueueInv, GoneInv
<1>4. WatchInv'
  BY FS_EmptySet DEF Exit, WatchInv
<1>5. CacheMatchesWatches'
  BY DEF Exit, CacheMatchesWatches, Watched
<1>6. JobInv'
  BY DEF IInv, JobInv
<1> QED BY <1>2, <1>3, <1>4, <1>5, <1>6 DEF IInv

(* nftw() goes on, or returns to where the traversal was started from. *)
LEMMA ContinueType ==
  ASSUME IInv, pc = "walk", NEW frames \in Seq(Frames), Continue(frames),
         UNCHANGED <<ret, buf>>
  PROVE  /\ walk' \in Seq(Frames)
         /\ pc' \in {"walk", "select", "read", "process"}
         /\ (pc' = "walk") <=> (walk' # <<>>)
         /\ pc' = "walk" => ret' \in IF buf' = <<>> THEN {"select", "read"}
                                     ELSE {"process"}
         /\ pc' # "walk" => (buf' # <<>> <=> pc' \in {"process", "hang", "blocked"})
  BY DEF Continue, IInv, TypeOK

(* The directories of a traversal that are not done with. *)
LEMMA UnfinishedType ==
  ASSUME NEW f \in Frames, NEW frames \in Seq(Frames)
  PROVE  Unfinished(f) \o frames \in Seq(Frames)
<1>1. Unfinished(f) \in Seq(Frames)
  BY DEF Unfinished
<1> QED BY <1>1

(* What is left of a traversal that is given up. *)
LEMMA AbandonedType ==
  ASSUME NEW frames \in Seq(Frames)
  PROVE  Abandoned(frames) \in Seq(Frames)
<1>1. frames # <<>> => Last(frames) \in Frames
  BY EmptySeq DEF Last
<1> QED BY <1>1 DEF Abandoned

(* A directory of the traversal gets its watch and its entry. *)
LEMMA VisitStep ==
  ASSUME IInv, Visit
  PROVE  IInv'
<1>1. pc = "walk" /\ walk \in Seq(Frames) /\ walk # <<>>
  BY DEF Visit, IInv, TypeOK, Frames
<1>2. Head(walk) \in Frames /\ Tail(walk) \in Seq(Frames)
  BY <1>1, HeadTailProperties
<1>3. PICK n \in Head(walk).names :
         LET p == Append(Head(walk).path, n)
             rest == Unfinished([Head(walk) EXCEPT !.names = @ \ {n}])
                     \o Tail(walk)
             old == {w \in watches : w.ino = InoAt(p)}
             wd == IF old = {} THEN nextWd ELSE (CHOOSE w \in old : TRUE).wd
         IN IF Exists(p)
            THEN /\ watches' = (watches \ old) \cup
                     {[wd |-> wd, ino |-> InoAt(p), self |-> isRootDirPath(p)]}
                 /\ nextWd' = IF old = {} THEN nextWd + 1 ELSE nextWd
                 /\ cache' = CacheEntry(wd, p)
                 /\ Continue(<<[Frame(p, {}) EXCEPT !.ino = InoAt(p)]>> \o rest)
            ELSE /\ Continue(rest) \/ Continue(Abandoned(rest))
                 /\ UNCHANGED <<watches, nextWd, cache>>
  BY DEF Visit
<1> DEFINE p == Append(Head(walk).path, n)
           rest == Unfinished([Head(walk) EXCEPT !.names = @ \ {n}])
                   \o Tail(walk)
           old == {w \in watches : w.ino = InoAt(p)}
           wd == IF old = {} THEN nextWd ELSE (CHOOSE w \in old : TRUE).wd
           new == [wd |-> wd, ino |-> InoAt(p), self |-> isRootDirPath(p)]
<1>4. rest \in Seq(Frames)
  <2>1. [Head(walk) EXCEPT !.names = @ \ {n}] \in Frames
    BY <1>2 DEF Frames
  <2> QED BY <1>2, <2>1, UnfinishedType
<1>5. UNCHANGED <<tree, nextIno, mounted, queue, ret, buf, firstTry,
                  rootDirPaths, job, ops, stop, raced>>
  BY DEF Visit, fsVars, mutators
<1>6. QueueInv' /\ JobInv'
  BY <1>5 DEF IInv, QueueInv, JobInv
<1>7. CASE ~Exists(p)
  <2> HIDE DEF rest
  <2>1. PICK frames \in Seq(Frames) : Continue(frames)
    BY <1>3, <1>4, <1>7, AbandonedType DEF rest
  <2>2. UNCHANGED <<watches, nextWd, cache>>
    BY <1>3, <1>7
  <2>3. TypeOK'
    BY <1>1, <1>5, <2>1, <2>2, ContinueType DEF IInv, TypeOK, Frames
  <2>4. WatchInv' /\ GoneInv' /\ CacheMatchesWatches'
    BY <1>5, <2>2 DEF IInv, WatchInv, GoneInv, CacheMatchesWatches, Watched
  <2> QED BY <1>6, <2>3, <2>4 DEF IInv
<1>8. CASE Exists(p)
  <2>1. /\ watches' = (watches \ old) \cup {new}
        /\ nextWd' = IF old = {} THEN nextWd + 1 ELSE nextWd
        /\ cache' = CacheEntry(wd, p)
        /\ Continue(<<[Frame(p, {}) EXCEPT !.ino = InoAt(p)]>> \o rest)
    BY <1>3, <1>8
  <2>2. /\ p \in Paths /\ p # <<>> /\ InoAt(p) \in 1..nextIno - 1
    <3>1. Head(walk).path \in Seq(AllNames) /\ n \in AllNames
      <4>1. Head(walk).path \in Paths \cup {<<>>} /\ n \in AllNames
        BY <1>2 DEF Frames
      <4> QED BY <4>1, PathType, EmptySeq
    <3>2. p # <<>>
      BY <3>1, AppendProperties
    <3>3. \E d \in tree : d.path = p /\ d.ino = InoAt(p)
      BY <1>8, <3>2, TreeType DEF IInv
    <3> QED BY <3>2, <3>3 DEF IInv, TypeOK
  <2> HIDE DEF p
  <2>3. <<[Frame(p, {}) EXCEPT !.ino = InoAt(p)]>> \o rest \in Seq(Frames)
    <3>1. [Frame(p, {}) EXCEPT !.ino = InoAt(p)] \in Frames
      BY <2>2 DEF Frame, Frames
    <3> HIDE DEF rest
    <3> QED BY <1>4, <3>1
  <2>4. CASE old = {}
    <3>1. /\ wd = nextWd /\ nextWd' = nextWd + 1 /\ nextWd \in Nat \ {0}
          /\ watches' = watches \cup {new} /\ new.wd = nextWd /\ new.ino = InoAt(p)
      BY <2>1, <2>4 DEF IInv, TypeOK
    <3>2. \A w \in watches : w.ino # new.ino /\ w.wd # nextWd
      BY <2>4, <3>1 DEF IInv, TypeOK
    <3>3. \A c \in cache : c.wd # nextWd
      BY <3>1 DEF IInv, TypeOK
    <3>4. cache' = cache \cup {[wd |-> nextWd, path |-> p]}
      BY <2>1, <3>1, <3>3 DEF CacheEntry, findWatch
    <3>5. new \in [wd : 1..nextWd' - 1, ino : 1..nextIno - 1, self : BOOLEAN]
      BY <2>2, <3>1 DEF isRootDirPath
    <3> HIDE DEF new, old, wd, rest
    <3>6. TypeOK'
      <4>1. 1..nextWd - 1 \subseteq 1..nextWd' - 1 /\ nextWd \in 1..nextWd' - 1
            /\ nextWd' \in Nat \ {0}
        BY <3>1
      <4>2. watches' \subseteq [wd : 1..nextWd' - 1, ino : 1..nextIno - 1,
                                self : BOOLEAN]
        BY <3>1, <3>5, <4>1 DEF IInv, TypeOK
      <4>3. cache' \subseteq [wd : 1..nextWd' - 1, path : Paths]
        <5>1. cache \subseteq [wd : 1..nextWd - 1, path : Paths]
          BY DEF IInv, TypeOK
        <5>2. cache \subseteq [wd : 1..nextWd' - 1, path : Paths]
          BY <4>1, <5>1
        <5>3. [wd |-> nextWd, path |-> p] \in [wd : 1..nextWd' - 1, path : Paths]
          BY <2>2, <4>1
        <5> QED BY <3>4, <5>2, <5>3
      <4> QED BY <1>1, <1>5, <2>1, <2>3, <4>1, <4>2, <4>3, ContinueType
              DEF IInv, TypeOK, Frames
    <3>7. WatchInv'
      <4>1. IsFiniteSet(watches') /\ IsFiniteSet(cache')
        BY <3>1, <3>4, FS_AddElement DEF IInv, WatchInv
      <4> QED BY <3>1, <3>2, <4>1 DEF IInv, WatchInv
    <3>8. Watched' = Watched \cup {nextWd}
      BY <3>1 DEF Watched
    <3>9. GoneInv'
      BY <1>5, <3>1, <3>8 DEF IInv, GoneInv
    <3>10. CacheMatchesWatches'
      <4> DEFINE c0 == [wd |-> nextWd, path |-> p]
      <4>1. c0.wd = nextWd /\ cache' = cache \cup {c0}
        BY <3>4
      <4> HIDE DEF c0
      <4>2. \A c, e \in cache' : c.wd = e.wd => c = e
        BY <3>3, <4>1 DEF IInv, CacheMatchesWatches
      <4>3. Watched' \subseteq {c.wd : c \in cache'}
        BY <3>8, <4>1 DEF IInv, CacheMatchesWatches
      <4>4. ToSet(buf' \o queue') = ToSet(buf \o queue)
        BY <1>5
      <4> QED BY <3>8, <4>1, <4>2, <4>3, <4>4 DEF IInv, CacheMatchesWatches
    <3> QED BY <1>6, <3>6, <3>7, <3>9, <3>10 DEF IInv
  <2>5. CASE old # {}
    <3> DEFINE w0 == CHOOSE w \in old : TRUE
    <3>1. w0 \in watches /\ w0.ino = InoAt(p) /\ wd = w0.wd
      BY <2>5
    <3>2. old = {w0}
      BY <3>1 DEF IInv, WatchInv
    <3> HIDE DEF w0
    <3>3. /\ watches' = (watches \ {w0}) \cup {new} /\ nextWd' = nextWd
          /\ new.wd = w0.wd /\ new.ino = w0.ino
      BY <2>1, <2>5, <3>1, <3>2
    <3>4. Watched' = Watched
      BY <3>1, <3>3 DEF Watched
    <3>5. cache' = cache
      BY <2>1, <3>1 DEF CacheEntry, findWatch, IInv, CacheMatchesWatches, Watched
    <3>6. new \in [wd : 1..nextWd - 1, ino : 1..nextIno - 1, self : BOOLEAN]
      BY <3>1 DEF IInv, TypeOK, isRootDirPath
    <3> HIDE DEF new, old, wd, rest
    <3>7. TypeOK'
      <4>1. watches' \subseteq [wd : 1..nextWd - 1, ino : 1..nextIno - 1,
                                self : BOOLEAN]
        BY <3>3, <3>6 DEF IInv, TypeOK
      <4> QED BY <1>1, <1>5, <2>1, <2>3, <3>3, <3>5, <4>1, ContinueType
              DEF IInv, TypeOK, Frames
    <3>8. WatchInv'
      <4>1. IsFiniteSet(watches') /\ IsFiniteSet(cache')
        BY <3>3, <3>5, FS_AddElement, FS_RemoveElement DEF IInv, WatchInv
      <4> QED BY <3>1, <3>3, <4>1 DEF IInv, WatchInv
    <3>9. GoneInv' /\ CacheMatchesWatches'
      BY <1>5, <3>3, <3>4, <3>5 DEF IInv, GoneInv, CacheMatchesWatches
    <3> QED BY <1>6, <3>7, <3>8, <3>9 DEF IInv
  <2> QED BY <2>4, <2>5
<1> QED BY <1>7, <1>8

(* The entries of a directory of the traversal are read. *)
LEMMA ReadDirStep ==
  ASSUME IInv, ReadDir
  PROVE  IInv'
<1> DEFINE f == Frame(Head(walk).path,
                      {Last(d.path) : d \in Children(Head(walk).ino)})
<1>1. pc = "walk" /\ walk \in Seq(Frames) /\ walk # <<>>
  BY DEF ReadDir, IInv, TypeOK, Frames
<1>2. Head(walk) \in Frames /\ Tail(walk) \in Seq(Frames)
  BY <1>1, HeadTailProperties
<1>3. \A d \in Children(Head(walk).ino) : Last(d.path) \in AllNames
  BY TreeType, FrontLastPath DEF Children, IInv
<1>4. f \in Frames
  BY <1>2, <1>3 DEF Frame, Frames
<1>5. Continue(Unfinished(f) \o Tail(walk))
      /\ UNCHANGED <<fsVars, kernel, ret, buf, firstTry, cache, rootDirPaths,
                     mutators, stop, raced>>
  BY DEF ReadDir
<1> HIDE DEF f
<1>6. Unfinished(f) \o Tail(walk) \in Seq(Frames)
  BY <1>2, <1>4, UnfinishedType
<1>7. TypeOK'
  BY <1>1, <1>5, <1>6, ContinueType
     DEF IInv, TypeOK, Frames, fsVars, kernel, mutators
<1>8. QueueInv' /\ WatchInv' /\ GoneInv' /\ JobInv' /\ CacheMatchesWatches'
  BY <1>5 DEF IInv, QueueInv, WatchInv, GoneInv, JobInv, CacheMatchesWatches,
              Watched, kernel, mutators
<1> QED BY <1>7, <1>8 DEF IInv

(* The first event of the read buffer. *)
LEMMA FirstEvent ==
  ASSUME IInv, pc = "process"
  PROVE  /\ buf \in Seq(Events) /\ buf # <<>> /\ walk = <<>>
         /\ ev \in Events /\ Tail(buf) \in Seq(Events)
         /\ ToSet(buf) = {ev} \cup ToSet(Tail(buf))
<1>1. buf \in Seq(Events) /\ buf # <<>> /\ walk = <<>>
  BY DEF IInv, TypeOK
<1> QED BY <1>1, HeadTailProperties, ToSetHeadTail DEF ev

(* What findWatch finds has a pathname. *)
LEMMA PathOfType ==
  ASSUME IInv, NEW wd, findWatch(wd) # {}
  PROVE  PathOf(wd) \in Paths
<1>1. \E c \in cache : c.wd = wd
  BY DEF findWatch
<1>2. (CHOOSE c \in cache : c.wd = wd) \in cache
  BY <1>1
<1> QED BY <1>2 DEF PathOf, IInv, TypeOK

(* An event whose mask is in NamedMasks has a name. *)
LEMMA EventName ==
  ASSUME NEW e \in Events, e.mask \in NamedMasks
  PROVE  e.name \in Names
  BY DEF Events, NamedMasks

(* The read buffer gets shorter, and the rest of the monitor's state has   *)
(* its type.                                                               *)
LEMMA AdvanceType ==
  ASSUME IInv, pc = "process", NEW rest \in Seq(Events), Advance(rest),
         UNCHANGED <<fsVars, mutators, nextWd, ret, walk, stop, raced>>,
         watches' \subseteq watches,
         cache' \subseteq [wd : 1..nextWd - 1, path : Paths],
         queue' \in Seq(Events), Len(queue') <= MaxQueue + 1,
         rootDirPaths' \subseteq rootDirPaths
  PROVE  TypeOK' /\ JobInv'
<1>1. /\ walk' = <<>> /\ buf' = rest /\ firstTry' = TRUE
      /\ pc' = IF rest = <<>> THEN "select" ELSE "process"
  BY FirstEvent DEF Advance, Resume
<1>2. JobInv'
  BY DEF IInv, JobInv, mutators
<1> QED BY <1>1, <1>2 DEF IInv, TypeOK, fsVars, mutators

(* An event that does not tell of a watch that is gone, nor of lost        *)
(* events, is dropped from the read buffer.                                *)
LEMMA Dropped ==
  ASSUME IInv, pc = "process", ev.mask \notin GoneMasks, ev # Overflow,
         UNCHANGED <<nextWd, watches, cache, queue>>, buf' = Tail(buf)
  PROVE  QueueInv' /\ WatchInv' /\ GoneInv' /\ CacheMatchesWatches'
<1>1. /\ Tail(buf) \in Seq(Events)
      /\ ToSet(buf) = {ev} \cup ToSet(Tail(buf))
  BY FirstEvent
<1>2. queue' \in Seq(Events) /\ QueueInv'
  BY DEF IInv, TypeOK, QueueInv
<1>3. Pending = {ev} \cup Pending'
  BY <1>1 DEF Pending
<1> QED BY <1>1, <1>2, <1>3, EventsChange

(* Events move from the queue to the read buffer. *)
LEMMA ReadEventsStep ==
  ASSUME IInv, ReadEvents
  PROVE  IInv'
<1> DEFINE k == IF Len(queue) < ReadMax THEN Len(queue) ELSE ReadMax
<1>1. /\ queue \in Seq(Events) /\ Len(queue) \in Nat \ {0}
      /\ Len(queue) <= MaxQueue + 1 /\ ToSet(buf) = {}
      /\ walk = <<>>
  <2>1. queue \in Seq(Events) /\ queue # <<>> /\ Len(queue) <= MaxQueue + 1
        /\ buf = <<>> /\ walk = <<>>
    BY DEF ReadEvents, IInv, TypeOK
  <2> QED BY <2>1, EmptySeq DEF ToSet
<1>2. k \in 1..Len(queue)
  BY <1>1, DtreeAssumption
<1>3. buf' = SubSeq(queue, 1, k) /\ queue' = SubSeq(queue, k + 1, Len(queue))
  BY DEF ReadEvents
<1> HIDE DEF k
<1>4. buf' \in Seq(Events) /\ Len(buf') = k
  BY <1>1, <1>2, <1>3, SubSeqProperties
<1>5. queue' \in Seq(Events) /\ Len(queue') <= MaxQueue
  <2>1. /\ queue' \in Seq(Events)
        /\ Len(queue') = IF k + 1 <= Len(queue) THEN Len(queue) - (k + 1) + 1 ELSE 0
    BY <1>1, <1>2, <1>3, SubSeqProperties
  <2> QED BY <1>1, <1>2, <2>1, DtreeAssumption
<1>6. Pending' = Pending
  BY <1>1, <1>2, <1>3, ToSetCut DEF Pending
<1>7. WatchInv' /\ GoneInv' /\ CacheMatchesWatches'
  BY <1>4, <1>5, <1>6, EventsChange DEF ReadEvents
<1>8. QueueInv' /\ JobInv'
  BY <1>5, DtreeAssumption DEF ReadEvents, IInv, QueueInv, JobInv, mutators
<1>9. TypeOK'
  <2>1. buf' # <<>>
    BY <1>2, <1>4
  <2>2. Len(queue') <= MaxQueue + 1
    BY <1>5, DtreeAssumption
  <2> QED BY <1>1, <1>4, <1>5, <2>1, <2>2
          DEF ReadEvents, IInv, TypeOK, fsVars, mutators
<1> QED BY <1>7, <1>8, <1>9 DEF IInv

(* findWatchChecked fails. *)
LEMMA CacheProblemStep ==
  ASSUME IInv, CacheProblem
  PROVE  IInv'
<1>1. /\ UNCHANGED <<fsVars, job>> /\ ops' \in 0..MaxOps
      /\ stop \in BOOLEAN /\ rootDirPaths \subseteq RootDirs
  BY DEF CacheProblem, Processing, mutators, IInv, TypeOK
<1>2. CASE Exit("abort") /\ stop' = TRUE /\ UNCHANGED raced
  BY <1>1, <1>2, Exited DEF Ended
<1>3. CASE reinitialize(rootDirPaths, "select") /\ UNCHANGED <<rootDirPaths, stop>>
  BY <1>1, <1>3, Reinitialized
<1> QED BY <1>2, <1>3 DEF CacheProblem

(* IN_IGNORED is skipped. *)
LEMMA IgnoredStep ==
  ASSUME IInv, Ignored
  PROVE  IInv'
<1>1. /\ pc = "process" /\ ev.mask = "IN_IGNORED" /\ Advance(Tail(buf))
      /\ buf' = Tail(buf)
      /\ UNCHANGED <<fsVars, mutators, watches, nextWd, queue, ret, cache,
                     rootDirPaths, walk, stop, raced>>
  BY DEF Ignored, Processing, kernel, Advance
<1>2. ev # Overflow /\ ev.mask \notin GoneMasks
  BY <1>1, EventType DEF GoneMasks
<1>3. QueueInv' /\ WatchInv' /\ GoneInv' /\ CacheMatchesWatches'
  BY <1>1, <1>2, Dropped
<1>4. TypeOK' /\ JobInv'
  <2>1. Tail(buf) \in Seq(Events)
    BY <1>1, FirstEvent
  <2> QED BY <1>1, <2>1, AdvanceType DEF IInv, TypeOK
<1> QED BY <1>3, <1>4 DEF IInv

(* IN_Q_OVERFLOW makes the cache anew. *)
LEMMA QueueOverflowStep ==
  ASSUME IInv, QueueOverflow
  PROVE  IInv'
<1>1. /\ UNCHANGED <<fsVars, job>> /\ ops' \in 0..MaxOps
      /\ stop' \in BOOLEAN /\ rootDirPaths' \subseteq RootDirs
      /\ reinitialize(rootDirPaths, "select") /\ rootDirPaths \in SUBSET RootDirs
  BY DEF QueueOverflow, Processing, mutators, IInv, TypeOK
<1> QED BY <1>1, Reinitialized

(* IN_CREATE and IN_MOVED_TO start a traversal. *)
LEMMA CreatedStep ==
  ASSUME IInv, Created
  PROVE  IInv'
<1> DEFINE fullPath == Append(PathOf(ev.wd), ev.name)
<1>1. /\ pc = "process" /\ ev.mask \in {"IN_CREATE", "IN_MOVED_TO"}
      /\ findWatch(ev.wd) # {}
      /\ buf' = Tail(buf) /\ firstTry' = TRUE
      /\ UNCHANGED <<fsVars, mutators, watches, nextWd, queue, cache,
                     rootDirPaths, stop, raced>>
  BY DEF Created, Found, Processing, kernel, Advance
<1>2. /\ buf \in Seq(Events) /\ ev \in Events /\ Tail(buf) \in Seq(Events)
      /\ walk = <<>>
  BY <1>1, FirstEvent
<1>3. ev # Overflow /\ ev.mask \notin GoneMasks
  BY <1>1, EventType DEF GoneMasks
<1>4. QueueInv' /\ WatchInv' /\ GoneInv' /\ CacheMatchesWatches'
  BY <1>1, <1>3, Dropped
<1>5. TypeOK' /\ JobInv'
  <2>1. CASE pathnameInCache(fullPath)
    <3>1. Advance(Tail(buf)) /\ UNCHANGED <<ret, walk>>
      BY <2>1 DEF Created
    <3> QED BY <1>1, <1>2, <3>1, AdvanceType DEF IInv, TypeOK
  <2>2. CASE ~pathnameInCache(fullPath)
    <3>1. watchSubtree(fullPath, Resume(Tail(buf)))
      BY <2>2 DEF Created
    <3>2. fullPath \in Paths
      <4>1. PathOf(ev.wd) \in Paths /\ ev.name \in Names
        BY <1>1, <1>2, PathOfType, EventName DEF NamedMasks
      <4> QED BY <4>1, AppendPath
    <3> HIDE DEF fullPath
    <3>3. walk' \in Seq(Frames) /\ walk' # <<>>
      <4>1. Frame(Front(fullPath), {Last(fullPath)}) \in Frames
        BY <3>2, FrontLastPath DEF Frame, Frames
      <4>2. walk' = <<Frame(Front(fullPath), {Last(fullPath)})>>
        BY <3>1 DEF watchSubtree
      <4> QED BY <4>1, <4>2
    <3>4. pc' = "walk" /\ ret' = IF buf' = <<>> THEN "select" ELSE "process"
      BY <1>1, <3>1 DEF watchSubtree, Resume
    <3>5. JobInv'
      BY <1>1 DEF IInv, JobInv, mutators
    <3> QED BY <1>1, <1>2, <3>3, <3>4, <3>5
            DEF IInv, TypeOK, Frames, fsVars, mutators
  <2> QED BY <2>1, <2>2
<1> QED BY <1>4, <1>5 DEF IInv

(* The entry that an event of a watch that is gone is about is removed. *)
LEMMA EntryDropped ==
  ASSUME IInv, pc = "process", ev.mask \in GoneMasks,
         cache' = cache \ findWatch(ev.wd),
         UNCHANGED <<nextWd, watches, queue>>, buf' = Tail(buf)
  PROVE  QueueInv' /\ WatchInv' /\ GoneInv' /\ CacheMatchesWatches'
<1>1. /\ Tail(buf) \in Seq(Events) /\ queue' \in Seq(Events)
      /\ Pending = {ev} \cup Pending' /\ Watched' = Watched
  BY FirstEvent DEF IInv, TypeOK, Pending, Watched
<1>2. /\ \A c, e \in cache : c.wd = e.wd => c = e
      /\ Watched \subseteq {c.wd : c \in cache}
      /\ \A c \in cache : c.wd \in Watched \/ Told(c, Pending)
  BY CacheMatchesDef DEF IInv, TypeOK
<1>3. ev.wd \notin Watched /\ ev # Overflow
  BY <1>1, EventType DEF IInv, GoneInv, Pending, GoneMasks
<1>4. cache' = {c \in cache : c.wd # ev.wd}
  BY DEF findWatch
<1>5. ASSUME NEW c \in cache', Told(c, Pending) PROVE Told(c, Pending')
  BY <1>1, <1>3, <1>4, <1>5 DEF Told
<1>6. CacheMatchesWatches'
  <2>1. Watched' \subseteq {c.wd : c \in cache'}
    BY <1>1, <1>2, <1>3, <1>4
  <2> QED BY <1>1, <1>2, <1>4, <1>5, <2>1, CacheMatchesDefNext
<1>7. GoneInv' /\ QueueInv'
  BY <1>1 DEF IInv, GoneInv, QueueInv, Pending
<1>8. WatchInv'
  <2>1. IsFiniteSet(cache')
    BY <1>4, FS_Subset DEF IInv, WatchInv
  <2> QED BY <2>1 DEF IInv, WatchInv
<1> QED BY <1>6, <1>7, <1>8

(* IN_DELETE_SELF removes the entry. *)
LEMMA DeleteSelfStep ==
  ASSUME IInv, DeleteSelf
  PROVE  IInv'
<1> DEFINE p == PathOf(ev.wd)
<1>1. /\ pc = "process" /\ ev.mask = "IN_DELETE_SELF"
      /\ UNCHANGED <<fsVars, mutators, stop, raced>>
  BY DEF DeleteSelf, Found, Processing
<1>2. CASE isRootDirPath(p) /\ LastRoot(p)
  <2>1. Exit("exit") /\ UNCHANGED job /\ ops' \in 0..MaxOps /\ stop' \in BOOLEAN
    BY <1>1, <1>2 DEF DeleteSelf, mutators, IInv, TypeOK
  <2> QED BY <1>1, <2>1, Exited DEF Ended
<1>3. CASE ~(isRootDirPath(p) /\ LastRoot(p))
  <2>1. /\ rootDirPaths' \subseteq rootDirPaths
        /\ cache' = cache \ findWatch(ev.wd)
        /\ Advance(Tail(buf)) /\ buf' = Tail(buf)
        /\ UNCHANGED <<watches, nextWd, queue, ret, walk>>
    BY <1>3 DEF DeleteSelf, kernel, Advance
  <2>2. QueueInv' /\ WatchInv' /\ GoneInv' /\ CacheMatchesWatches'
    BY <1>1, <2>1, EntryDropped DEF GoneMasks
  <2>3. TypeOK' /\ JobInv'
    <3>1. Tail(buf) \in Seq(Events)
      BY <1>1, FirstEvent
    <3> QED BY <1>1, <2>1, <3>1, AdvanceType DEF IInv, TypeOK
  <2> QED BY <2>2, <2>3 DEF IInv
<1> QED BY <1>2, <1>3

(* IN_UNMOUNT removes the entry. *)
LEMMA UnmountedStep ==
  ASSUME IInv, Unmounted
  PROVE  IInv'
<1>1. /\ pc = "process" /\ ev.mask = "IN_UNMOUNT"
      /\ cache' = cache \ findWatch(ev.wd)
      /\ Advance(Tail(buf)) /\ buf' = Tail(buf)
      /\ UNCHANGED <<fsVars, mutators, watches, nextWd, queue, ret,
                     rootDirPaths, walk, stop, raced>>
  BY DEF Unmounted, Found, Processing, kernel, Advance
<1>2. QueueInv' /\ WatchInv' /\ GoneInv' /\ CacheMatchesWatches'
  BY <1>1, EntryDropped DEF GoneMasks
<1>3. TypeOK' /\ JobInv'
  <2>1. Tail(buf) \in Seq(Events)
    BY <1>1, FirstEvent
  <2> QED BY <1>1, <2>1, AdvanceType DEF IInv, TypeOK
<1> QED BY <1>2, <1>3 DEF IInv

(* Both events of a rename() rewrite pathnames. *)
LEMMA MovedWithinStep ==
  ASSUME IInv, MovedWithin
  PROVE  IInv'
<1> DEFINE from == Append(PathOf(ev.wd), ev.name)
           to == Append(PathOf(buf[2].wd), buf[2].name)
           rest == SubSeq(buf, 3, Len(buf))
           new(c) == IF IsPrefix(from, c.path)
                     THEN [c EXCEPT !.path = Move(@, from, to)] ELSE c
<1>1. /\ pc = "process" /\ ev.mask = "IN_MOVED_FROM" /\ findWatch(ev.wd) # {}
      /\ Len(buf) > 1 /\ buf[2].mask = "IN_MOVED_TO"
      /\ findWatch(buf[2].wd) # {}
      /\ cache' = {new(c) : c \in cache}
      /\ Advance(rest) /\ buf' = rest
      /\ UNCHANGED <<fsVars, mutators, watches, nextWd, queue, ret,
                     rootDirPaths, walk, stop, raced>>
  BY DEF MovedWithin, Found, Processing, Pair, rewriteCachedPaths, kernel, Advance
<1>2. /\ buf \in Seq(Events) /\ ev \in Events /\ ev = buf[1]
      /\ buf[2] \in Events /\ Len(buf) \in Nat
  <2>1. buf \in Seq(Events) /\ ev \in Events /\ buf # <<>>
    BY <1>1, FirstEvent
  <2> QED BY <1>1, <2>1 DEF ev
<1>3. from \in Paths /\ to \in Paths
  <2>1. PathOf(ev.wd) \in Paths /\ ev.name \in Names
    BY <1>1, <1>2, PathOfType, EventName DEF NamedMasks
  <2>2. PathOf(buf[2].wd) \in Paths /\ buf[2].name \in Names
    BY <1>1, <1>2, PathOfType, EventName DEF NamedMasks
  <2> QED BY <2>1, <2>2, AppendPath
<1>4. rest \in Seq(Events) /\ ToSet(buf) = {buf[1], buf[2]} \cup ToSet(rest)
  <2>1. 2 \in 0..Len(buf) /\ 2 + 1 = 3
    BY <1>1, <1>2
  <2>2. ToSet(buf) = ToSet(SubSeq(buf, 1, 2)) \cup ToSet(rest)
    BY <1>2, <2>1, ToSetCut
  <2>3. ToSet(SubSeq(buf, 1, 2)) = {buf[1], buf[2]}
    <3> DEFINE t == SubSeq(buf, 1, 2)
    <3>1. t \in Seq(Events) /\ Len(t) = 2 /\ t[1] = buf[1] /\ t[2] = buf[2]
      BY <1>1, <1>2
    <3> HIDE DEF t
    <3>2. ToSet(t) = {t[i] : i \in 1..Len(t)}
      BY <3>1, ToSetElements
    <3>3. ToSet(t) = {buf[1], buf[2]}
      BY <3>1, <3>2
    <3> QED BY <3>3 DEF t
  <2>4. rest \in Seq(Events)
    BY <1>1, <1>2, ToSetSubSeq
  <2> QED BY <2>2, <2>3, <2>4
<1> HIDE DEF from, to, rest
<1>5. ASSUME NEW c \in cache
      PROVE  new(c).wd = c.wd /\ new(c) \in [wd : 1..nextWd - 1, path : Paths]
  <2>1. c \in [wd : 1..nextWd - 1, path : Paths]
    BY DEF IInv, TypeOK
  <2>2. IsPrefix(from, c.path) => Move(c.path, from, to) \in Paths
    BY <1>3, <2>1, MovePath DEF IsPrefix
  <2> QED BY <2>1, <2>2
<1> HIDE DEF new
<1>6. cache' \subseteq [wd : 1..nextWd - 1, path : Paths]
  BY <1>1, <1>5
<1>7. TypeOK' /\ JobInv'
  BY <1>1, <1>4, <1>6, AdvanceType DEF IInv, TypeOK
<1>8. /\ Pending = {buf[1], buf[2]} \cup Pending' /\ Watched' = Watched
      /\ queue' \in Seq(Events)
  BY <1>1, <1>4 DEF IInv, TypeOK, Pending, Watched
<1>9. \A e \in Pending : e.mask \in GoneMasks \/ e = Overflow => e \in Pending'
  BY <1>1, <1>2, <1>8, EventType DEF GoneMasks
<1>10. CacheMatchesWatches'
  <2>1. /\ \A c, e \in cache : c.wd = e.wd => c = e
        /\ Watched \subseteq {c.wd : c \in cache}
        /\ \A c \in cache : c.wd \in Watched \/ Told(c, Pending)
    BY CacheMatchesDef DEF IInv, TypeOK
  <2>2. \A c, e \in cache' : c.wd = e.wd => c = e
    BY <1>1, <1>5, <2>1
  <2>3. {c.wd : c \in cache'} = {c.wd : c \in cache}
    BY <1>1, <1>5
  <2>4. ASSUME NEW c \in cache', c.wd \notin Watched PROVE Told(c, Pending')
    <3>1. PICK b \in cache : c = new(b)
      BY <1>1
    <3>2. b.wd = c.wd /\ Told(b, Pending)
      BY <1>5, <2>1, <2>4, <3>1
    <3> QED BY <1>9, <3>2 DEF Told
  <2> QED BY <1>1, <1>4, <1>8, <2>1, <2>2, <2>3, <2>4, CacheMatchesDefNext
<1>11. WatchInv'
  <2> DEFINE f == [c \in cache |-> new(c)]
  <2>1. f \in Surjection(cache, cache')
    BY <1>1 DEF Surjection
  <2>2. IsFiniteSet(cache)
    BY DEF IInv, WatchInv
  <2> HIDE DEF f
  <2>3. IsFiniteSet(cache')
    BY <2>1, <2>2, FS_Surjection
  <2> QED BY <1>1, <2>3 DEF IInv, WatchInv
<1>12. GoneInv' /\ QueueInv'
  BY <1>1, <1>8 DEF IInv, GoneInv, QueueInv, Pending
<1> QED BY <1>7, <1>10, <1>11, <1>12 DEF IInv

(* What inotify_rm_watch() queues for entries of the cache. *)
LEMMA RemovedEvents ==
  ASSUME NEW entries, IsFiniteSet(entries), \A c \in entries : c.wd \in Nat
  PROVE  LET events == SetToSeq({Event(c.wd, "IN_IGNORED", "", 0) :
                                 c \in entries})
         IN  events \in Seq(Events)
             /\ \A e \in ToSet(events) : e.mask = "IN_IGNORED"
<1> DEFINE E == {Event(c.wd, "IN_IGNORED", "", 0) : c \in entries}
           f == [c \in entries |-> Event(c.wd, "IN_IGNORED", "", 0)]
<1>1. f \in Surjection(entries, E)
  BY DEF Surjection
<1>2. E \subseteq Events
  BY EventType DEF OtherMasks
<1>3. \A e \in E : e.mask = "IN_IGNORED"
  <2>1. \A c \in entries : Event(c.wd, "IN_IGNORED", "", 0).mask = "IN_IGNORED"
    BY DEF Event
  <2> QED BY <2>1
<1> HIDE DEF f, E
<1>4. IsFiniteSet(E)
  BY <1>1, FS_Surjection
<1>5. SetToSeq(E) \in Seq(E) /\ ToSet(SetToSeq(E)) = E
  BY <1>4, SetToSeqElements
<1>6. SetToSeq(E) \in Seq(Events)
  BY <1>2, <1>5, SeqMonotonic
<1> QED BY <1>3, <1>5, <1>6 DEF E

(* Entries of the cache are removed together with their watches. *)
LEMMA Zap ==
  ASSUME IInv, NEW entries \in SUBSET cache, \A c \in entries : c.wd \in Watched,
         ZapEntries(entries), buf' \in Seq(Events),
         ToSet(buf') \subseteq ToSet(buf),
         \A e \in ToSet(buf) : e.mask \in GoneMasks \/ e = Overflow
                               => e \in ToSet(buf')
  PROVE  /\ queue' \in Seq(Events) /\ Len(queue') <= MaxQueue + 1
         /\ watches' \subseteq watches /\ cache' \subseteq cache
         /\ nextWd' = nextWd
         /\ QueueInv' /\ WatchInv' /\ GoneInv' /\ CacheMatchesWatches'
<1> DEFINE events == SetToSeq({Event(c.wd, "IN_IGNORED", "", 0) : c \in entries})
<1>1. /\ cache' = cache \ entries
      /\ watches' = {w \in watches : w.wd \notin {c.wd : c \in entries}}
      /\ queue' = Notify(queue, events)
      /\ nextWd' = nextWd
  BY DEF ZapEntries
<1>2. events \in Seq(Events) /\ \A e \in ToSet(events) : e.mask = "IN_IGNORED"
  <2>1. IsFiniteSet(entries) /\ \A c \in entries : c.wd \in Nat
    BY FS_Subset DEF IInv, WatchInv, TypeOK
  <2> QED BY <2>1, RemovedEvents
<1> HIDE DEF events
<1>3. /\ queue' \in Seq(Events) /\ Len(queue') <= MaxQueue + 1 /\ QueueInv'
      /\ ToSet(queue) \subseteq ToSet(queue')
      /\ ToSet(queue') \subseteq ToSet(queue) \cup ToSet(events) \cup {Overflow}
  BY <1>1, <1>2, QueueType
<1>4. \A e \in Pending : e.mask \in GoneMasks \/ e = Overflow => e \in Pending'
  BY <1>3 DEF Pending
<1>5. \A e \in Pending' : e.mask \in GoneMasks => e \in Pending
  BY <1>2, <1>3, EventType DEF Pending, GoneMasks
<1>6. WatchInv'
  <2>1. watches' \in SUBSET watches /\ cache' \in SUBSET cache
        /\ IsFiniteSet(watches) /\ IsFiniteSet(cache)
    BY <1>1 DEF IInv, WatchInv
  <2>2. IsFiniteSet(watches') /\ IsFiniteSet(cache')
    BY <2>1, FS_Subset
  <2> QED BY <2>1, <2>2 DEF IInv, WatchInv
<1>7. Watched' \subseteq Watched
  BY <1>1 DEF Watched
<1>8. GoneInv'
  <2> SUFFICES ASSUME NEW e \in Pending', e.mask \in GoneMasks
               PROVE  e.wd \in 1..nextWd' - 1 /\ e.wd \notin Watched'
    BY DEF GoneInv, Pending
  <2>1. e \in Pending
    BY <1>5
  <2> QED BY <1>1, <1>7, <2>1 DEF IInv, GoneInv, Pending
<1>9. CacheMatchesWatches'
  <2>1. /\ \A c, e \in cache : c.wd = e.wd => c = e
        /\ Watched \subseteq {c.wd : c \in cache}
        /\ \A c \in cache : c.wd \in Watched \/ Told(c, Pending)
    BY CacheMatchesDef DEF IInv, TypeOK
  <2>2. Watched' \subseteq {c.wd : c \in cache'}
    <3> SUFFICES ASSUME NEW w \in watches' PROVE \E c \in cache' : c.wd = w.wd
      BY DEF Watched
    <3>1. w \in watches /\ \A c \in entries : c.wd # w.wd
      BY <1>1
    <3>2. PICK c \in cache : c.wd = w.wd
      BY <2>1, <3>1 DEF Watched
    <3> QED BY <1>1, <3>1, <3>2
  <2>3. ASSUME NEW c \in cache', c.wd \in Watched PROVE c.wd \in Watched'
    <3>1. PICK w \in watches : w.wd = c.wd
      BY <2>3 DEF Watched
    <3>2. \A e \in entries : e.wd # c.wd
      BY <1>1, <2>1
    <3> QED BY <1>1, <3>1, <3>2 DEF Watched
  <2>4. ASSUME NEW c \in cache', Told(c, Pending) PROVE Told(c, Pending')
    BY <1>4, <2>4 DEF Told
  <2>5. cache' \subseteq cache
    BY <1>1
  <2> QED BY <1>3, <2>1, <2>2, <2>3, <2>4, <2>5, CacheMatchesDefNext
<1> QED BY <1>1, <1>3, <1>6, <1>8, <1>9

(* zapSubtree for the first event of the read buffer. *)
LEMMA ZapSubtreeStep ==
  ASSUME IInv, pc = "process", ev.mask \notin GoneMasks, ev # Overflow,
         NEW p, NEW roots \in SUBSET rootDirPaths, zapSubtree(p, roots, Tail(buf)),
         rootDirPaths' = roots, UNCHANGED <<fsVars, mutators, stop>>
  PROVE  IInv'
<1>1. CASE CanZap(p)
  <2>1. /\ ZapEntries(CachedUnder(p)) /\ Advance(Tail(buf)) /\ buf' = Tail(buf)
        /\ UNCHANGED <<ret, walk, raced>>
    BY <1>1 DEF zapSubtree, Advance
  <2>2. CachedUnder(p) \in SUBSET cache /\ \A c \in CachedUnder(p) : c.wd \in Watched
    BY <1>1 DEF CachedUnder, CanZap
  <2>3. Tail(buf) \in Seq(Events) /\ ToSet(buf) = {ev} \cup ToSet(Tail(buf))
    BY FirstEvent
  <2>4. /\ queue' \in Seq(Events) /\ Len(queue') <= MaxQueue + 1
        /\ watches' \subseteq watches /\ cache' \subseteq cache
        /\ nextWd' = nextWd
        /\ QueueInv' /\ WatchInv' /\ GoneInv' /\ CacheMatchesWatches'
    BY <2>1, <2>2, <2>3, Zap
  <2>5. cache' \subseteq [wd : 1..nextWd - 1, path : Paths]
    BY <2>4 DEF IInv, TypeOK
  <2>6. TypeOK' /\ JobInv'
    BY <2>1, <2>3, <2>4, <2>5, AdvanceType
  <2> QED BY <2>4, <2>6 DEF IInv
<1>2. CASE ~CanZap(p)
  <2>1. reinitialize(roots, "select")
    BY <1>2 DEF zapSubtree
  <2>2. /\ roots \in SUBSET RootDirs /\ rootDirPaths' \subseteq RootDirs
        /\ UNCHANGED <<fsVars, job>> /\ ops' \in 0..MaxOps /\ stop' \in BOOLEAN
    BY DEF IInv, TypeOK, mutators
  <2> QED BY <2>1, <2>2, Reinitialized
<1> QED BY <1>1, <1>2

(* IN_MOVED_FROM alone removes a subtree. *)
LEMMA MovedOutStep ==
  ASSUME IInv, MovedOut
  PROVE  IInv'
<1>1. /\ pc = "process" /\ ev.mask = "IN_MOVED_FROM"
      /\ zapSubtree(Append(PathOf(ev.wd), ev.name), rootDirPaths, Tail(buf))
      /\ UNCHANGED <<fsVars, mutators, rootDirPaths, stop>>
  BY DEF MovedOut, Found, Processing
<1>2. ev # Overflow /\ ev.mask \notin GoneMasks
  BY <1>1, EventType DEF GoneMasks
<1> QED BY <1>1, <1>2, ZapSubtreeStep

(* IN_MOVE_SELF of a root directory removes it. *)
LEMMA MoveSelfStep ==
  ASSUME IInv, MoveSelf
  PROVE  IInv'
<1> DEFINE p == PathOf(ev.wd)
<1>1. /\ pc = "process" /\ ev.mask = "IN_MOVE_SELF"
      /\ UNCHANGED <<fsVars, mutators, stop>>
  BY DEF MoveSelf, Found, Processing
<1>2. ev # Overflow /\ ev.mask \notin GoneMasks
  BY <1>1, EventType DEF GoneMasks
<1>3. CASE ~isRootDirPath(p)
  <2>1. /\ Advance(Tail(buf)) /\ buf' = Tail(buf)
        /\ UNCHANGED <<watches, nextWd, queue, ret, cache, rootDirPaths, walk,
                       raced>>
    BY <1>3 DEF MoveSelf, kernel, Advance
  <2>2. QueueInv' /\ WatchInv' /\ GoneInv' /\ CacheMatchesWatches'
    BY <1>1, <1>2, <2>1, Dropped
  <2>3. TypeOK' /\ JobInv'
    <3>1. Tail(buf) \in Seq(Events)
      BY <1>1, FirstEvent
    <3> QED BY <1>1, <2>1, <3>1, AdvanceType DEF IInv, TypeOK
  <2> QED BY <2>2, <2>3 DEF IInv
<1>4. CASE isRootDirPath(p) /\ LastRoot(p)
  <2>1. /\ Exit("exit") /\ UNCHANGED <<fsVars, job, raced>>
        /\ ops' \in 0..MaxOps /\ stop' \in BOOLEAN
    BY <1>1, <1>4 DEF MoveSelf, mutators, IInv, TypeOK
  <2> QED BY <2>1, Exited DEF Ended
<1>5. CASE isRootDirPath(p) /\ ~LastRoot(p)
  <2>1. /\ rootDirPaths' = rootDirPaths \ {p[1]}
        /\ zapSubtree(p, rootDirPaths', Tail(buf))
    BY <1>5 DEF MoveSelf
  <2> QED BY <1>1, <1>2, <2>1, ZapSubtreeStep
<1> QED BY <1>3, <1>4, <1>5

(* The wait for the second event of a rename(), and its alarm. *)
LEMMA HangingStep ==
  ASSUME IInv, Hanging \/ Alarm
  PROVE  IInv'
<1>1. /\ UNCHANGED <<tree, nextIno, mounted, job, ops, watches, nextWd, queue, ret,
                     buf, cache, rootDirPaths, walk, stop, raced>>
      /\ pc \in {"process", "hang"} /\ pc' \in {"process", "hang", "blocked"}
      /\ firstTry' \in BOOLEAN
  BY DEF Hanging, Found, Processing, Alarm, fsVars, kernel, mutators, IInv, TypeOK
<1>2. TypeOK'
  BY <1>1 DEF IInv, TypeOK
<1>3. QueueInv' /\ WatchInv' /\ GoneInv' /\ JobInv' /\ CacheMatchesWatches'
  BY <1>1 DEF IInv, QueueInv, WatchInv, GoneInv, JobInv, CacheMatchesWatches,
              Watched
<1> QED BY <1>2, <1>3 DEF IInv

(* The read() of the second event of a rename(). *)
LEMMA SecondReadStep ==
  ASSUME IInv, SecondRead
  PROVE  IInv'
<1>1. /\ buf \in Seq(Events) /\ queue \in Seq(Events) /\ buf # <<>>
      /\ Len(queue) \in Nat /\ Len(queue) <= MaxQueue + 1 /\ walk = <<>>
  BY DEF SecondRead, IInv, TypeOK
<1>2. PICK k \in 1..Len(queue) :
         /\ buf' = buf \o SubSeq(queue, 1, k)
         /\ queue' = SubSeq(queue, k + 1, Len(queue))
  BY DEF SecondRead
<1>3. /\ pc' = "process"
      /\ UNCHANGED <<tree, nextIno, mounted, watches, nextWd, ret, firstTry, cache,
                     rootDirPaths, walk, job, ops, stop, raced>>
  BY DEF SecondRead, fsVars, mutators
<1> DEFINE s == SubSeq(queue, 1, k)
<1>4. /\ s \in Seq(Events) /\ queue' \in Seq(Events)
      /\ Len(queue') = IF k + 1 <= Len(queue) THEN Len(queue) - (k + 1) + 1 ELSE 0
  BY <1>1, <1>2, SubSeqProperties
<1>5. Len(queue') <= MaxQueue
  BY <1>1, <1>4, DtreeAssumption
<1>6. ToSet(queue) = ToSet(s) \cup ToSet(queue')
  BY <1>1, <1>2, ToSetCut
<1> HIDE DEF s
<1>7. /\ buf' \in Seq(Events) /\ buf' # <<>>
      /\ ToSet(buf') = ToSet(buf) \cup ToSet(s)
  <2>1. buf' = buf \o s
    BY <1>2 DEF s
  <2>2. ToSet(buf \o s) = ToSet(buf) \cup ToSet(s)
    BY <1>1, <1>4, ToSetConcat
  <2>3. buf \o s \in Seq(Events) /\ buf \o s # <<>>
    BY <1>1, <1>4, ConcatEqualIffEmpty
  <2> QED BY <2>1, <2>2, <2>3
<1>8. Pending' = Pending
  BY <1>6, <1>7 DEF Pending
<1>9. WatchInv' /\ GoneInv' /\ CacheMatchesWatches'
  BY <1>3, <1>4, <1>7, <1>8, EventsChange
<1>10. QueueInv' /\ JobInv'
  BY <1>3, <1>4, <1>5, DtreeAssumption DEF IInv, QueueInv, JobInv
<1>11. TypeOK'
  <2>1. Len(queue') <= MaxQueue + 1
    BY <1>4, <1>5, DtreeAssumption
  <2> QED BY <1>1, <1>3, <1>4, <1>7, <2>1 DEF IInv, TypeOK
<1> QED BY <1>9, <1>10, <1>11 DEF IInv

(* Commands are typed with pathnames. *)
LEMMA ArgumentType ==
  ASSUME IInv, NEW p \in Arguments
  PROVE  p \in Paths
  BY DEF Arguments, IInv, TypeOK

(* zapSubtree of a command, even if it stops half way. *)
LEMMA CommandZap ==
  ASSUME IInv, NEW p, NEW entries \in Zapped(p), ZapEntries(entries),
         UNCHANGED buf
  PROVE  /\ queue' \in Seq(Events) /\ Len(queue') <= MaxQueue + 1
         /\ watches' \subseteq watches /\ cache' \subseteq cache
         /\ nextWd' = nextWd
         /\ QueueInv' /\ WatchInv' /\ GoneInv' /\ CacheMatchesWatches'
<1>1. entries \in SUBSET cache /\ \A c \in entries : c.wd \in Watched
  <2>1. CASE CanZap(p)
    BY <2>1 DEF Zapped, CanZap, CachedUnder
  <2>2. CASE ~CanZap(p)
    BY <2>2 DEF Zapped, CachedUnder
  <2> QED BY <2>1, <2>2
<1>2. buf' \in Seq(Events) /\ buf' = buf
  BY DEF IInv, TypeOK
<1> QED BY <1>1, <1>2, Zap

(* The command a: zapSubtree, then the traversal from p. *)
LEMMA AddSubtreeStep ==
  ASSUME IInv, NEW p \in Arguments, AddSubtree(p)
  PROVE  IInv'
<1>1. p \in Paths
  BY ArgumentType
<1>2. PICK entries \in Zapped(p) : ZapEntries(entries)
  BY DEF AddSubtree
<1>3. /\ pc = "select" /\ ops < MaxOps /\ ops' = ops + 1
      /\ UNCHANGED <<tree, nextIno, mounted, job, firstTry, stop, buf,
                     rootDirPaths>>
      /\ ret' \in {"select", "read"} /\ pc' = "walk"
      /\ walk' = <<Frame(Front(p), {Last(p)})>>
  BY DEF AddSubtree, Command, watchSubtree, AfterCommand, fsVars
<1>4. raced' \in BOOLEAN
  <2>1. raced' = (raced \/ ~Settled \/ p[1] \notin rootDirPaths)
    BY DEF AddSubtree
  <2> QED BY <2>1
<1>5. /\ queue' \in Seq(Events) /\ Len(queue') <= MaxQueue + 1
      /\ watches' \subseteq watches /\ cache' \subseteq cache
      /\ nextWd' = nextWd
      /\ QueueInv' /\ WatchInv' /\ GoneInv' /\ CacheMatchesWatches'
  BY <1>2, <1>3, CommandZap
<1>6. walk' \in Seq(Frames) /\ walk' # <<>>
  <2>1. Frame(Front(p), {Last(p)}) \in Frames
    BY <1>1, FrontLastPath DEF Frame, Frames
  <2> QED BY <1>3, <2>1
<1>7. JobInv'
  BY <1>3 DEF IInv, JobInv
<1>8. TypeOK'
  <2>1. ops' \in 0..MaxOps
    BY <1>3, DtreeAssumption DEF IInv, TypeOK
  <2>2. buf = <<>>
    BY <1>3 DEF IInv, TypeOK
  <2> QED BY <1>3, <1>4, <1>5, <1>6, <2>1, <2>2 DEF IInv, TypeOK, Frames
<1> QED BY <1>5, <1>7, <1>8 DEF IInv

(* The command z: zapSubtree. *)
LEMMA ZapCommandStep ==
  ASSUME IInv, NEW p \in Arguments, ZapSubtree(p)
  PROVE  IInv'
<1>1. PICK entries \in Zapped(p) : ZapEntries(entries)
  BY DEF ZapSubtree
<1>2. /\ pc = "select" /\ ops < MaxOps /\ ops' = ops + 1
      /\ UNCHANGED <<tree, nextIno, mounted, job, firstTry, stop, buf,
                     rootDirPaths, ret, walk>>
      /\ pc' \in {"select", "read"} /\ raced' = TRUE
  BY DEF ZapSubtree, Command, AfterCommand, fsVars
<1>3. /\ queue' \in Seq(Events) /\ Len(queue') <= MaxQueue + 1
      /\ watches' \subseteq watches /\ cache' \subseteq cache
      /\ nextWd' = nextWd
      /\ QueueInv' /\ WatchInv' /\ GoneInv' /\ CacheMatchesWatches'
  BY <1>1, <1>2, CommandZap
<1>4. JobInv'
  BY <1>2 DEF IInv, JobInv
<1>5. TypeOK'
  <2>1. ops' \in 0..MaxOps
    BY <1>2, DtreeAssumption DEF IInv, TypeOK
  <2> QED BY <1>2, <1>3, <2>1 DEF IInv, TypeOK
<1> QED BY <1>3, <1>4, <1>5 DEF IInv

(* The command q, and the exit when a watch cannot be added. *)
LEMMA QuitStep ==
  ASSUME IInv, Quit \/ WatchFails
  PROVE  IInv'
<1>1. /\ Exit("exit") /\ UNCHANGED <<fsVars, job, raced>>
      /\ stop' \in BOOLEAN /\ ops < MaxOps /\ ops' = ops + 1
  BY DEF Quit, WatchFails, IInv, TypeOK
<1>2. ops' \in 0..MaxOps
  BY <1>1, DtreeAssumption DEF IInv, TypeOK
<1> QED BY <1>1, <1>2, Exited DEF Ended

(* All commands that change the cache. *)
LEMMA CommandStep ==
  ASSUME IInv, executeCommand
  PROVE  IInv'
<1>1. ASSUME NEW p \in Arguments, AddSubtree(p) \/ ZapSubtree(p) PROVE IInv'
  BY <1>1, AddSubtreeStep, ZapCommandStep
<1>2. CASE RebuildCache
  <2>1. /\ reinitialize(rootDirPaths, AfterCommand) /\ UNCHANGED <<fsVars, job>>
        /\ rootDirPaths' \subseteq RootDirs /\ rootDirPaths \in SUBSET RootDirs
        /\ stop' \in BOOLEAN /\ ops < MaxOps /\ ops' = ops + 1
        /\ AfterCommand \in {"select", "read"}
    BY <1>2 DEF RebuildCache, AfterCommand, IInv, TypeOK
  <2>2. ops' \in 0..MaxOps
    BY <2>1, DtreeAssumption DEF IInv, TypeOK
  <2> QED BY <2>1, <2>2, Reinitialized
<1> QED BY <1>1, <1>2, QuitStep DEF executeCommand

-----------------------------------------------------------------------------
(* The initial state satisfies the inductive invariant. *)
LEMMA InitIInv == Init => IInv
<1> SUFFICES ASSUME Init PROVE IInv
  OBVIOUS
<1>1. FirstTree \subseteq [ino : 1..Cardinality(FirstDirs), path : Paths]
      /\ Cardinality(FirstDirs) \in Nat
  <2> DEFINE dirs == SetToSeq(FirstDirs)
             n == Cardinality(FirstDirs)
  <2>1. n \in Nat /\ ExistsBijection(1..n, FirstDirs)
    BY DtreeAssumption, FS_CardinalityType
  <2>2. \E g \in [1..n -> FirstDirs] : IsInjective(g)
    BY <2>1 DEF ExistsBijection, Bijection, Injection, IsInjective
  <2>3. dirs \in [1..n -> FirstDirs]
    BY <2>2 DEF SetToSeq
  <2>4. FirstDirs \subseteq Paths
    BY DtreeAssumption
  <2>5. \A k \in DOMAIN dirs : k \in 1..n /\ dirs[k] \in Paths
    BY <2>3, <2>4
  <2>6. FirstTree = {[ino |-> k, path |-> dirs[k]] : k \in DOMAIN dirs}
    BY DEF FirstTree
  <2> HIDE DEF dirs, n
  <2>7. FirstTree \subseteq [ino : 1..n, path : Paths]
    BY <2>5, <2>6
  <2> QED BY <2>1, <2>7 DEF n
<1>2. walk \in Seq(Frames) /\ walk # <<>>
  <2>1. Frame(<<>>, RootDirs) \in Frames
    BY DEF Frame, Frames, AllNames
  <2> QED BY <2>1 DEF Init
<1>3. \A m \in Mutators : job[m] = Idle
  BY DEF Init
<1>4. JobInv
  BY <1>3, IdleJob DEF JobInv
<1>5. queue \in Seq(Events) /\ buf \in Seq(Events) /\ Len(queue) = 0
      /\ ToSet(queue) = {} /\ ToSet(buf) = {}
  BY DEF Init, ToSet
<1>6. TypeOK
  <2>1. nextIno - 1 = Cardinality(FirstDirs) /\ nextIno \in Nat \ {0}
    BY <1>1 DEF Init
  <2>2. job \in [Mutators -> Jobs]
    BY IdleJob DEF Init
  <2>3. /\ tree \subseteq [ino : 1..nextIno - 1, path : Paths]
        /\ nextWd = 1 /\ watches = {} /\ cache = {} /\ buf = <<>> /\ ops = 0
        /\ rootDirPaths \subseteq RootDirs /\ mounted \subseteq RootDirs
        /\ pc = "walk" /\ ret = "select"
        /\ {firstTry, raced, stop} \subseteq BOOLEAN
    BY <1>1, <2>1, DtreeAssumption DEF Init
  <2>4. 0 \in 0..MaxOps
    BY DtreeAssumption
  <2> QED BY <1>2, <1>5, <2>1, <2>2, <2>3, <2>4, DtreeAssumption
          DEF TypeOK, Frames
<1>7. QueueInv /\ GoneInv
  BY <1>5, DtreeAssumption DEF QueueInv, GoneInv
<1>8. WatchInv
  BY FS_EmptySet DEF Init, WatchInv
<1>9. CacheMatchesWatches
  BY DEF Init, CacheMatchesWatches, Watched
<1> QED BY <1>4, <1>6, <1>7, <1>8, <1>9 DEF IInv

(* Every step of the monitor, the mutators, the kernel and the user        *)
(* preserves it.                                                           *)
LEMMA NextIInv == IInv /\ [Next]_vars => IInv'
<1> SUFFICES ASSUME IInv, [Next]_vars PROVE IInv'
  OBVIOUS
<1>1. CASE MonitorStep
  BY <1>1, VisitStep, ReadDirStep, ReadEventsStep, CacheProblemStep, IgnoredStep,
     QueueOverflowStep, CreatedStep, DeleteSelfStep, UnmountedStep,
     MovedWithinStep, MovedOutStep, MoveSelfStep, HangingStep, SecondReadStep
     DEF MonitorStep
<1>2. ASSUME NEW m \in Mutators, MutatorStep(m) PROVE IInv'
  BY <1>2, ChooseActions, MkdirStep, RmdirStep, RenameStep, RenameToStep
     DEF MutatorStep
<1>3. ASSUME NEW r \in RootDirs, Unmount(r) PROVE IInv'
  BY <1>3, UnmountStep
<1>4. CASE executeCommand
  BY <1>4, CommandStep
<1>5. CASE UNCHANGED vars
  <2>1. UNCHANGED <<tree, nextIno, mounted, watches, nextWd, queue, pc, ret, buf,
                    firstTry, cache, rootDirPaths, walk, job, ops, stop, raced>>
    BY <1>5 DEF vars, fsVars, kernel, monitor, mutators
  <2>2. TypeOK'
    BY <2>1 DEF IInv, TypeOK
  <2> QED BY <2>1, <2>2 DEF IInv, QueueInv, WatchInv, GoneInv, JobInv,
                            CacheMatchesWatches, Watched
<1> QED BY <1>1, <1>2, <1>3, <1>4, <1>5, QuitStep DEF Next

(* The inductive invariant holds of every reachable state. *)
THEOREM Invariance == Spec => []IInv
  BY InitIInv, NextIInv, PTL DEF Spec

(* Type correctness, for every tree, every number of mutators and every    *)
(* limit: the kernel's queue never has more than the overflow event above  *)
(* its limit, and the monitor takes a directory or an event only when it   *)
(* has one (processInotifyEvents, traverseTree).                           *)
THEOREM TypeCorrect == Spec => []TypeOK
<1>1. IInv => TypeOK
  BY DEF IInv
<1> QED BY <1>1, Invariance, PTL

(* The cache of inotify_dtree has exactly one entry for each watch, and an *)
(* entry without a watch only while an event that tells of it, or of lost  *)
(* events, is to be processed: through every interleaving of the monitor   *)
(* with changes of the tree, unmounts, overflows and commands.             *)
THEOREM CacheIsConsistent == Spec => []CacheMatchesWatches
<1>1. IInv => CacheMatchesWatches
  BY DEF IInv
<1> QED BY <1>1, Invariance, PTL

-----------------------------------------------------------------------------
(* The invariant behind TracksChanges.                                     *)
(*                                                                         *)
(* TracksChanges speaks of the states where everything is processed; the   *)
(* steps between two such states are what makes it true.  In between the   *)
(* cache may be wrong in four ways only, and the invariant says which: a   *)
(* removed directory has an entry until IN_DELETE_SELF is processed        *)
(* (Deleting), the entries of a renamed subtree have the old pathnames     *)
(* until IN_MOVED_FROM is (Renaming), a root directory that was moved away *)
(* has its entries until IN_MOVE_SELF is (RootMoving), and a directory     *)
(* without a watch is one the traversal will still come to, one that an    *)
(* event announces, or one below such a directory (Covered).               *)

(* The first pending event and the ones after it. *)
First == IF buf # <<>> THEN Head(buf) ELSE Head(queue)
Rest == IF buf # <<>> THEN ToSet(Tail(buf)) \cup ToSet(queue)
        ELSE ToSet(Tail(queue))

(* The rename() calls between their two halves. *)
Underway == {job[m] : m \in {x \in Mutators : job[x].pc = "moved"}}

(* The directories are a tree, and a directory that is being renamed gets  *)
(* a parent.                                                               *)
TreeInv ==
    /\ \A d, e \in tree : d.ino = e.ino \/ d.path = e.path => d = e
    /\ \A d \in tree : Len(d.path) > 1 => \E e \in tree : e.path = Front(d.path)
    /\ \A j \in Underway :
         j.ino < nextIno /\ \A d \in tree : d.ino = j.ino => Len(d.path) > 1

(* No event was lost and none came too late to be understood. *)
Sure == ~raced /\ Overflow \notin Pending /\ pc \notin Ended

(* The i-node i has one of the watches W; the watch wd is of the directory *)
(* at p in the tree T.                                                     *)
Seen(W, i) == \E w \in W : w.ino = i
At(W, T, wd, p) == \E w \in W, d \in T : w.wd = wd /\ d.ino = w.ino /\ d.path = p

(* The entries are below root directories, and exactly the watches of the  *)
(* root directories ask for IN_MOVE_SELF.                                  *)
Rooted ==
    \A c \in cache :
        /\ c.path[1] \in rootDirPaths
        /\ \A w \in watches : w.wd = c.wd => (w.self <=> Len(c.path) = 1)

(* nftw() traverses monitored directories, under the pathnames they have.  *)
WalkInv ==
    \A f \in ToSet(walk) :
        /\ f.path = <<>> => f.ino = 0 /\ f.names \subseteq rootDirPaths
        /\ f.path # <<>> => f.path[1] \in rootDirPaths
        /\ f.ino # 0 => \E d \in tree : d.ino = f.ino /\ d.path = f.path

(* The name n in the directory i is told of by a pending event, or will be *)
(* by the second half of a rename().                                       *)
Announced(P, W, U, i, n) ==
    \/ \E e \in P, w \in W : /\ e.mask \in {"IN_CREATE", "IN_MOVED_TO"}
                             /\ e.name = n /\ w.wd = e.wd /\ w.ino = i
    \/ \E j \in U : j.dir = i /\ Last(j.to) = n

(* nftw() is still to read the directory e, or to visit its entry n; it is *)
(* still to visit the root directory r.                                    *)
Visited(F, e, n) ==
    \E f \in F : \/ f.ino = e.ino
                 \/ f.ino = 0 /\ f.path = e.path /\ n \in f.names
VisitedRoot(F, r) == \E f \in F : f.path = <<>> /\ r \in f.names

(* A directory without a watch will be found: its parent has none either,  *)
(* or it is to be visited, or it is announced.                             *)
CoveredDir(d) ==
    /\ Len(d.path) = 1 => VisitedRoot(ToSet(walk), d.path[1])
    /\ \A e \in tree :
         Len(d.path) > 1 /\ e.path = Front(d.path) /\ Seen(watches, e.ino) =>
            \/ Visited(ToSet(walk), e, Last(d.path))
            \/ Announced(Pending, watches, Underway, e.ino, Last(d.path))
Covered ==
    \A d \in tree :
        d.path[1] \in rootDirPaths /\ ~Seen(watches, d.ino) => CoveredDir(d)

(* The events that make inotify_dtree drop or rename entries, those that   *)
(* find no entry any more, and the events that change nothing.             *)
Structural == {"IN_DELETE_SELF", "IN_UNMOUNT", "IN_MOVED_FROM", "IN_MOVE_SELF"}
Stale(e) == e.wd < nextWd /\ \A c \in cache : c.wd # e.wd
Calm(S) == \A e \in S : e.mask \in Structural => Stale(e)

(* Every entry has the pathname of the directory that its watch is of. *)
Steady == Calm(Pending) /\ \A c \in cache : At(watches, tree, c.wd, c.path)

(* The directory of the entry x was removed, which the next event tells. *)
Deleting(x) ==
    /\ Pending # {} /\ walk = <<>> /\ Underway = {} /\ Calm(Rest)
    /\ First.mask = "IN_DELETE_SELF" /\ First.wd = x.wd
    /\ \A c \in cache \ {x} : At(watches, tree, c.wd, c.path)
    /\ Len(x.path) = 1 => \A d \in tree : d.path[1] # x.path[1]

(* Where a directory is after a rename(), and the cache as it was before. *)
Now(p, from, to) == IF IsPrefix(from, p) THEN Move(p, from, to) ELSE p
Moved(from, to) ==
    \A c \in cache : At(watches, tree, c.wd, Now(c.path, from, to))

(* The directory of the entry x, which is no root directory, is now at t:  *)
(* the next event is its IN_MOVED_FROM, and if the place is monitored, its *)
(* IN_MOVED_TO is pending or still to come.                                *)
Renaming(x, t) ==
    LET from == x.path
        to == t.path
    IN
    /\ Pending # {} /\ walk = <<>> /\ Calm(Rest)
    /\ First.mask = "IN_MOVED_FROM"
    /\ Len(from) > 1 /\ Len(to) > 1 /\ ~IsPrefix(from, to)
    /\ Moved(from, to)
    /\ \E c \in cache : c.wd = First.wd /\ Append(c.path, First.name) = from
    /\ \A c \in cache : ~IsPrefix(to, c.path)
    /\ \A e \in Rest : e.mask = "IN_MOVED_TO" =>
          \E c \in cache : c.wd = e.wd /\ Append(c.path, e.name) = to
    /\ \A j \in Underway :
          j.to = to /\ \E d \in tree : d.ino = j.dir /\ d.path = Front(to)
    /\ \A e \in tree : e.path = Front(to) /\ Seen(watches, e.ino) =>
          Announced(Pending, watches, Underway, e.ino, Last(to))

(* The root directory of the entry x is now at t, outside of the monitored *)
(* directories: IN_MOVE_SELF is pending or still to come.                  *)
RootMoving(x, t) ==
    LET to == t.path IN
    /\ Len(x.path) = 1 /\ Len(to) > 1 /\ to[1] \notin rootDirPaths
    /\ \A d \in tree : d.path[1] # x.path[1]
    /\ Moved(x.path, to)
    /\ \A e \in Pending : e.mask \in Structural =>
          Stale(e) \/ (e.mask = "IN_MOVE_SELF" /\ e.wd = x.wd)
    /\ \/ \E e \in Pending : e.mask = "IN_MOVE_SELF" /\ e.wd = x.wd
       \/ \E j \in Underway, w \in watches : w.wd = x.wd /\ w.ino = j.ino

(* At most one removal or rename is not processed yet. *)
Phase ==
    \/ Steady
    \/ \E x \in cache : Deleting(x)
    \/ \E x \in cache, t \in tree : Renaming(x, t) \/ RootMoving(x, t)

(* The invariant, which is inductive together with IInv. *)
TrackInv ==
    /\ TreeInv
    /\ Sure => Rooted /\ WalkInv /\ Covered /\ Phase

-----------------------------------------------------------------------------
(* Pathnames, their parents and what rename() makes of them. *)

(* A pathname by its names. *)
LEMMA PathParts ==
  ASSUME NEW p \in Paths
  PROVE  /\ p \in Seq(AllNames) /\ Len(p) \in Nat /\ Len(p) >= 1
         /\ p[1] \in AllNames
         /\ p = [k \in 1..Len(p) |-> p[k]]
         /\ \A k \in 1..Len(p) : p[k] \in AllNames
<1>1. p \in Seq(AllNames) /\ Len(p) \in Nat /\ Len(p) >= 1
  BY PathType
<1> QED BY <1>1

(* Pathnames with the same names are the same. *)
LEMMA PathEqual ==
  ASSUME NEW p \in Paths, NEW q \in Paths, Len(p) = Len(q),
         \A k \in 1..Len(p) : p[k] = q[k]
  PROVE  p = q
  BY PathParts, SeqEqual

(* The parent of a pathname. *)
LEMMA FrontParts ==
  ASSUME NEW p \in Paths, Len(p) > 1
  PROVE  /\ Front(p) \in Paths /\ Len(Front(p)) = Len(p) - 1
         /\ \A k \in 1..Len(p) - 1 : Front(p)[k] = p[k]
         /\ Front(p)[1] = p[1]
         /\ Last(p) = p[Len(p)] /\ Last(p) \in Names
<1>1. p \in Seq(AllNames) /\ Len(p) \in Nat
  BY PathParts
<1>2. Front(p) \in Paths /\ Last(p) \in Names
  BY FrontLastPath
<1>3. /\ Len(SubSeq(p, 1, Len(p) - 1)) = Len(p) - 1
      /\ \A k \in 1..Len(p) - 1 : SubSeq(p, 1, Len(p) - 1)[k] = p[k]
  BY <1>1
<1> QED BY <1>1, <1>2, <1>3 DEF Front, Last

(* A pathname is known by its parent and its last name. *)
LEMMA FrontLastEqual ==
  ASSUME NEW p \in Paths, NEW q \in Paths, Len(p) > 1, Len(q) > 1,
         Front(p) = Front(q), Last(p) = Last(q)
  PROVE  p = q
<1>1. /\ Len(p) \in Nat /\ Len(q) \in Nat
  BY PathParts
<1>2. /\ Len(Front(p)) = Len(p) - 1 /\ Last(p) = p[Len(p)]
      /\ \A k \in 1..Len(p) - 1 : Front(p)[k] = p[k]
      /\ Len(Front(q)) = Len(q) - 1 /\ Last(q) = q[Len(q)]
      /\ \A k \in 1..Len(q) - 1 : Front(q)[k] = q[k]
  BY FrontParts
<1>3. Len(p) = Len(q)
  BY <1>1, <1>2
<1>4. ASSUME NEW k \in 1..Len(p) PROVE p[k] = q[k]
  <2>1. CASE k = Len(p)
    BY <1>2, <1>3, <2>1
  <2>2. CASE k # Len(p)
    <3>1. k \in 1..Len(p) - 1
      BY <1>1, <2>2
    <3> QED BY <1>2, <1>3, <3>1
  <2> QED BY <2>1, <2>2
<1> QED BY <1>3, <1>4, PathEqual

(* The pathname of an entry of a directory has that directory as parent. *)
LEMMA AppendParts ==
  ASSUME NEW p \in Paths, NEW n \in Names
  PROVE  /\ Append(p, n) \in Paths /\ Len(Append(p, n)) = Len(p) + 1
         /\ Len(Append(p, n)) > 1
         /\ Front(Append(p, n)) = p /\ Last(Append(p, n)) = n
         /\ Append(p, n)[1] = p[1]
<1> DEFINE a == Append(p, n)
<1>1. p \in Seq(AllNames) /\ Len(p) \in Nat /\ Len(p) >= 1 /\ n \in AllNames
  BY PathParts DEF AllNames
<1>2. /\ a \in Paths /\ Len(a) > 1
  BY AppendPath
<1>3. /\ Len(a) = Len(p) + 1 /\ a[Len(p) + 1] = n
      /\ \A k \in 1..Len(p) : a[k] = p[k]
  BY <1>1, AppendProperties
<1> HIDE DEF a
<1>4. /\ Front(a) \in Paths /\ Len(Front(a)) = Len(a) - 1
      /\ \A k \in 1..Len(a) - 1 : Front(a)[k] = a[k]
      /\ Last(a) = a[Len(a)]
  BY <1>2, FrontParts
<1>5. Front(a) = p
  <2>1. Len(Front(a)) = Len(p)
    BY <1>1, <1>3, <1>4
  <2>2. \A k \in 1..Len(p) : Front(a)[k] = p[k]
    BY <1>1, <1>3, <1>4
  <2> QED BY <1>4, <2>1, <2>2, PathEqual
<1>6. Last(a) = n /\ a[1] = p[1]
  BY <1>1, <1>3, <1>4
<1> QED BY <1>2, <1>3, <1>5, <1>6 DEF a

(* The pathname of a directory at the top. *)
LEMMA TopParts ==
  ASSUME NEW n \in AllNames
  PROVE  /\ Append(<<>>, n) = <<n>> /\ <<n>> \in Paths
         /\ Len(<<n>>) = 1 /\ <<n>>[1] = n
<1>1. Append(<<>>, n) = <<n>>
  OBVIOUS
<1> QED BY <1>1, OneNamePath

(* A pathname of one name, and its parts. *)
LEMMA SingleParts ==
  ASSUME NEW p \in Paths, Len(p) = 1
  PROVE  Front(p) = <<>> /\ Last(p) = p[1] /\ p = <<p[1]>>
<1>1. p \in Seq(AllNames)
  BY PathParts
<1>2. Front(p) = <<>>
  BY <1>1, SubSeqEmpty DEF Front
<1>3. Last(p) = p[1]
  BY DEF Last
<1>4. p = <<p[1]>>
  BY <1>1
<1> QED BY <1>2, <1>3, <1>4

(* A directory is at or below another one. *)
LEMMA PrefixParts ==
  ASSUME NEW p \in Paths, NEW q \in Paths
  PROVE  IsPrefix(p, q) <=>
           /\ Len(p) <= Len(q)
           /\ \A k \in 1..Len(p) : p[k] = q[k]
<1>1. /\ p \in Seq(AllNames) /\ Len(p) \in Nat /\ Len(p) >= 1
      /\ q \in Seq(AllNames) /\ Len(q) \in Nat
  BY PathParts
<1>2. SubSeq(p, 1, Len(p)) = p
  BY <1>1, SubSeqFull
<1>3. CASE Len(p) <= Len(q)
  <2> DEFINE s == SubSeq(q, 1, Len(p))
  <2>1. s \in Seq(AllNames) /\ Len(s) = Len(p)
        /\ \A k \in 1..Len(p) : s[k] = q[k]
    BY <1>1, <1>3
  <2>2. IsPrefix(p, q) <=> p = s
    BY <1>2, <1>3 DEF IsPrefix
  <2> HIDE DEF s
  <2>3. (\A k \in 1..Len(p) : p[k] = q[k]) => p = s
    BY <1>1, <2>1, SeqEqual
  <2> QED BY <1>3, <2>1, <2>2, <2>3
<1>4. CASE ~(Len(p) <= Len(q))
  BY <1>4 DEF IsPrefix
<1> QED BY <1>3, <1>4

(* The order of directories. *)
LEMMA PrefixFacts ==
  ASSUME NEW p \in Paths, NEW q \in Paths
  PROVE  /\ IsPrefix(p, p)
         /\ IsPrefix(p, q) => p[1] = q[1] /\ Len(p) <= Len(q)
         /\ IsPrefix(p, q) /\ Len(p) = Len(q) => p = q
         /\ Len(p) = 1 /\ p[1] = q[1] => IsPrefix(p, q)
         /\ IsPrefix(p, q) /\ p # q => Len(q) > 1 /\ IsPrefix(p, Front(q))
         /\ Len(q) > 1 /\ IsPrefix(p, Front(q)) => IsPrefix(p, q)
<1>1. Len(p) \in Nat /\ Len(p) >= 1 /\ Len(q) \in Nat /\ Len(q) >= 1
  BY PathParts
<1>2. IsPrefix(p, q) <=> Len(p) <= Len(q) /\ \A k \in 1..Len(p) : p[k] = q[k]
  BY PrefixParts
<1>3. IsPrefix(p, p)
  BY <1>1, PrefixParts
<1>4. IsPrefix(p, q) => p[1] = q[1] /\ Len(p) <= Len(q)
  BY <1>1, <1>2
<1>5. IsPrefix(p, q) /\ Len(p) = Len(q) => p = q
  BY <1>2, PathEqual
<1>6. Len(p) = 1 /\ p[1] = q[1] => IsPrefix(p, q)
  BY <1>1, <1>2
<1>7. ASSUME IsPrefix(p, q), p # q PROVE Len(q) > 1 /\ IsPrefix(p, Front(q))
  <2>1. Len(p) < Len(q)
    BY <1>1, <1>2, <1>5, <1>7
  <2>2. Len(q) > 1
    BY <1>1, <2>1
  <2>3. /\ Front(q) \in Paths /\ Len(Front(q)) = Len(q) - 1
        /\ \A k \in 1..Len(q) - 1 : Front(q)[k] = q[k]
    BY <2>2, FrontParts
  <2>4. Len(p) <= Len(Front(q)) /\ \A k \in 1..Len(p) : p[k] = Front(q)[k]
    BY <1>1, <1>2, <1>7, <2>1, <2>3
  <2> QED BY <2>2, <2>3, <2>4, PrefixParts
<1>8. ASSUME Len(q) > 1, IsPrefix(p, Front(q)) PROVE IsPrefix(p, q)
  <2>1. /\ Front(q) \in Paths /\ Len(Front(q)) = Len(q) - 1
        /\ \A k \in 1..Len(q) - 1 : Front(q)[k] = q[k]
    BY <1>8, FrontParts
  <2>2. Len(p) <= Len(Front(q)) /\ \A k \in 1..Len(p) : p[k] = Front(q)[k]
    BY <1>8, <2>1, PrefixParts
  <2> QED BY <1>1, <1>2, <2>1, <2>2
<1> QED BY <1>3, <1>4, <1>5, <1>6, <1>7, <1>8

(* The pathname of a moved directory by its names. *)
LEMMA MoveParts ==
  ASSUME NEW p \in Paths, NEW from \in Paths, NEW to \in Paths,
         IsPrefix(from, p)
  PROVE  LET m == Move(p, from, to) IN
         /\ m \in Paths /\ Len(m) = Len(to) + Len(p) - Len(from)
         /\ \A k \in 1..Len(to) : m[k] = to[k]
         /\ \A k \in 1..Len(p) - Len(from) : m[Len(to) + k] = p[Len(from) + k]
<1> DEFINE below == SubSeq(p, Len(from) + 1, Len(p))
           m == Move(p, from, to)
<1>1. /\ p \in Seq(AllNames) /\ Len(p) \in Nat /\ Len(from) \in Nat
      /\ Len(from) >= 1 /\ to \in Seq(AllNames) /\ Len(to) \in Nat
      /\ Len(from) <= Len(p)
  BY PathParts, PrefixParts
<1>2. m \in Paths
  BY <1>1, MovePath
<1>3. /\ below \in Seq(AllNames) /\ Len(below) = Len(p) - Len(from)
      /\ \A k \in 1..Len(p) - Len(from) : below[k] = p[Len(from) + k]
  <2>1. \A k \in Len(from) + 1..Len(p) : p[k] \in AllNames
    BY <1>1
  <2>2. /\ below \in Seq(AllNames)
        /\ Len(below) = IF Len(from) + 1 <= Len(p)
                        THEN Len(p) - (Len(from) + 1) + 1 ELSE 0
        /\ \A k \in 1..Len(p) - (Len(from) + 1) + 1 :
              below[k] = p[Len(from) + 1 + k - 1]
    BY <1>1, <2>1, SubSeqProperties
  <2>3. Len(p) - (Len(from) + 1) + 1 = Len(p) - Len(from)
    BY <1>1
  <2>4. ASSUME NEW k \in 1..Len(p) - Len(from)
        PROVE  below[k] = p[Len(from) + k]
    <3>1. Len(from) + 1 + k - 1 = Len(from) + k
      BY <1>1
    <3> QED BY <2>2, <2>3, <3>1
  <2> QED BY <1>1, <2>2, <2>3, <2>4
<1>4. m = to \o below
  BY DEF Move
<1> HIDE DEF below, m
<1>5. /\ Len(m) = Len(to) + Len(below)
      /\ \A i \in 1..Len(to) + Len(below) :
           m[i] = IF i <= Len(to) THEN to[i] ELSE below[i - Len(to)]
  BY <1>1, <1>3, <1>4, ConcatProperties
<1>6. ASSUME NEW k \in 1..Len(p) - Len(from)
      PROVE  m[Len(to) + k] = p[Len(from) + k]
  <2>1. /\ Len(to) + k \in 1..Len(to) + Len(below) /\ ~(Len(to) + k <= Len(to))
        /\ (Len(to) + k) - Len(to) = k
    BY <1>1, <1>3
  <2> QED BY <1>3, <1>5, <2>1
<1>7. ASSUME NEW k \in 1..Len(to) PROVE m[k] = to[k]
  <2>1. k \in 1..Len(to) + Len(below) /\ k <= Len(to)
    BY <1>1, <1>3
  <2> QED BY <1>5, <2>1
<1>8. Len(m) = Len(to) + Len(p) - Len(from)
  BY <1>1, <1>3, <1>5
<1> QED BY <1>2, <1>6, <1>7, <1>8 DEF m

(* Where rename() puts the directories below the renamed one. *)
LEMMA MoveFacts ==
  ASSUME NEW p \in Paths, NEW from \in Paths, NEW to \in Paths,
         IsPrefix(from, p)
  PROVE  /\ Move(p, from, to) \in Paths
         /\ IsPrefix(to, Move(p, from, to))
         /\ Move(p, from, to)[1] = to[1]
         /\ Len(Move(p, from, to)) >= Len(to)
         /\ p = from => Move(p, from, to) = to
         /\ p # from => /\ Len(p) > 1 /\ IsPrefix(from, Front(p))
                        /\ Len(Move(p, from, to)) > 1
                        /\ Front(Move(p, from, to)) = Move(Front(p), from, to)
                        /\ Last(Move(p, from, to)) = Last(p)
<1> DEFINE m == Move(p, from, to)
<1>1. /\ Len(p) \in Nat /\ Len(from) \in Nat /\ Len(to) \in Nat
      /\ Len(from) >= 1 /\ Len(to) >= 1 /\ Len(p) >= 1 /\ Len(from) <= Len(p)
  BY PathParts, PrefixParts
<1>2. /\ m \in Paths /\ Len(m) = Len(to) + Len(p) - Len(from)
      /\ \A k \in 1..Len(to) : m[k] = to[k]
      /\ \A k \in 1..Len(p) - Len(from) : m[Len(to) + k] = p[Len(from) + k]
  BY MoveParts
<1> HIDE DEF m
<1>3. /\ Len(m) >= Len(to) /\ Len(m) \in Nat /\ m[1] = to[1]
  BY <1>1, <1>2
<1>4. IsPrefix(to, m)
  BY <1>2, <1>3, PrefixParts
<1>5. ASSUME p = from PROVE m = to
  <2>1. Len(m) = Len(to)
    BY <1>1, <1>2, <1>5
  <2> QED BY <1>2, <2>1, PathEqual
<1>6. ASSUME p # from
      PROVE  /\ Len(p) > 1 /\ IsPrefix(from, Front(p)) /\ Len(m) > 1
             /\ Front(m) = Move(Front(p), from, to) /\ Last(m) = Last(p)
  <2>1. Len(p) > 1 /\ IsPrefix(from, Front(p)) /\ Len(from) < Len(p)
    BY <1>1, <1>6, PrefixFacts
  <2>2. Len(m) > 1
    BY <1>1, <1>2, <2>1
  <2>3. /\ Front(p) \in Paths /\ Len(Front(p)) = Len(p) - 1
        /\ \A k \in 1..Len(p) - 1 : Front(p)[k] = p[k]
        /\ Last(p) = p[Len(p)]
    BY <2>1, FrontParts
  <2>4. /\ Front(m) \in Paths /\ Len(Front(m)) = Len(m) - 1
        /\ \A k \in 1..Len(m) - 1 : Front(m)[k] = m[k]
        /\ Last(m) = m[Len(m)]
    BY <1>2, <2>2, FrontParts
  <2> DEFINE f == Move(Front(p), from, to)
  <2>5. /\ f \in Paths /\ Len(f) = Len(to) + Len(Front(p)) - Len(from)
        /\ \A k \in 1..Len(to) : f[k] = to[k]
        /\ \A k \in 1..Len(Front(p)) - Len(from) :
              f[Len(to) + k] = Front(p)[Len(from) + k]
    BY <2>1, <2>3, MoveParts
  <2> HIDE DEF f
  <2>6. Len(Front(m)) = Len(f)
    BY <1>1, <1>2, <2>3, <2>4, <2>5
  <2>7. ASSUME NEW k \in 1..Len(Front(m)) PROVE Front(m)[k] = f[k]
    <3>1. k \in 1..Len(m) - 1 /\ Front(m)[k] = m[k]
      BY <2>4
    <3>2. CASE k <= Len(to)
      BY <1>1, <1>2, <2>5, <3>1, <3>2
    <3>3. CASE k > Len(to)
      <4> DEFINE i == k - Len(to)
      <4>1. /\ i \in 1..Len(p) - Len(from) /\ i \in 1..Len(Front(p)) - Len(from)
            /\ k = Len(to) + i /\ Len(from) + i \in 1..Len(p) - 1
        BY <1>1, <1>2, <2>3, <3>1, <3>3
      <4> HIDE DEF i
      <4> QED BY <1>2, <2>3, <2>5, <3>1, <4>1
    <3> QED BY <1>1, <3>2, <3>3
  <2>8. Front(m) = f
    BY <2>4, <2>5, <2>6, <2>7, PathEqual
  <2>9. Last(m) = Last(p)
    <3> DEFINE i == Len(p) - Len(from)
    <3>1. /\ i \in 1..Len(p) - Len(from) /\ Len(to) + i = Len(m)
          /\ Len(from) + i = Len(p)
      BY <1>1, <1>2, <2>1
    <3> HIDE DEF i
    <3>2. m[Len(to) + i] = p[Len(from) + i]
      BY <1>2, <3>1
    <3> QED BY <2>3, <2>4, <3>1, <3>2
  <2> QED BY <2>1, <2>2, <2>8, <2>9 DEF f
<1> QED BY <1>2, <1>3, <1>4, <1>5, <1>6 DEF m

(* rename() puts no two directories at one pathname. *)
LEMMA MoveInjective ==
  ASSUME NEW p \in Paths, NEW q \in Paths, NEW from \in Paths, NEW to \in Paths,
         IsPrefix(from, p), IsPrefix(from, q),
         Move(p, from, to) = Move(q, from, to)
  PROVE  p = q
<1> DEFINE m == Move(p, from, to)
<1>1. /\ Len(p) \in Nat /\ Len(from) \in Nat /\ Len(to) \in Nat
      /\ Len(from) <= Len(p) /\ Len(q) \in Nat /\ Len(from) <= Len(q)
      /\ \A k \in 1..Len(from) : from[k] = p[k]
      /\ \A k \in 1..Len(from) : from[k] = q[k]
  BY PathParts, PrefixParts
<1>2. /\ Len(m) = Len(to) + Len(p) - Len(from)
      /\ \A k \in 1..Len(p) - Len(from) : m[Len(to) + k] = p[Len(from) + k]
  BY MoveParts
<1>3. /\ Len(m) = Len(to) + Len(q) - Len(from)
      /\ \A k \in 1..Len(q) - Len(from) : m[Len(to) + k] = q[Len(from) + k]
  <2> DEFINE n == Move(q, from, to)
  <2>1. /\ Len(n) = Len(to) + Len(q) - Len(from)
        /\ \A k \in 1..Len(q) - Len(from) : n[Len(to) + k] = q[Len(from) + k]
    BY MoveParts
  <2>2. m = n
    OBVIOUS
  <2> HIDE DEF m, n
  <2> QED BY <2>1, <2>2
<1> HIDE DEF m
<1>4. Len(p) = Len(q)
  BY <1>1, <1>2, <1>3
<1>5. ASSUME NEW k \in 1..Len(p) PROVE p[k] = q[k]
  <2>1. CASE k <= Len(from)
    BY <1>1, <2>1
  <2>2. CASE k > Len(from)
    <3> DEFINE i == k - Len(from)
    <3>1. i \in 1..Len(p) - Len(from) /\ i \in 1..Len(q) - Len(from)
          /\ k = Len(from) + i
      BY <1>1, <1>4, <2>2
    <3> HIDE DEF i
    <3> QED BY <1>2, <1>3, <3>1
  <2> QED BY <1>1, <2>1, <2>2
<1> QED BY <1>4, <1>5, PathEqual

-----------------------------------------------------------------------------
(* The order of the pending events. *)

(* A sequence of events by its first event and the rest. *)
LEMMA ConcatHead ==
  ASSUME NEW s \in Seq(Events), NEW t \in Seq(Events), s # <<>>
  PROVE  /\ s \o t # <<>> /\ Head(s \o t) = Head(s)
         /\ ToSet(Tail(s \o t)) = ToSet(Tail(s)) \cup ToSet(t)
<1>1. Tail(s) \in Seq(Events)
  BY HeadTailProperties
<1>2. /\ s \o t \in Seq(Events) /\ s \o t # <<>>
      /\ Head(s \o t) = Head(s)
      /\ Tail(s \o t) = Tail(s) \o t
  <2>1. /\ s \o t \in Seq(Events) /\ Len(s \o t) = Len(s) + Len(t)
        /\ Len(s) \in Nat \ {0} /\ Len(t) \in Nat
        /\ \A i \in 1..Len(s) + Len(t) :
             (s \o t)[i] = IF i <= Len(s) THEN s[i] ELSE t[i - Len(s)]
    BY ConcatProperties, EmptySeq, LenProperties
  <2>2. s \o t # <<>> /\ Head(s \o t) = Head(s)
    BY <2>1
  <2>3. /\ Tail(s \o t) \in Seq(Events) /\ Len(Tail(s \o t)) = Len(s \o t) - 1
        /\ \A i \in 1..Len(Tail(s \o t)) : Tail(s \o t)[i] = (s \o t)[i + 1]
    BY <2>1, <2>2, HeadTailProperties
  <2>4. /\ Len(Tail(s)) = Len(s) - 1
        /\ \A i \in 1..Len(Tail(s)) : Tail(s)[i] = s[i + 1]
    BY HeadTailProperties
  <2>5. /\ Tail(s) \o t \in Seq(Events)
        /\ Len(Tail(s) \o t) = Len(Tail(s)) + Len(t)
        /\ \A i \in 1..Len(Tail(s)) + Len(t) :
             (Tail(s) \o t)[i] = IF i <= Len(Tail(s)) THEN Tail(s)[i]
                                 ELSE t[i - Len(Tail(s))]
    BY <1>1, ConcatProperties
  <2>6. Len(Tail(s \o t)) = Len(Tail(s) \o t)
    BY <2>1, <2>3, <2>4, <2>5
  <2>7. ASSUME NEW i \in 1..Len(Tail(s \o t))
        PROVE  Tail(s \o t)[i] = (Tail(s) \o t)[i]
    <3>1. /\ i \in 1..Len(Tail(s)) + Len(t) /\ i + 1 \in 1..Len(s) + Len(t)
          /\ (i <= Len(Tail(s)) <=> i + 1 <= Len(s))
          /\ i - Len(Tail(s)) = (i + 1) - Len(s)
          /\ (i <= Len(Tail(s)) => i \in 1..Len(Tail(s)))
      BY <2>1, <2>3, <2>4
    <3> QED BY <2>1, <2>3, <2>4, <2>5, <3>1
  <2> QED BY <2>1, <2>2, <2>3, <2>5, <2>6, <2>7, SeqEqual
<1>3. ToSet(Tail(s) \o t) = ToSet(Tail(s)) \cup ToSet(t)
  BY <1>1, ToSetConcat
<1> QED BY <1>2, <1>3

(* The pending events are the first one and the rest. *)
LEMMA PendingParts ==
  ASSUME IInv
  PROVE  /\ Pending = {} <=> buf = <<>> /\ queue = <<>>
         /\ Pending # {} => Pending = {First} \cup Rest
         /\ Pending \subseteq Events
<1>1. buf \in Seq(Events) /\ queue \in Seq(Events)
  BY DEF IInv, TypeOK
<1>2. /\ buf # <<>> => ToSet(buf) = {Head(buf)} \cup ToSet(Tail(buf))
      /\ queue # <<>> => ToSet(queue) = {Head(queue)} \cup ToSet(Tail(queue))
  BY <1>1, ToSetHeadTail
<1>3. /\ buf = <<>> => ToSet(buf) = {}
      /\ queue = <<>> => ToSet(queue) = {}
  BY DEF ToSet
<1>4. Pending \subseteq Events
  BY <1>1, ToSetElements DEF Pending
<1>5. CASE buf # <<>>
  BY <1>2, <1>4, <1>5 DEF Pending, First, Rest
<1>6. CASE buf = <<>> /\ queue # <<>>
  BY <1>2, <1>3, <1>4, <1>6 DEF Pending, First, Rest
<1>7. CASE buf = <<>> /\ queue = <<>>
  BY <1>3, <1>4, <1>7 DEF Pending
<1> QED BY <1>5, <1>6, <1>7

(* Notify appends to the queue. *)
LEMMA NotifyAppends ==
  ASSUME NEW q \in Seq(Events), NEW events \in Seq(Events)
  PROVE  \E s \in Seq(Events) :
           /\ Notify(q, events) = q \o s
           /\ ToSet(s) \subseteq ToSet(events) \cup {Overflow}
           /\ q = <<>> /\ events # <<>> =>
                /\ s # <<>> /\ Head(s) = Head(events)
                /\ ToSet(Tail(s)) \subseteq ToSet(Tail(events)) \cup {Overflow}
           /\ q = <<>> /\ events = <<>> => s = <<>>
<1> DEFINE merged == q # <<>> /\ events # <<>> /\ Last(q) = Head(events)
           new == IF merged THEN Tail(events) ELSE events
           room == IF Len(q) < MaxQueue THEN MaxQueue - Len(q) ELSE 0
           first == SubSeq(new, 1, room)
           full == q \o first
           r == Notify(q, events)
<1>1. /\ MaxQueue \in Nat \ {0} /\ Len(q) \in Nat /\ room \in Nat
      /\ q = <<>> => room = MaxQueue
  BY DtreeAssumption
<1>2. /\ new \in Seq(Events) /\ ToSet(new) \subseteq ToSet(events)
      /\ q = <<>> \/ events = <<>> => new = events
      /\ Len(new) \in Nat
  <2>1. CASE merged
    <3>1. Tail(events) \in Seq(Events)
          /\ ToSet(events) = {Head(events)} \cup ToSet(Tail(events))
      BY <2>1, ToSetHeadTail, HeadTailProperties
    <3> QED BY <2>1, <3>1, LenProperties
  <2>2. CASE ~merged
    BY <2>2, LenProperties
  <2> QED BY <2>1, <2>2
<1>3. r = IF Len(new) <= room THEN q \o new
          ELSE IF Overflow \in ToSet(full) THEN full
          ELSE Append(full, Overflow)
  BY DEF Notify
<1> HIDE DEF merged, new, room, r
<1>4. CASE Len(new) <= room
  <2>1. r = q \o new
    BY <1>3, <1>4
  <2>2. q = <<>> /\ events # <<>> =>
          /\ new # <<>> /\ Head(new) = Head(events)
          /\ ToSet(Tail(new)) \subseteq ToSet(Tail(events)) \cup {Overflow}
    BY <1>2
  <2>3. events = <<>> => new = <<>>
    BY <1>2
  <2> new \in Seq(Events)
    BY <1>2
  <2> WITNESS new \in Seq(Events)
  <2> QED BY <1>2, <2>1, <2>2, <2>3 DEF r
<1>5. CASE Len(new) > room
  <2>1. /\ first \in Seq(Events) /\ ToSet(first) \subseteq ToSet(new)
        /\ Len(first) = room
    <3>1. room \in 0..Len(new) /\ 1 \in 1..Len(new) + 1
      BY <1>1, <1>2, <1>5
    <3>2. first \in Seq(Events) /\ ToSet(first) \subseteq ToSet(new)
      BY <1>2, <3>1, ToSetSubSeq
    <3>3. Len(first) = room
      BY <1>2, <3>1, SubSeqProperties
    <3> QED BY <3>2, <3>3
  <2>2. events # <<>>
    BY <1>1, <1>2, <1>5, EmptySeq
  <2>3. ASSUME q = <<>>
        PROVE  /\ first # <<>> /\ Head(first) = Head(events)
               /\ ToSet(Tail(first)) \subseteq ToSet(Tail(events))
    <3>1. new = events /\ room = MaxQueue
      BY <1>1, <1>2, <2>3
    <3>2. /\ 1 \in 1..Len(events) /\ room \in 1..Len(events)
          /\ Len(events) \in Nat /\ room >= 1
      BY <1>1, <1>2, <1>5, <3>1
    <3>3. Head(first) = events[1] /\ Tail(first) = SubSeq(events, 2, room)
      BY <3>1, <3>2, HeadTailOfSubSeq
    <3>4. Tail(events) = SubSeq(events, 2, Len(events))
      BY <2>2, TailIsSubSeq
    <3>5. first # <<>>
      <4>1. Len(first) >= 1
        BY <2>1, <3>2
      <4> HIDE DEF first
      <4> QED BY <2>1, <4>1
    <3>6. ToSet(SubSeq(events, 2, room)) \subseteq ToSet(Tail(events))
      <4> DEFINE a == SubSeq(events, 2, room)
                 b == SubSeq(events, 2, Len(events))
      <4>1. \A k \in 2..Len(events) : events[k] \in Events
        BY <3>2
      <4>2. /\ a \in Seq(Events)
            /\ Len(a) = IF 2 <= room THEN room - 2 + 1 ELSE 0
            /\ \A k \in 1..room - 2 + 1 : a[k] = events[2 + k - 1]
        BY <3>2, <4>1, SubSeqProperties
      <4>3. /\ b \in Seq(Events)
            /\ Len(b) = IF 2 <= Len(events) THEN Len(events) - 2 + 1 ELSE 0
            /\ \A k \in 1..Len(events) - 2 + 1 : b[k] = events[2 + k - 1]
        BY <3>2, <4>1, SubSeqProperties
      <4> HIDE DEF a, b
      <4>4. ASSUME NEW k \in 1..Len(a) PROVE a[k] \in ToSet(b)
        <5>1. /\ k \in 1..room - 2 + 1 /\ k \in 1..Len(events) - 2 + 1
              /\ k \in 1..Len(b)
          BY <3>2, <4>2, <4>3
        <5>2. a[k] = b[k]
          BY <4>2, <4>3, <5>1
        <5> QED BY <4>3, <5>1, <5>2, ToSetElements
      <4>5. ToSet(a) = {a[k] : k \in 1..Len(a)}
        BY <4>2, ToSetElements
      <4>6. ToSet(a) \subseteq ToSet(b)
        BY <4>4, <4>5
      <4> QED BY <3>4, <4>6 DEF a, b
    <3>7. Head(events) = events[1]
      BY <2>2
    <3> QED BY <3>3, <3>5, <3>6, <3>7
  <2> HIDE DEF first
  <2>4. CASE Overflow \in ToSet(full)
    <3>1. r = q \o first
      BY <1>1, <1>2, <1>3, <1>5, <2>4
    <3> first \in Seq(Events)
      BY <2>1
    <3> WITNESS first \in Seq(Events)
    <3> QED BY <1>2, <2>1, <2>2, <2>3, <3>1 DEF r
  <2>5. CASE Overflow \notin ToSet(full)
    <3> DEFINE last == <<Overflow>>
               s == first \o last
    <3>1. last \in Seq(Events) /\ ToSet(last) = {Overflow} /\ Overflow \in Events
      <4>1. Overflow \in Events
        BY EventType
      <4> QED BY <4>1, ToSetSingle
    <3>2. r = Append(full, Overflow)
      BY <1>1, <1>2, <1>3, <1>5, <2>5
    <3>3. full \in Seq(Events)
      BY <2>1
    <3>4. r = full \o last
      <4> HIDE DEF full
      <4> QED BY <3>1, <3>2, <3>3, AppendIsConcat
    <3> HIDE DEF last
    <3>5. full \o last = q \o s
      <4> HIDE DEF first
      <4> q \in Seq(Events) /\ first \in Seq(Events) /\ last \in Seq(Events)
        BY <2>1, <3>1
      <4> QED BY ConcatAssociative
    <3>6. s \in Seq(Events) /\ ToSet(s) = ToSet(first) \cup {Overflow}
      BY <2>1, <3>1, ToSetConcat
    <3>7. q = <<>> =>
          /\ s # <<>> /\ Head(s) = Head(events)
          /\ ToSet(Tail(s)) \subseteq ToSet(Tail(events)) \cup {Overflow}
      BY <2>1, <2>3, <3>1, ConcatHead
    <3> HIDE DEF s
    <3> s \in Seq(Events)
      BY <3>6
    <3> WITNESS s \in Seq(Events)
    <3> QED BY <1>2, <2>1, <2>2, <3>4, <3>5, <3>6, <3>7 DEF r
  <2> QED BY <2>4, <2>5
<1>6. Len(new) <= room \/ Len(new) > room
  BY <1>1, <1>2
<1> QED BY <1>4, <1>5, <1>6

(* New events come after the pending ones. *)
LEMMA PendingQueued ==
  ASSUME IInv, NEW events \in Seq(Events), queue' = Notify(queue, events),
         buf' = buf
  PROVE  /\ Pending \subseteq Pending'
         /\ Pending' \subseteq Pending \cup ToSet(events) \cup {Overflow}
         /\ ToSet(events) \subseteq Pending' \/ Overflow \in Pending'
         /\ Pending # {} => /\ First' = First
                            /\ Rest' \subseteq Rest \cup ToSet(events) \cup {Overflow}
         /\ Pending = {} /\ events # <<>> =>
               /\ First' = Head(events)
               /\ Rest' \subseteq ToSet(Tail(events)) \cup {Overflow}
         /\ Pending = {} /\ events = <<>> => Pending' = {}
<1>1. buf \in Seq(Events) /\ queue \in Seq(Events)
  BY DEF IInv, TypeOK
<1>2. PICK s \in Seq(Events) :
        /\ queue' = queue \o s
        /\ ToSet(s) \subseteq ToSet(events) \cup {Overflow}
        /\ queue = <<>> /\ events # <<>> =>
             /\ s # <<>> /\ Head(s) = Head(events)
             /\ ToSet(Tail(s)) \subseteq ToSet(Tail(events)) \cup {Overflow}
        /\ queue = <<>> /\ events = <<>> => s = <<>>
  BY <1>1, NotifyAppends
<1>3. ToSet(queue') = ToSet(queue) \cup ToSet(s)
  BY <1>1, <1>2, ToSetConcat
<1>4. ToSet(events) \subseteq ToSet(queue') \/ Overflow \in ToSet(queue')
  BY QueueType
<1>5. /\ Pending \subseteq Pending'
      /\ Pending' \subseteq Pending \cup ToSet(events) \cup {Overflow}
      /\ ToSet(events) \subseteq Pending' \/ Overflow \in Pending'
  BY <1>2, <1>3, <1>4 DEF Pending
<1>6. CASE Pending # {}
  <2>1. CASE buf # <<>>
    BY <1>2, <1>3, <1>5, <1>6, <2>1 DEF First, Rest
  <2>2. CASE buf = <<>> /\ queue # <<>>
    <3>1. Head(queue') = Head(queue)
          /\ ToSet(Tail(queue')) = ToSet(Tail(queue)) \cup ToSet(s)
      BY <1>1, <1>2, <2>2, ConcatHead
    <3> QED BY <1>2, <1>5, <1>6, <2>2, <3>1 DEF First, Rest
  <2> QED BY <1>6, <2>1, <2>2, PendingParts
<1>7. CASE Pending = {}
  <2>1. buf = <<>> /\ queue = <<>> /\ buf' = <<>>
    BY <1>7, PendingParts
  <2>2. queue' = s
    BY <1>2, <2>1, ConcatEmptySeq
  <2>3. events = <<>> => Pending' = {}
    BY <1>2, <2>1, <2>2 DEF Pending, ToSet
  <2> QED BY <1>2, <1>5, <1>7, <2>1, <2>2, <2>3 DEF First, Rest
<1> QED BY <1>5, <1>6, <1>7

(* Reading events changes nothing of their order. *)
LEMMA PendingRead ==
  ASSUME IInv, ReadEvents \/ SecondRead
  PROVE  Pending' = Pending /\ First' = First /\ Rest' = Rest
<1>1. buf \in Seq(Events) /\ queue \in Seq(Events) /\ queue # <<>>
  BY DEF IInv, TypeOK, ReadEvents, SecondRead
<1>2. CASE ReadEvents
  <2> DEFINE k == IF Len(queue) < ReadMax THEN Len(queue) ELSE ReadMax
  <2>1. k \in 1..Len(queue) /\ Len(queue) \in Nat \ {0}
    BY <1>1, DtreeAssumption, EmptySeq
  <2>2. buf' = SubSeq(queue, 1, k) /\ queue' = SubSeq(queue, k + 1, Len(queue))
    BY <1>2 DEF ReadEvents
  <2>3. buf = <<>>
    BY <1>2 DEF ReadEvents, IInv, TypeOK
  <2> HIDE DEF k
  <2>4. buf' \in Seq(Events) /\ queue' \in Seq(Events) /\ buf' # <<>>
    <3>1. 1 \in 1..Len(queue) + 1 /\ k \in 0..Len(queue)
          /\ k + 1 \in 1..Len(queue) + 1 /\ Len(queue) \in 0..Len(queue)
      BY <2>1
    <3>2. buf' \in Seq(Events) /\ queue' \in Seq(Events)
      BY <1>1, <2>2, <3>1, ToSetSubSeq
    <3>3. Len(buf') = k
      BY <1>1, <2>1, <2>2
    <3> QED BY <2>1, <3>2, <3>3
  <2>5. buf' \o queue' = queue
    <3>1. Len(queue) \in Nat /\ 1 \in 1..Len(queue) + 1 /\ k \in 1 - 1..Len(queue)
          /\ Len(queue) \in k..Len(queue)
      BY <2>1
    <3>2. SubSeq(queue, 1, k) \o SubSeq(queue, k + 1, Len(queue))
            = SubSeq(queue, 1, Len(queue))
      BY ONLY <3>1, <1>1, ConcatAdjacentSubSeq, Zenon
    <3> QED BY <1>1, <2>2, <3>2, SubSeqFull
  <2>6. /\ Head(queue) = Head(buf')
        /\ ToSet(Tail(queue)) = ToSet(Tail(buf')) \cup ToSet(queue')
        /\ ToSet(queue) = ToSet(buf') \cup ToSet(queue')
    <3>1. /\ Head(buf' \o queue') = Head(buf')
          /\ ToSet(Tail(buf' \o queue')) = ToSet(Tail(buf')) \cup ToSet(queue')
      BY <2>4, ConcatHead
    <3>2. ToSet(buf' \o queue') = ToSet(buf') \cup ToSet(queue')
      BY <2>4, ToSetConcat
    <3> QED BY <2>5, <3>1, <3>2
  <2>7. ToSet(buf) = {}
    BY <2>3 DEF ToSet
  <2> QED BY <2>3, <2>4, <2>6, <2>7 DEF Pending, First, Rest
<1>3. CASE SecondRead
  <2>1. PICK k \in 1..Len(queue) :
           /\ buf' = buf \o SubSeq(queue, 1, k)
           /\ queue' = SubSeq(queue, k + 1, Len(queue))
    BY <1>3 DEF SecondRead
  <2>2. buf # <<>>
    BY <1>3 DEF SecondRead, IInv, TypeOK
  <2> DEFINE s == SubSeq(queue, 1, k)
  <2>3. s \in Seq(Events)
    BY <1>1, <2>1, SubSeqProperties
  <2>4. ToSet(queue) = ToSet(s) \cup ToSet(queue')
    BY <1>1, <2>1, ToSetCut
  <2> HIDE DEF s
  <2>5. /\ buf' # <<>> /\ Head(buf') = Head(buf)
        /\ ToSet(Tail(buf')) = ToSet(Tail(buf)) \cup ToSet(s)
        /\ ToSet(buf') = ToSet(buf) \cup ToSet(s)
    <3>1. buf' = buf \o s
      BY <2>1 DEF s
    <3> QED BY <1>1, <2>2, <2>3, <3>1, ConcatHead, ToSetConcat
  <2> QED BY <2>2, <2>4, <2>5 DEF Pending, First, Rest
<1> QED BY <1>2, <1>3

(* The first event of the read buffer is the first pending one. *)
LEMMA PendingDropped ==
  ASSUME IInv, pc = "process", buf' = Tail(buf), queue' = queue
  PROVE  Pending' = Rest
  BY FirstEvent DEF Pending, Rest

(* The event that is processed is the first pending one, and no traversal  *)
(* is under way.                                                           *)
LEMMA ProcessFirst ==
  ASSUME IInv, pc = "process"
  PROVE  /\ First = ev /\ Pending # {} /\ Pending = {ev} \cup Rest
         /\ Rest = ToSet(Tail(buf)) \cup ToSet(queue)
         /\ walk = <<>> /\ ev \in Events
<1>1. First = ev /\ Rest = ToSet(Tail(buf)) \cup ToSet(queue)
  BY FirstEvent DEF First, Rest, ev
<1>2. Pending # {}
  BY FirstEvent DEF Pending
<1> QED BY <1>1, <1>2, FirstEvent, PendingParts

-----------------------------------------------------------------------------
(* The tree of directories. *)

(* Among some directories there is one with a shortest pathname. *)
LEMMA Shortest ==
  ASSUME TypeOK, NEW S \in SUBSET tree, S # {}
  PROVE  \E d \in S : \A e \in S : Len(d.path) <= Len(e.path)
<1> DEFINE R == {x \in Nat \X Nat : x[1] < x[2]}
           T == {Len(d.path) : d \in S}
<1>1. \A d \in S : Len(d.path) \in Nat
  BY TreeType, PathParts
<1>2. T \subseteq Nat /\ T # {}
  BY <1>1
<1>3. IsWellFoundedOn(R, Nat)
  BY NatLessThanWellFounded DEF OpToRel
<1>4. \A a, b \in Nat : <<a, b>> \in R <=> a < b
  OBVIOUS
<1> HIDE DEF R, T
<1>5. PICK n \in T : \A k \in T : ~(<<k, n>> \in R)
  BY <1>2, <1>3, WFMin
<1>6. ASSUME NEW k \in T PROVE n <= k
  <2>1. k \in Nat /\ n \in Nat /\ ~(<<k, n>> \in R)
    BY <1>2, <1>5
  <2>2. ~(k < n)
    BY <1>4, <2>1
  <2> QED BY <2>1, <2>2
<1> QED BY <1>6 DEF T

(* The i-node number at the pathname of a directory is its own. *)
LEMMA InoAtPath ==
  ASSUME TypeOK, TreeInv, NEW d \in tree
  PROVE  /\ InoAt(d.path) = d.ino /\ Exists(d.path) /\ d.path \in Paths
         /\ d.path # <<>> /\ d.ino \in 1..nextIno - 1 /\ d.ino # 0
<1>1. d.path \in Paths /\ d.path # <<>> /\ d.ino \in 1..nextIno - 1
      /\ d.ino \in Nat \ {0}
  BY TreeType, PathType DEF TypeOK
<1>2. Exists(d.path)
  BY DEF Exists
<1>3. PICK e \in tree : e.path = d.path /\ e.ino = InoAt(d.path)
  BY <1>1, <1>2, TreeType
<1> QED BY <1>1, <1>2, <1>3 DEF TreeInv

(* There is nothing below a pathname where there is no directory. *)
LEMMA NothingBelow ==
  ASSUME TypeOK, TreeInv, NEW q \in Paths, ~Exists(q), NEW d \in tree
  PROVE  ~IsPrefix(q, d.path)
<1> DEFINE S == {e \in tree : IsPrefix(q, e.path)}
<1> SUFFICES ASSUME S # {} PROVE FALSE
  OBVIOUS
<1>1. PICK e \in S : \A f \in S : Len(e.path) <= Len(f.path)
  BY Shortest
<1>2. e \in tree /\ IsPrefix(q, e.path) /\ e.path \in Paths
  BY InoAtPath
<1>3. q # e.path
  BY <1>2 DEF Exists
<1>4. Len(e.path) > 1 /\ IsPrefix(q, Front(e.path))
  BY <1>2, <1>3, PrefixFacts
<1>5. PICK f \in tree : f.path = Front(e.path)
  BY <1>2, <1>4 DEF TreeInv
<1>6. f \in S /\ Len(f.path) = Len(e.path) - 1 /\ Len(e.path) \in Nat
  BY <1>2, <1>4, <1>5, FrontParts, PathParts
<1> QED BY <1>1, <1>6

(* A directory without children has nothing below it. *)
LEMMA NoChildren ==
  ASSUME TypeOK, TreeInv, NEW p \in Paths, Exists(p), Children(InoAt(p)) = {},
         NEW d \in tree, IsPrefix(p, d.path)
  PROVE  d.path = p
<1> DEFINE S == {e \in tree : IsPrefix(p, e.path) /\ e.path # p}
<1> SUFFICES ASSUME S # {} PROVE FALSE
  OBVIOUS
<1>1. PICK e \in S : \A f \in S : Len(e.path) <= Len(f.path)
  BY Shortest
<1>2. e \in tree /\ IsPrefix(p, e.path) /\ e.path # p /\ e.path \in Paths
  BY InoAtPath
<1>3. Len(e.path) > 1 /\ IsPrefix(p, Front(e.path))
  BY <1>2, PrefixFacts
<1>4. PICK f \in tree : f.path = Front(e.path)
  BY <1>2, <1>3 DEF TreeInv
<1>5. Len(f.path) = Len(e.path) - 1 /\ Len(e.path) \in Nat
  BY <1>2, <1>3, <1>4, FrontParts, PathParts
<1>6. f.path = p
  BY <1>1, <1>3, <1>4, <1>5
<1>7. e \in Children(InoAt(p))
  BY <1>2, <1>3, <1>4, <1>6 DEF Children
<1> QED BY <1>7

(* A mutator that is not in the middle of rename() changes its job. *)
LEMMA UnderwaySame ==
  ASSUME IInv, NEW m \in Mutators, NEW j, job' = [job EXCEPT ![m] = j],
         job[m].pc # "moved", j.pc # "moved"
  PROVE  Underway' = Underway
<1>1. job \in [Mutators -> Jobs]
  BY DEF IInv, TypeOK
<1>2. \A x \in Mutators : job'[x] = IF x = m THEN j ELSE job[x]
  BY <1>1
<1>3. Underway' \subseteq Underway
  BY <1>2 DEF Underway
<1>4. Underway \subseteq Underway'
  BY <1>2 DEF Underway
<1> QED BY <1>3, <1>4

(* rename() between its halves. *)
LEMMA UnderwayMore ==
  ASSUME IInv, NEW m \in Mutators, NEW j, job' = [job EXCEPT ![m] = j],
         job[m].pc # "moved", j.pc = "moved"
  PROVE  Underway' = Underway \cup {j}
<1>1. job \in [Mutators -> Jobs]
  BY DEF IInv, TypeOK
<1>2. \A x \in Mutators : job'[x] = IF x = m THEN j ELSE job[x]
  BY <1>1
<1>3. Underway' \subseteq Underway \cup {j}
  BY <1>2 DEF Underway
<1>4. Underway \cup {j} \subseteq Underway'
  BY <1>2 DEF Underway
<1> QED BY <1>3, <1>4

(* rename() is over. *)
LEMMA UnderwayLess ==
  ASSUME IInv, NEW m \in Mutators, job' = [job EXCEPT ![m] = Idle],
         job[m].pc = "moved"
  PROVE  /\ Underway' \subseteq Underway /\ job[m] \in Underway
         /\ Underway \subseteq Underway' \cup {job[m]}
<1>1. job \in [Mutators -> Jobs] /\ Idle.pc # "moved"
  BY IdleJob DEF IInv, TypeOK
<1>2. \A x \in Mutators : job'[x] = IF x = m THEN Idle ELSE job[x]
  BY <1>1
<1>3. Underway' \subseteq Underway
  BY <1>1, <1>2 DEF Underway
<1>4. Underway \subseteq Underway' \cup {job[m]}
  BY <1>2 DEF Underway
<1>5. job[m] \in Underway
  BY DEF Underway
<1> QED BY <1>3, <1>4, <1>5

(* The jobs of rename() between its halves. *)
LEMMA UnderwayType ==
  ASSUME IInv, NEW j \in Underway
  PROVE  j \in Jobs /\ j.to \in Paths /\ Len(j.to) > 1
<1>1. PICK m \in Mutators : j = job[m] /\ job[m].pc = "moved"
  BY DEF Underway
<1> QED BY <1>1, JobsReady DEF IInv, ReadyJob

(* The tree is left alone. *)
LEMMA TreeSame ==
  ASSUME TreeInv, UNCHANGED <<tree, nextIno>>, Underway' \subseteq Underway
  PROVE  TreeInv'
  BY DEF TreeInv

(* A directory is made. *)
LEMMA TreeMade ==
  ASSUME IInv, TreeInv, NEW p \in Paths, Len(p) > 1, Exists(Front(p)), ~Exists(p),
         tree' = tree \cup {[ino |-> nextIno, path |-> p]},
         nextIno' = nextIno + 1, Underway' = Underway
  PROVE  TreeInv'
<1> DEFINE new == [ino |-> nextIno, path |-> p]
<1>1. new.ino = nextIno /\ new.path = p /\ tree' = tree \cup {new}
  OBVIOUS
<1> HIDE DEF new
<1>2. /\ nextIno \in Nat \ {0} /\ \A d \in tree : d.ino \in Nat /\ d.ino < nextIno
  BY DEF IInv, TypeOK
<1>3. \A d \in tree : d.ino # new.ino /\ d.path # new.path
  BY <1>1, <1>2 DEF Exists
<1>4. \A d, e \in tree' : d.ino = e.ino \/ d.path = e.path => d = e
  BY <1>1, <1>3 DEF TreeInv
<1>5. \E e \in tree : e.path = Front(p)
  BY FrontParts, PathType DEF Exists
<1>6. \A d \in tree' : Len(d.path) > 1 => \E e \in tree' : e.path = Front(d.path)
  BY <1>1, <1>5 DEF TreeInv
<1>7. \A j \in Underway : j.ino \in Nat
  BY UnderwayType DEF Jobs
<1>8. \A j \in Underway' :
        j.ino < nextIno' /\ \A d \in tree' : d.ino = j.ino => Len(d.path) > 1
  BY <1>1, <1>2, <1>7 DEF TreeInv
<1> QED BY <1>4, <1>6, <1>8 DEF TreeInv

(* A directory is removed. *)
LEMMA TreeRemoved ==
  ASSUME IInv, TreeInv, NEW p \in Paths, Exists(p), Children(InoAt(p)) = {},
         tree' = {d \in tree : d.path # p}, nextIno' = nextIno,
         Underway' = Underway
  PROVE  TreeInv'
<1>1. ASSUME NEW d \in tree', Len(d.path) > 1
      PROVE  \E e \in tree' : e.path = Front(d.path)
  <2>1. PICK e \in tree : e.path = Front(d.path)
    BY <1>1 DEF TreeInv
  <2>2. e.path # p
    <3> SUFFICES ASSUME e.path = p PROVE FALSE
      OBVIOUS
    <3>1. d \in Children(InoAt(p))
      BY <1>1, <2>1 DEF Children
    <3> QED BY <3>1
  <2> QED BY <2>1, <2>2
<1> QED BY <1>1 DEF TreeInv

(* What rename() makes of a directory. *)
LEMMA NowFacts ==
  ASSUME NEW p \in Paths, NEW from \in Paths, NEW to \in Paths
  PROVE  /\ Now(p, from, to) \in Paths
         /\ Len(to) > 1 /\ Len(p) > 1 => Len(Now(p, from, to)) > 1
         /\ ~IsPrefix(from, p) => Now(p, from, to) = p
         /\ IsPrefix(from, p) => /\ Now(p, from, to) = Move(p, from, to)
                                 /\ IsPrefix(to, Now(p, from, to))
                                 /\ Now(p, from, to)[1] = to[1]
<1>1. Len(p) \in Nat /\ Len(to) \in Nat
  BY PathParts
<1>2. CASE IsPrefix(from, p)
  <2>1. /\ Move(p, from, to) \in Paths /\ IsPrefix(to, Move(p, from, to))
        /\ Move(p, from, to)[1] = to[1] /\ Len(Move(p, from, to)) >= Len(to)
    BY <1>2, MoveFacts
  <2>2. Len(Move(p, from, to)) \in Nat
    BY <2>1, PathParts
  <2> QED BY <1>1, <1>2, <2>1, <2>2 DEF Now
<1>3. CASE ~IsPrefix(from, p)
  BY <1>3 DEF Now
<1> QED BY <1>2, <1>3

(* A directory is renamed, and with it the directories below it. *)
LEMMA Renamed ==
  ASSUME IInv, TreeInv, NEW p \in Paths, NEW q \in Paths,
         Exists(p), Exists(Front(q)), ~Exists(q), ~IsPrefix(p, q), Len(q) > 1,
         tree' = {IF IsPrefix(p, d.path)
                  THEN [d EXCEPT !.path = Move(@, p, q)] ELSE d : d \in tree}
  PROVE  /\ \A d \in tree : \E x \in tree' : x.ino = d.ino /\ x.path = Now(d.path, p, q)
         /\ \A x \in tree' : \E d \in tree : x.ino = d.ino /\ x.path = Now(d.path, p, q)
         /\ \A x \in tree' : x = [ino |-> x.ino, path |-> x.path]
         /\ \A d, e \in tree : Now(d.path, p, q) = Now(e.path, p, q) => d = e
<1> DEFINE new(d) == IF IsPrefix(p, d.path)
                     THEN [d EXCEPT !.path = Move(@, p, q)] ELSE d
<1>1. ASSUME NEW d \in tree
      PROVE  /\ new(d).ino = d.ino /\ new(d).path = Now(d.path, p, q)
             /\ new(d) = [ino |-> new(d).ino, path |-> new(d).path]
  <2>1. d \in [ino : 1..nextIno - 1, path : Paths]
    BY DEF IInv, TypeOK
  <2> QED BY <2>1 DEF Now
<1>2. tree' = {new(d) : d \in tree}
  OBVIOUS
<1> HIDE DEF new
<1>3. ASSUME NEW d \in tree, NEW e \in tree, Now(d.path, p, q) = Now(e.path, p, q)
      PROVE  d = e
  <2>1. d.path \in Paths /\ e.path \in Paths
    BY InoAtPath DEF IInv
  <2>2. ~IsPrefix(q, d.path) /\ ~IsPrefix(q, e.path)
    BY NothingBelow DEF IInv
  <2>3. IsPrefix(p, d.path) <=> IsPrefix(p, e.path)
    BY <1>3, <2>1, <2>2, NowFacts
  <2>4. d.path = e.path
    <3>1. CASE IsPrefix(p, d.path)
      BY <1>3, <2>1, <2>3, <3>1, MoveInjective DEF Now
    <3>2. CASE ~IsPrefix(p, d.path)
      BY <1>3, <2>3, <3>2 DEF Now
    <3> QED BY <3>1, <3>2
  <2> QED BY <2>4 DEF TreeInv
<1>4. \A x \in tree' : x = [ino |-> x.ino, path |-> x.path]
  BY <1>1, <1>2
<1> QED BY <1>1, <1>2, <1>3, <1>4

(* The directories are a tree again after a rename(). *)
LEMMA TreeRenamed ==
  ASSUME IInv, TreeInv, NEW p \in Paths, NEW q \in Paths,
         Exists(p), Exists(Front(q)), ~Exists(q), ~IsPrefix(p, q), Len(q) > 1,
         tree' = {IF IsPrefix(p, d.path)
                  THEN [d EXCEPT !.path = Move(@, p, q)] ELSE d : d \in tree},
         nextIno' = nextIno, NEW j, Underway' = Underway \cup {j},
         j.ino = InoAt(p)
  PROVE  TreeInv'
<1>1. /\ \A d \in tree : \E x \in tree' : x.ino = d.ino /\ x.path = Now(d.path, p, q)
      /\ \A x \in tree' : \E d \in tree : x.ino = d.ino /\ x.path = Now(d.path, p, q)
      /\ \A x \in tree' : x = [ino |-> x.ino, path |-> x.path]
      /\ \A d, e \in tree : Now(d.path, p, q) = Now(e.path, p, q) => d = e
  BY Renamed
<1>2. \A d \in tree : d.path \in Paths /\ d.ino \in 1..nextIno - 1
  BY InoAtPath DEF IInv
<1>3. ASSUME NEW x \in tree', NEW y \in tree', x.ino = y.ino \/ x.path = y.path
      PROVE  x = y
  <2>1. PICK d \in tree : x.ino = d.ino /\ x.path = Now(d.path, p, q)
    BY <1>1
  <2>2. PICK e \in tree : y.ino = e.ino /\ y.path = Now(e.path, p, q)
    BY <1>1
  <2>3. d = e
    BY <1>1, <1>3, <2>1, <2>2 DEF TreeInv
  <2>4. x = [ino |-> x.ino, path |-> x.path] /\ y = [ino |-> y.ino, path |-> y.path]
    BY <1>1
  <2> QED BY <2>1, <2>2, <2>3, <2>4
<1>4. ASSUME NEW x \in tree', Len(x.path) > 1
      PROVE  \E y \in tree' : y.path = Front(x.path)
  <2>1. PICK d \in tree : x.ino = d.ino /\ x.path = Now(d.path, p, q)
    BY <1>1
  <2>2. d.path \in Paths
    BY <1>2
  <2>3. CASE ~IsPrefix(p, d.path)
    <3>1. x.path = d.path
      BY <2>1, <2>3 DEF Now
    <3>2. PICK e \in tree : e.path = Front(d.path)
      BY <1>4, <3>1 DEF TreeInv
    <3>3. ~IsPrefix(p, e.path)
      BY <1>4, <2>2, <2>3, <3>1, <3>2, PrefixFacts
    <3> QED BY <1>1, <3>1, <3>2, <3>3 DEF Now
  <2>4. CASE d.path = p
    <3>1. x.path = q
      BY <2>1, <2>4, MoveFacts, PrefixFacts DEF Now
    <3>2. PICK e \in tree : e.path = Front(q)
      BY FrontParts, PathType DEF Exists
    <3>3. ~IsPrefix(p, e.path)
      BY <3>2, PrefixFacts
    <3> QED BY <1>1, <3>1, <3>2, <3>3 DEF Now
  <2>5. CASE IsPrefix(p, d.path) /\ d.path # p
    <3>1. x.path = Move(d.path, p, q)
      BY <2>1, <2>5 DEF Now
    <3>2. /\ Len(d.path) > 1 /\ IsPrefix(p, Front(d.path))
          /\ Front(x.path) = Move(Front(d.path), p, q)
      BY <2>2, <2>5, <3>1, MoveFacts
    <3>3. PICK e \in tree : e.path = Front(d.path)
      BY <3>2 DEF TreeInv
    <3>4. Now(e.path, p, q) = Front(x.path)
      BY <3>2, <3>3 DEF Now
    <3>5. PICK y \in tree' : y.path = Now(e.path, p, q)
      BY <1>1
    <3> QED BY <3>4, <3>5
  <2> QED BY <2>3, <2>4, <2>5
<1>5. ASSUME NEW i \in Underway'
      PROVE  i.ino < nextIno' /\ \A x \in tree' : x.ino = i.ino => Len(x.path) > 1
  <2>1. CASE i \in Underway
    <3>1. i.ino < nextIno /\ \A d \in tree : d.ino = i.ino => Len(d.path) > 1
      BY <2>1 DEF TreeInv
    <3>2. ASSUME NEW x \in tree', x.ino = i.ino PROVE Len(x.path) > 1
      <4>1. PICK d \in tree : x.ino = d.ino /\ x.path = Now(d.path, p, q)
        BY <1>1
      <4> QED BY <1>2, <3>1, <3>2, <4>1, NowFacts
    <3> QED BY <3>1, <3>2
  <2>2. CASE i = j
    <3>1. PICK d \in tree : d.path = p /\ d.ino = InoAt(p)
      BY TreeType, PathType DEF IInv
    <3>2. i.ino < nextIno
      BY <1>2, <2>2, <3>1 DEF IInv, TypeOK
    <3>3. ASSUME NEW x \in tree', x.ino = i.ino PROVE Len(x.path) > 1
      <4>1. PICK e \in tree : x.ino = e.ino /\ x.path = Now(e.path, p, q)
        BY <1>1
      <4>2. e = d
        BY <2>2, <3>1, <3>3, <4>1 DEF TreeInv
      <4>3. x.path = q
        BY <3>1, <4>1, <4>2, MoveFacts, PrefixFacts DEF Now
      <4> QED BY <4>3
    <3> QED BY <3>2, <3>3
  <2> QED BY <2>1, <2>2
<1> QED BY <1>3, <1>4, <1>5 DEF TreeInv

(* A file system is unmounted. *)
LEMMA TreeUnmounted ==
  ASSUME IInv, TreeInv, NEW r \in RootDirs, Unmount(r)
  PROVE  TreeInv'
<1> DEFINE lost == {d \in tree : d.path[1] = r}
           new == [ino |-> nextIno, path |-> <<r>>]
<1>1. /\ tree' = (tree \ lost) \cup {new} /\ nextIno' = nextIno + 1 /\ job' = job
      /\ new.ino = nextIno /\ new.path = <<r>>
  BY DEF Unmount
<1>2. Underway' = Underway
  BY <1>1 DEF Underway
<1>3. \A d \in tree \ lost : d.path[1] # r /\ d \in tree
  OBVIOUS
<1>4. \A d \in tree : d.path[1] # r => d \in tree \ lost
  OBVIOUS
<1> HIDE DEF lost, new
<1>5. <<r>>[1] = r /\ Len(<<r>>) = 1
  OBVIOUS
<1>6. /\ nextIno \in Nat \ {0}
      /\ \A d \in tree : d.ino \in Nat /\ d.ino < nextIno /\ d.path \in Paths
  BY DEF IInv, TypeOK
<1>7. \A d \in tree \ lost : d.ino # new.ino /\ d.path # new.path
  BY <1>1, <1>3, <1>5, <1>6
<1>8. \A d, e \in tree' : d.ino = e.ino \/ d.path = e.path => d = e
  BY <1>1, <1>7 DEF TreeInv
<1>9. ASSUME NEW d \in tree', Len(d.path) > 1
      PROVE  \E e \in tree' : e.path = Front(d.path)
  <2>1. d \in tree /\ d.path[1] # r
    <3>1. ~(Len(new.path) > 1)
      BY <1>1, <1>5
    <3>2. d # new
      BY <1>9, <3>1, Zenon
    <3> QED BY <1>1, <1>3, <3>2
  <2>2. PICK e \in tree : e.path = Front(d.path)
    BY <1>9, <2>1 DEF TreeInv
  <2>3. e.path[1] # r
    BY <1>6, <1>9, <2>1, <2>2, FrontParts
  <2> QED BY <1>1, <1>4, <2>2, <2>3
<1>10. \A j \in Underway : j.ino \in Nat
  BY UnderwayType DEF Jobs
<1>11. \A j \in Underway' :
        j.ino < nextIno' /\ \A d \in tree' : d.ino = j.ino => Len(d.path) > 1
  BY <1>1, <1>2, <1>3, <1>6, <1>10 DEF TreeInv
<1> QED BY <1>8, <1>9, <1>11 DEF TreeInv

(* The directories there are at the beginning are a tree. *)
LEMMA TreeFirst ==
  ASSUME Init
  PROVE  TreeInv
<1> DEFINE dirs == SetToSeq(FirstDirs)
<1>1. dirs \in Seq(FirstDirs) /\ ToSet(dirs) = FirstDirs
  BY DtreeAssumption, SetToSeqElements
<1>2. IsInjective(dirs) /\ DOMAIN dirs = 1..Len(dirs)
  <2>1. Cardinality(FirstDirs) \in Nat /\ ExistsBijection(1..Cardinality(FirstDirs), FirstDirs)
    BY DtreeAssumption, FS_CardinalityType
  <2>2. \E g \in [1..Cardinality(FirstDirs) -> FirstDirs] : IsInjective(g)
    BY <2>1 DEF ExistsBijection, Bijection, Injection, IsInjective
  <2>3. IsInjective(dirs)
    BY <2>2 DEF SetToSeq
  <2> QED BY <1>1, <2>3
<1>3. tree = {[ino |-> k, path |-> dirs[k]] : k \in DOMAIN dirs}
  BY DEF Init, FirstTree
<1> HIDE DEF dirs
<1>4. \A d, e \in tree : d.ino = e.ino \/ d.path = e.path => d = e
  BY <1>2, <1>3 DEF IsInjective
<1>5. ASSUME NEW p \in FirstDirs PROVE \E d \in tree : d.path = p
  <2>1. PICK k \in DOMAIN dirs : p = dirs[k]
    BY <1>1 DEF ToSet
  <2>2. [ino |-> k, path |-> dirs[k]] \in tree
    BY <1>3
  <2> QED BY <2>1, <2>2
<1>6. \A d \in tree : d.path \in FirstDirs
  BY <1>1, <1>3 DEF ToSet
<1>7. Underway = {}
  BY IdleJob DEF Init, Underway
<1> QED BY <1>4, <1>5, <1>6, <1>7, DtreeAssumption DEF TreeInv

-----------------------------------------------------------------------------
(* The invariant and the state it is about. *)

(* A step that leaves all of that state alone. *)
LEMMA TrackSame ==
  ASSUME TrackInv, UNCHANGED <<tree, nextIno, watches, nextWd, cache,
                               rootDirPaths, walk>>,
         Pending' = Pending, First' = First, Rest' = Rest,
         Underway' = Underway, Sure' => Sure
  PROVE  TrackInv'
<1>1. TreeInv'
  BY TreeSame DEF TrackInv
<1>2. ASSUME Sure' PROVE Rooted' /\ WalkInv' /\ Covered' /\ Phase'
  <2>1. Rooted /\ WalkInv /\ Covered /\ Phase
    BY <1>2 DEF TrackInv
  <2>2. Rooted' /\ WalkInv'
    BY <2>1 DEF Rooted, WalkInv
  <2>3. Covered'
    BY <2>1 DEF Covered, CoveredDir
  <2>4. Phase'
    <3>1. CASE Steady
      BY <3>1 DEF Phase, Steady, Calm, Stale
    <3>2. ASSUME NEW x \in cache, Deleting(x) PROVE Phase'
      <4>1. Deleting(x)'
        BY <3>2 DEF Deleting, Calm, Stale
      <4> QED BY <4>1 DEF Phase
    <3>3. ASSUME NEW x \in cache, NEW t \in tree, Renaming(x, t) PROVE Phase'
      <4>1. Renaming(x, t)'
        BY <3>3 DEF Renaming, Calm, Stale, Moved
      <4> QED BY <4>1 DEF Phase
    <3>4. ASSUME NEW x \in cache, NEW t \in tree, RootMoving(x, t) PROVE Phase'
      <4>1. RootMoving(x, t)'
        BY <3>4 DEF RootMoving, Stale, Moved
      <4> QED BY <4>1 DEF Phase
    <3> QED BY <2>1, <3>1, <3>2, <3>3, <3>4 DEF Phase
  <2> QED BY <2>2, <2>3, <2>4
<1> QED BY <1>1, <1>2 DEF TrackInv

(* A step after which nothing is sure, or that is the end. *)
LEMMA TrackLost ==
  ASSUME TreeInv', raced' \/ pc' \in Ended
  PROVE  TrackInv'
  BY DEF TrackInv, Sure

(* A new inotify instance, an empty cache and the traversal of the root    *)
(* directories.                                                            *)
LEMMA TrackNew ==
  ASSUME TreeInv', watches' = {}, cache' = {}, queue' = <<>>, buf' = <<>>,
         walk' = <<Frame(<<>>, rootDirPaths')>>,
         \A d \in tree' : d.path \in Paths
  PROVE  TrackInv'
<1>1. Pending' = {}
  BY DEF Pending, ToSet
<1>2. ToSet(walk') = {Frame(<<>>, rootDirPaths')}
  BY ToSetSingle
<1>3. LET f == Frame(<<>>, rootDirPaths') IN
      f.path = <<>> /\ f.ino = 0 /\ f.names = rootDirPaths'
  BY DEF Frame
<1>4. Rooted' /\ WalkInv'
  BY <1>2, <1>3 DEF Rooted, WalkInv
<1>5. Covered'
  <2> SUFFICES ASSUME NEW d \in tree', d.path[1] \in rootDirPaths'
               PROVE  CoveredDir(d)'
    BY DEF Covered
  <2>1. VisitedRoot(ToSet(walk'), d.path[1])
    BY <1>2, <1>3 DEF VisitedRoot
  <2>2. \A i : ~Seen(watches', i)
    BY DEF Seen
  <2> QED BY <2>1, <2>2 DEF CoveredDir
<1>6. Phase'
  <2>1. Steady'
    BY <1>1 DEF Steady, Calm
  <2> QED BY <2>1 DEF Phase
<1> QED BY <1>4, <1>5, <1>6 DEF TrackInv

(* The cache, the watches and the tree, when no directory is between two   *)
(* places of the monitored tree.                                           *)
LEMMA Agrees ==
  ASSUME IInv, TreeInv,
         Steady \/ \E x \in cache, t \in tree : RootMoving(x, t)
  PROVE  /\ \A c \in cache, w \in watches, d \in tree :
              w.wd = c.wd /\ d.ino = w.ino /\ d.path[1] \in rootDirPaths
              => d.path = c.path
         /\ \A c \in cache, d \in tree :
              d.path = c.path => \E w \in watches : w.wd = c.wd /\ w.ino = d.ino
         /\ \A c \in cache : \E w \in watches, d \in tree :
              w.wd = c.wd /\ d.ino = w.ino
<1>1. /\ \A v, w \in watches : v.ino = w.ino \/ v.wd = w.wd => v = w
      /\ \A c \in cache : c.path \in Paths
      /\ \A d \in tree : d.path \in Paths
  BY DEF IInv, WatchInv, TypeOK
<1>2. CASE Steady
  BY <1>1, <1>2 DEF Steady, At, TreeInv
<1>3. ASSUME NEW x \in cache, NEW t \in tree, RootMoving(x, t)
      PROVE  \A c \in cache : \E w \in watches, d \in tree :
               /\ w.wd = c.wd /\ d.ino = w.ino
               /\ \/ d.path = c.path
                  \/ /\ d.path[1] \notin rootDirPaths
                     /\ \A e \in tree : e.path # c.path
  <2>1. /\ Len(x.path) = 1 /\ t.path[1] \notin rootDirPaths
        /\ \A d \in tree : d.path[1] # x.path[1]
        /\ \A c \in cache : At(watches, tree, c.wd, Now(c.path, x.path, t.path))
    BY <1>3 DEF RootMoving, Moved
  <2>2. x.path \in Paths /\ t.path \in Paths
    BY <1>1
  <2> SUFFICES ASSUME NEW c \in cache
               PROVE  \E w \in watches, d \in tree :
                        /\ w.wd = c.wd /\ d.ino = w.ino
                        /\ \/ d.path = c.path
                           \/ /\ d.path[1] \notin rootDirPaths
                              /\ \A e \in tree : e.path # c.path
    OBVIOUS
  <2>3. PICK w \in watches, d \in tree :
           w.wd = c.wd /\ d.ino = w.ino /\ d.path = Now(c.path, x.path, t.path)
    BY <2>1 DEF At
  <2>4. CASE IsPrefix(x.path, c.path)
    <3>1. d.path[1] = t.path[1]
      BY <1>1, <2>2, <2>3, <2>4, NowFacts
    <3>2. c.path[1] = x.path[1]
      BY <1>1, <2>2, <2>4, PrefixFacts
    <3> QED BY <2>1, <2>3, <3>1, <3>2
  <2>5. CASE ~IsPrefix(x.path, c.path)
    BY <2>3, <2>5 DEF Now
  <2> QED BY <2>4, <2>5
<1>4. ASSUME NEW x \in cache, NEW t \in tree, RootMoving(x, t)
      PROVE  /\ \A c \in cache, w \in watches, d \in tree :
                  w.wd = c.wd /\ d.ino = w.ino /\ d.path[1] \in rootDirPaths
                  => d.path = c.path
             /\ \A c \in cache, d \in tree :
                  d.path = c.path => \E w \in watches : w.wd = c.wd /\ w.ino = d.ino
             /\ \A c \in cache : \E w \in watches, d \in tree :
                  w.wd = c.wd /\ d.ino = w.ino
  <2>1. \A c \in cache : \E w \in watches, d \in tree :
               /\ w.wd = c.wd /\ d.ino = w.ino
               /\ \/ d.path = c.path
                  \/ /\ d.path[1] \notin rootDirPaths
                     /\ \A e \in tree : e.path # c.path
    BY <1>3, <1>4
  <2> QED BY <1>1, <2>1 DEF TreeInv
<1> QED BY <1>2, <1>4

(* Every watch has its entry. *)
LEMMA EntryOf ==
  ASSUME IInv, NEW w \in watches
  PROVE  \E c \in cache : c.wd = w.wd
  BY DEF IInv, CacheMatchesWatches, Watched

(* When all events are processed the cache has the directories there are. *)
LEMMA SettledExact ==
  ASSUME IInv, TreeInv, Rooted, Covered, Phase, Settled
  PROVE  /\ Steady /\ walk = <<>> /\ Underway = {} /\ Pending = {}
         /\ \A d \in tree : d.path[1] \in rootDirPaths =>
              \E c \in cache, w \in watches :
                 c.path = d.path /\ w.wd = c.wd /\ w.ino = d.ino
         /\ \A w \in watches : \E c \in cache, d \in tree :
              /\ w.wd = c.wd /\ w.ino = d.ino /\ d.path = c.path
              /\ d.path[1] \in rootDirPaths
<1>1. walk = <<>> /\ buf = <<>> /\ queue = <<>>
  BY DEF Settled, IInv, TypeOK
<1>2. Pending = {} /\ ToSet(walk) = {}
  BY <1>1 DEF Pending, ToSet
<1>3. Underway = {}
  BY DEF Settled, Underway
<1>4. Steady
  BY <1>2, <1>3 DEF Phase, Deleting, Renaming, RootMoving
<1>5. \A d \in tree : d.path[1] \in rootDirPaths => Seen(watches, d.ino)
  <2> DEFINE S == {d \in tree : d.path[1] \in rootDirPaths /\ ~Seen(watches, d.ino)}
  <2> SUFFICES ASSUME S # {} PROVE FALSE
    OBVIOUS
  <2>1. PICK d \in S : \A e \in S : Len(d.path) <= Len(e.path)
    BY Shortest DEF IInv
  <2>2. /\ d \in tree /\ d.path[1] \in rootDirPaths /\ ~Seen(watches, d.ino)
        /\ d.path \in Paths /\ Len(d.path) \in Nat /\ Len(d.path) >= 1
    BY InoAtPath, PathParts DEF IInv
  <2>3. CoveredDir(d)
    BY <2>2 DEF Covered
  <2>4. Len(d.path) > 1
    <3>1. Len(d.path) # 1
      BY <1>2, <2>3 DEF CoveredDir, VisitedRoot
    <3>2. \A n \in Nat : n >= 1 /\ n # 1 => n > 1
      OBVIOUS
    <3> QED BY <2>2, <3>1, <3>2, Zenon
  <2>5. PICK e \in tree : e.path = Front(d.path)
    BY <2>2, <2>4 DEF TreeInv
  <2>6. e.path[1] = d.path[1] /\ Len(e.path) = Len(d.path) - 1
    BY <2>2, <2>4, <2>5, FrontParts
  <2>7. Seen(watches, e.ino)
    BY <2>1, <2>2, <2>5, <2>6
  <2> QED BY <1>2, <1>3, <2>3, <2>4, <2>5, <2>7
          DEF CoveredDir, Visited, Announced
<1>6. ASSUME NEW w \in watches
      PROVE  \E c \in cache, d \in tree :
                /\ w.wd = c.wd /\ w.ino = d.ino /\ d.path = c.path
                /\ d.path[1] \in rootDirPaths
  <2>1. PICK c \in cache : c.wd = w.wd
    BY EntryOf
  <2>2. PICK v \in watches, d \in tree :
          v.wd = c.wd /\ d.ino = v.ino /\ d.path = c.path
    BY <1>4 DEF Steady, At
  <2>3. v = w
    BY <2>1, <2>2 DEF IInv, WatchInv
  <2> QED BY <2>1, <2>2, <2>3 DEF Rooted
<1>7. ASSUME NEW d \in tree, d.path[1] \in rootDirPaths
      PROVE  \E c \in cache, w \in watches :
                 c.path = d.path /\ w.wd = c.wd /\ w.ino = d.ino
  <2>1. PICK w \in watches : w.ino = d.ino
    BY <1>5, <1>7 DEF Seen
  <2>2. PICK c \in cache, e \in tree :
          w.wd = c.wd /\ w.ino = e.ino /\ e.path = c.path
    BY <1>6
  <2>3. e = d
    BY <2>1, <2>2 DEF TreeInv
  <2> QED BY <2>1, <2>2, <2>3
<1> QED BY <1>1, <1>2, <1>3, <1>4, <1>6, <1>7

(* So the invariant implies the property. *)
LEMMA TrackInvTracks ==
  ASSUME IInv, TrackInv
  PROVE  TracksChanges
<1> SUFFICES ASSUME Settled, ~raced
             PROVE  {[ino |-> (CHOOSE w \in watches : w.wd = c.wd).ino,
                      path |-> c.path] : c \in cache}
                    = {d \in tree : d.path[1] \in rootDirPaths}
  BY DEF TracksChanges
<1>1. Sure
  <2>1. pc \notin Ended
    BY DEF Settled, Ended
  <2>2. buf = <<>> /\ queue = <<>>
    BY DEF Settled, IInv, TypeOK
  <2> QED BY <2>1, <2>2, PendingParts DEF Sure
<1>2. TreeInv /\ Rooted /\ Covered /\ Phase
  BY <1>1 DEF TrackInv
<1>3. /\ Steady
      /\ \A d \in tree : d.path[1] \in rootDirPaths =>
           \E c \in cache, w \in watches :
              c.path = d.path /\ w.wd = c.wd /\ w.ino = d.ino
  BY <1>2, SettledExact
<1>4. ASSUME NEW c \in cache, NEW w \in watches, w.wd = c.wd
      PROVE  (CHOOSE v \in watches : v.wd = c.wd) = w
  <2>1. (CHOOSE v \in watches : v.wd = c.wd) \in watches
        /\ (CHOOSE v \in watches : v.wd = c.wd).wd = c.wd
    BY <1>4
  <2> QED BY <1>4, <2>1 DEF IInv, WatchInv
<1>5. \A d \in tree : d = [ino |-> d.ino, path |-> d.path]
  BY DEF IInv, TypeOK
<1>6. ASSUME NEW c \in cache
      PROVE  [ino |-> (CHOOSE w \in watches : w.wd = c.wd).ino, path |-> c.path]
               \in {d \in tree : d.path[1] \in rootDirPaths}
  <2>1. PICK w \in watches, d \in tree :
          w.wd = c.wd /\ d.ino = w.ino /\ d.path = c.path
    BY <1>3 DEF Steady, At
  <2>2. (CHOOSE v \in watches : v.wd = c.wd).ino = d.ino
    BY <1>4, <2>1
  <2>3. d.path[1] \in rootDirPaths
    BY <1>2, <2>1 DEF Rooted
  <2> QED BY <1>5, <2>1, <2>2, <2>3
<1>7. ASSUME NEW d \in tree, d.path[1] \in rootDirPaths
      PROVE  \E c \in cache :
        d = [ino |-> (CHOOSE w \in watches : w.wd = c.wd).ino, path |-> c.path]
  <2>1. PICK c \in cache, w \in watches :
          c.path = d.path /\ w.wd = c.wd /\ w.ino = d.ino
    BY <1>3, <1>7
  <2>2. (CHOOSE v \in watches : v.wd = c.wd).ino = d.ino
    BY <1>4, <2>1
  <2> QED BY <1>5, <2>1, <2>2
<1> QED BY <1>6, <1>7

-----------------------------------------------------------------------------
(* The steps of inotify_dtree that read events or start anew. *)

(* Events are read, or the second read() of a pair is waited for. *)
LEMMA TrackRead ==
  ASSUME IInv, TrackInv, ReadEvents \/ SecondRead \/ Hanging \/ Alarm
  PROVE  TrackInv'
<1>1. /\ UNCHANGED <<tree, nextIno, watches, nextWd, cache, rootDirPaths, walk,
                     job, raced>>
      /\ pc \notin Ended
  BY DEF ReadEvents, SecondRead, Hanging, Alarm, fsVars, kernel, mutators, Found,
         Processing, Ended
<1>2. Pending' = Pending /\ First' = First /\ Rest' = Rest
  <2>1. CASE ReadEvents \/ SecondRead
    BY <2>1, PendingRead
  <2>2. CASE Hanging \/ Alarm
    <3>1. UNCHANGED <<buf, queue>>
      BY <2>2 DEF Hanging, Alarm, kernel
    <3> QED BY <3>1 DEF Pending, First, Rest
  <2> QED BY <2>1, <2>2
<1>3. Underway' = Underway
  BY <1>1 DEF Underway
<1>4. Sure' => Sure
  BY <1>1, <1>2 DEF Sure
<1> QED BY <1>1, <1>2, <1>3, <1>4, TrackSame

(* The cache is built anew. *)
LEMMA TrackReinitialized ==
  ASSUME IInv, TrackInv, NEW roots, NEW place, reinitialize(roots, place),
         UNCHANGED <<fsVars, job>>, rootDirPaths' = roots
  PROVE  TrackInv'
<1>1. UNCHANGED <<tree, nextIno>> /\ Underway' = Underway
  BY DEF fsVars, Underway
<1>2. TreeInv'
  BY <1>1, TreeSame DEF TrackInv
<1>3. \A d \in tree' : d.path \in Paths
  BY <1>1, TreeType DEF IInv
<1>4. /\ watches' = {} /\ cache' = {} /\ queue' = <<>> /\ buf' = <<>>
      /\ walk' = <<Frame(<<>>, rootDirPaths')>>
  BY DEF reinitialize
<1> QED BY <1>2, <1>3, <1>4, TrackNew

(* The process ends. *)
LEMMA TrackExited ==
  ASSUME IInv, TrackInv, NEW how \in Ended, Exit(how), UNCHANGED <<fsVars, job>>
  PROVE  TrackInv'
<1>1. UNCHANGED <<tree, nextIno>> /\ Underway' = Underway /\ pc' \in Ended
  BY DEF fsVars, Underway, Exit
<1> QED BY <1>1, TreeSame, TrackLost DEF TrackInv

(* Lost events, a failed findWatchChecked, and the commands that do the    *)
(* same.                                                                   *)
LEMMA TrackAnew ==
  ASSUME IInv, TrackInv,
         CacheProblem \/ QueueOverflow \/ RebuildCache \/ Quit \/ WatchFails
  PROVE  TrackInv'
<1>1. CASE CacheProblem
  <2>1. UNCHANGED <<fsVars, job>>
    BY <1>1 DEF CacheProblem, Processing, mutators
  <2>2. CASE Exit("abort")
    BY <2>1, <2>2, TrackExited DEF Ended
  <2>3. CASE reinitialize(rootDirPaths, "select") /\ UNCHANGED rootDirPaths
    BY <2>1, <2>3, TrackReinitialized
  <2> QED BY <1>1, <2>2, <2>3 DEF CacheProblem
<1>2. CASE QueueOverflow
  BY <1>2, TrackReinitialized DEF QueueOverflow, Processing, mutators
<1>3. CASE RebuildCache
  BY <1>3, TrackReinitialized DEF RebuildCache
<1>4. CASE Quit \/ WatchFails
  BY <1>4, TrackExited DEF Quit, WatchFails, Ended
<1> QED BY <1>1, <1>2, <1>3, <1>4

-----------------------------------------------------------------------------
(* The steps of inotify_dtree for one event. *)

(* An event that tells nothing of a removal or a rename is processed only  *)
(* when no such event is the first one.                                    *)
LEMMA PlainEvent ==
  ASSUME IInv, Phase, pc = "process", ev.mask \notin Structural
  PROVE  Steady \/ \E x \in cache, t \in tree : RootMoving(x, t)
<1>1. First = ev
  BY ProcessFirst
<1> QED BY <1>1 DEF Phase, Deleting, Renaming, Structural

(* One that does, and that is not of an entry that is gone, is of the      *)
(* change that is under way.                                               *)
LEMMA StructuralEvent ==
  ASSUME IInv, Phase, pc = "process", findWatch(ev.wd) # {},
         ev.mask \in Structural
  PROVE  \/ ev.mask = "IN_DELETE_SELF" /\ \E x \in cache : Deleting(x)
         \/ ev.mask = "IN_MOVED_FROM" /\ \E x \in cache, t \in tree : Renaming(x, t)
         \/ /\ ev.mask = "IN_MOVE_SELF"
            /\ \E x \in cache, t \in tree : RootMoving(x, t) /\ ev.wd = x.wd
<1>1. First = ev /\ ev \in Pending
  BY ProcessFirst
<1>2. ~Stale(ev)
  BY DEF Stale, findWatch
<1>3. ~Steady
  BY <1>1, <1>2 DEF Steady, Calm
<1>4. \A x \in cache, t \in tree : RootMoving(x, t) =>
         ev.mask = "IN_MOVE_SELF" /\ ev.wd = x.wd
  BY <1>1, <1>2 DEF RootMoving
<1>5. \A x \in cache : Deleting(x) => ev.mask = "IN_DELETE_SELF"
  BY <1>1 DEF Deleting
<1>6. \A x \in cache, t \in tree : Renaming(x, t) => ev.mask = "IN_MOVED_FROM"
  BY <1>1 DEF Renaming
<1> QED BY <1>3, <1>4, <1>5, <1>6 DEF Phase

(* A plain event is dropped. *)
LEMMA PhaseDropped ==
  ASSUME IInv, pc = "process", ev.mask \notin Structural,
         Steady \/ \E x \in cache, t \in tree : RootMoving(x, t),
         Pending' = Rest, Underway' = Underway,
         UNCHANGED <<tree, watches, nextWd, cache, rootDirPaths>>
  PROVE  Phase'
<1>1. Pending = {ev} \cup Pending'
  BY ProcessFirst
<1>2. CASE Steady
  <2>1. Steady'
    BY <1>1, <1>2 DEF Steady, Calm, Stale
  <2> QED BY <2>1 DEF Phase
<1>3. ASSUME NEW x \in cache, NEW t \in tree, RootMoving(x, t) PROVE Phase'
  <2>1. RootMoving(x, t)'
    BY <1>1, <1>3 DEF RootMoving, Moved, Stale, Structural
  <2> QED BY <2>1 DEF Phase
<1> QED BY <1>2, <1>3

(* IN_IGNORED is skipped. *)
LEMMA TrackIgnored ==
  ASSUME IInv, TrackInv, Ignored
  PROVE  TrackInv'
<1>1. /\ pc = "process" /\ ev.mask = "IN_IGNORED" /\ buf' = Tail(buf)
      /\ UNCHANGED <<tree, nextIno, watches, nextWd, queue, cache, rootDirPaths,
                     walk, job, raced>>
  BY DEF Ignored, Processing, Advance, fsVars, kernel, mutators
<1>2. Pending' = Rest /\ Pending = {ev} \cup Pending' /\ ev # Overflow
  BY <1>1, PendingDropped, ProcessFirst, EventType
<1>3. Underway' = Underway /\ ev.mask \notin Structural
  BY <1>1 DEF Underway, Structural
<1>4. TreeInv'
  BY <1>1, <1>3, TreeSame DEF TrackInv
<1>5. ASSUME Sure' PROVE Rooted' /\ WalkInv' /\ Covered' /\ Phase'
  <2>1. Rooted /\ WalkInv /\ Covered /\ Phase
    BY <1>1, <1>2, <1>5 DEF Sure, TrackInv, Ended
  <2>2. Rooted' /\ WalkInv'
    BY <1>1, <2>1 DEF Rooted, WalkInv
  <2>3. \A i, n : Announced(Pending, watches, Underway, i, n) =>
                  Announced(Pending', watches, Underway, i, n)
    BY <1>1, <1>2 DEF Announced
  <2>4. Covered'
    BY <1>1, <1>3, <2>1, <2>3 DEF Covered, CoveredDir
  <2>5. Phase'
    BY <1>1, <1>2, <1>3, <2>1, PlainEvent, PhaseDropped
  <2> QED BY <2>2, <2>4, <2>5
<1> QED BY <1>4, <1>5 DEF TrackInv

(* The pathname of an entry. *)
LEMMA PathOfEntry ==
  ASSUME IInv, NEW c \in cache
  PROVE  PathOf(c.wd) = c.path
<1>1. (CHOOSE e \in cache : e.wd = c.wd) \in cache
      /\ (CHOOSE e \in cache : e.wd = c.wd).wd = c.wd
  OBVIOUS
<1> QED BY <1>1 DEF PathOf, IInv, CacheMatchesWatches

(* The directory an event tells of is in the cache, or is traversed. *)
LEMMA TrackCreated ==
  ASSUME IInv, TrackInv, Created
  PROVE  TrackInv'
<1> DEFINE fullPath == Append(PathOf(ev.wd), ev.name)
<1>1. /\ pc = "process" /\ ev.mask \in {"IN_CREATE", "IN_MOVED_TO"}
      /\ findWatch(ev.wd) # {} /\ buf' = Tail(buf)
      /\ UNCHANGED <<tree, nextIno, watches, nextWd, queue, cache, rootDirPaths,
                     job, raced>>
      /\ \/ pathnameInCache(fullPath) /\ walk' = walk
         \/ /\ ~pathnameInCache(fullPath)
            /\ walk' = <<Frame(Front(fullPath), {Last(fullPath)})>>
  BY DEF Created, Found, Processing, Advance, watchSubtree, fsVars, kernel, mutators
<1>2. Pending' = Rest /\ Pending = {ev} \cup Pending' /\ ev # Overflow
      /\ walk = <<>> /\ ev \in Events
  BY <1>1, PendingDropped, ProcessFirst, EventType
<1>3. Underway' = Underway /\ ev.mask \notin Structural
  BY <1>1 DEF Underway, Structural
<1>4. TreeInv /\ TreeInv'
  BY <1>1, <1>3, TreeSame DEF TrackInv
<1>5. PICK c \in cache : c.wd = ev.wd
  BY <1>1 DEF findWatch
<1>6. c.path \in Paths /\ ev.name \in Names /\ PathOf(ev.wd) = c.path
  BY <1>1, <1>2, <1>5, EventName, PathOfEntry DEF IInv, TypeOK, NamedMasks
<1>7. /\ fullPath \in Paths /\ Front(fullPath) = c.path /\ Last(fullPath) = ev.name
      /\ fullPath[1] = c.path[1] /\ Len(fullPath) > 1
  BY <1>6, AppendParts
<1>8. ASSUME Sure' PROVE Rooted' /\ WalkInv' /\ Covered' /\ Phase'
  <2>1. Rooted /\ WalkInv /\ Covered /\ Phase
    BY <1>1, <1>2, <1>8 DEF Sure, TrackInv, Ended
  <2>2. Rooted'
    BY <1>1, <2>1 DEF Rooted
  <2> DEFINE f == Frame(Front(fullPath), {Last(fullPath)})
  <2>3. f.path = c.path /\ f.ino = 0 /\ f.names = {ev.name} /\ c.path # <<>>
    BY <1>6, <1>7, PathType DEF Frame
  <2>4. walk' = <<f>> => ToSet(walk') = {f}
    BY ToSetSingle
  <2>5. walk' = walk => ToSet(walk') = {}
    BY <1>2 DEF ToSet
  <2> HIDE DEF f, fullPath
  <2>6. WalkInv'
    BY <1>1, <2>1, <2>3, <2>4, <2>5 DEF WalkInv, Rooted, f
  <2>7. Steady \/ \E x \in cache, t \in tree : RootMoving(x, t)
    BY <1>1, <1>3, <2>1, PlainEvent
  <2>8. Phase'
    BY <1>1, <1>2, <1>3, <2>7, PhaseDropped
  <2>9. ToSet(walk) = {}
    BY <1>2 DEF ToSet
  <2>10. /\ \A b \in cache, w \in watches, d \in tree :
              w.wd = b.wd /\ d.ino = w.ino /\ d.path[1] \in rootDirPaths
              => d.path = b.path
         /\ \A b \in cache, d \in tree :
              d.path = b.path => \E w \in watches : w.wd = b.wd /\ w.ino = d.ino
    BY <1>4, <2>7, Agrees
  <2>11. ASSUME NEW d \in tree, d.path[1] \in rootDirPaths, ~Seen(watches, d.ino)
         PROVE  CoveredDir(d)'
    <3>1. CoveredDir(d) /\ d.path \in Paths
      BY <2>1, <2>11, InoAtPath, <1>4 DEF Covered, IInv
    <3>2. Len(d.path) # 1
      BY <2>9, <3>1 DEF CoveredDir, VisitedRoot
    <3>3. ASSUME NEW e \in tree, Len(d.path) > 1, e.path = Front(d.path),
                 Seen(watches, e.ino)
          PROVE  \/ Visited(ToSet(walk'), e, Last(d.path))
                 \/ Announced(Pending', watches, Underway, e.ino, Last(d.path))
      <4>1. Announced(Pending, watches, Underway, e.ino, Last(d.path))
        BY <2>9, <3>1, <3>3 DEF CoveredDir, Visited
      <4>2. CASE Announced(Pending', watches, Underway, e.ino, Last(d.path))
        BY <4>2
      <4>3. CASE ~Announced(Pending', watches, Underway, e.ino, Last(d.path))
        <5>1. PICK w \in watches : /\ ev.name = Last(d.path) /\ w.wd = ev.wd
                                   /\ w.ino = e.ino
          BY <1>2, <4>1, <4>3 DEF Announced
        <5>2. e.path[1] \in rootDirPaths
          BY <2>11, <3>1, <3>3, FrontParts
        <5>3. e.path = c.path
          BY <1>5, <2>10, <5>1, <5>2
        <5>4. d.path = fullPath
          BY <1>7, <3>1, <3>3, <5>1, <5>3, FrontLastEqual
        <5>5. ~pathnameInCache(fullPath)
          BY <2>10, <2>11, <5>4 DEF pathnameInCache, Seen
        <5>6. ToSet(walk') = {f}
          BY <1>1, <2>4, <5>5 DEF f
        <5> QED BY <2>3, <5>1, <5>3, <5>6 DEF Visited
      <4> QED BY <4>2, <4>3
    <3> QED BY <1>1, <1>3, <3>2, <3>3 DEF CoveredDir
  <2>12. Covered'
    BY <1>1, <2>11 DEF Covered
  <2> QED BY <2>2, <2>6, <2>8, <2>12
<1> QED BY <1>4, <1>8 DEF TrackInv

(* The entry of a removed directory is dropped. *)
LEMMA TrackDeleted ==
  ASSUME IInv, TrackInv, DeleteSelf
  PROVE  TrackInv'
<1> DEFINE p == PathOf(ev.wd)
<1>1. /\ pc = "process" /\ ev.mask = "IN_DELETE_SELF" /\ findWatch(ev.wd) # {}
      /\ UNCHANGED <<fsVars, job, raced>>
  BY DEF DeleteSelf, Found, Processing, mutators
<1>2. CASE isRootDirPath(p) /\ LastRoot(p)
  BY <1>1, <1>2, TrackExited DEF DeleteSelf, Ended
<1>3. CASE ~(isRootDirPath(p) /\ LastRoot(p))
  <2>1. /\ rootDirPaths' = IF isRootDirPath(p) THEN rootDirPaths \ {p[1]}
                           ELSE rootDirPaths
        /\ cache' = cache \ findWatch(ev.wd) /\ buf' = Tail(buf)
        /\ UNCHANGED <<tree, nextIno, watches, nextWd, queue, walk>>
    BY <1>1, <1>3 DEF DeleteSelf, Advance, kernel, fsVars
  <2>2. /\ Pending' = Rest /\ Pending = {ev} \cup Pending' /\ ev # Overflow
        /\ walk = <<>> /\ First = ev
    BY <1>1, <2>1, PendingDropped, ProcessFirst, EventType
  <2>3. Underway' = Underway /\ ev.mask \in Structural
    BY <1>1 DEF Underway, Structural
  <2>4. TreeInv /\ TreeInv'
    BY <2>1, <2>3, TreeSame DEF TrackInv
  <2>5. ASSUME Sure' PROVE Rooted' /\ WalkInv' /\ Covered' /\ Phase'
    <3>1. Rooted /\ WalkInv /\ Covered /\ Phase
      BY <1>1, <2>2, <2>5 DEF Sure, TrackInv, Ended
    <3>2. PICK x \in cache : Deleting(x)
      BY <1>1, <2>3, <3>1, StructuralEvent
    <3>3. /\ Calm(Rest) /\ ev.wd = x.wd
          /\ \A c \in cache \ {x} : At(watches, tree, c.wd, c.path)
          /\ Len(x.path) = 1 => \A d \in tree : d.path[1] # x.path[1]
      BY <2>2, <3>2 DEF Deleting
    <3>4. findWatch(ev.wd) = {x}
      BY <3>3 DEF findWatch, IInv, CacheMatchesWatches
    <3>5. p = x.path
      BY <3>3, PathOfEntry
    <3>6. cache' = cache \ {x} /\ rootDirPaths' \subseteq rootDirPaths
      BY <2>1, <3>4
    <3>7. ASSUME NEW c \in cache' PROVE c.path[1] \in rootDirPaths'
      <4>1. c.path[1] \in rootDirPaths /\ c \in cache \ {x}
        BY <3>1, <3>6 DEF Rooted
      <4>2. CASE isRootDirPath(p)
        <5>1. PICK d \in tree : d.path = c.path
          BY <3>3, <4>1 DEF At
        <5>2. c.path[1] # x.path[1]
          BY <3>3, <3>5, <4>2, <5>1 DEF isRootDirPath
        <5> QED BY <2>1, <3>5, <4>1, <4>2, <5>2
      <4>3. CASE ~isRootDirPath(p)
        BY <2>1, <4>1, <4>3
      <4> QED BY <4>2, <4>3
    <3>8. Rooted'
      BY <2>1, <3>1, <3>6, <3>7 DEF Rooted
    <3>9. ToSet(walk) = {}
      BY <2>2 DEF ToSet
    <3>10. WalkInv'
      BY <2>1, <3>9 DEF WalkInv
    <3>11. \A i, n : Announced(Pending, watches, Underway, i, n) =>
                     Announced(Pending', watches, Underway, i, n)
      BY <1>1, <2>2 DEF Announced
    <3>12. Covered'
      BY <2>1, <2>3, <3>1, <3>6, <3>11 DEF Covered, CoveredDir
    <3>13. Steady'
      BY <2>1, <2>2, <3>3, <3>6 DEF Steady, Calm, Stale
    <3> QED BY <3>8, <3>10, <3>12, <3>13 DEF Phase
  <2> QED BY <2>4, <2>5 DEF TrackInv
<1> QED BY <1>2, <1>3

(* IN_UNMOUNT is processed only after a removal that was not waited for. *)
LEMMA TrackUnmounted ==
  ASSUME IInv, TrackInv, Unmounted
  PROVE  TrackInv'
<1>1. /\ pc = "process" /\ ev.mask = "IN_UNMOUNT" /\ findWatch(ev.wd) # {}
      /\ UNCHANGED <<tree, nextIno, job, raced>> /\ buf' = Tail(buf)
      /\ queue' = queue
  BY DEF Unmounted, Found, Processing, mutators, fsVars, Advance, kernel
<1>2. TreeInv'
  BY <1>1, TreeSame DEF TrackInv, Underway
<1>3. Pending = {ev} \cup Pending' /\ ev # Overflow
  BY <1>1, PendingDropped, ProcessFirst, EventType
<1>4. ~Sure
  <2>1. ~Phase
    BY <1>1, StructuralEvent DEF Structural
  <2> QED BY <2>1 DEF TrackInv
<1>5. ~Sure'
  BY <1>1, <1>3, <1>4 DEF Sure, Ended
<1> QED BY <1>2, <1>5 DEF TrackInv

(* What zapSubtree() does to the cache, the watches and the queue. *)
LEMMA ZapFacts ==
  ASSUME IInv, NEW entries \in SUBSET cache, ZapEntries(entries)
  PROVE  /\ cache' = cache \ entries /\ nextWd' = nextWd
         /\ watches' \subseteq watches
         /\ \A w \in watches : w \in watches' <=> \A c \in entries : c.wd # w.wd
         /\ ToSet(queue) \subseteq ToSet(queue')
         /\ \A e \in ToSet(queue') : \/ e \in ToSet(queue)
                                     \/ e.mask = "IN_IGNORED"
                                     \/ e = Overflow
<1> DEFINE events == SetToSeq({Event(c.wd, "IN_IGNORED", "", 0) : c \in entries})
<1>1. /\ cache' = cache \ entries
      /\ watches' = {w \in watches : w.wd \notin {c.wd : c \in entries}}
      /\ queue' = Notify(queue, events)
      /\ nextWd' = nextWd
  BY DEF ZapEntries
<1>2. events \in Seq(Events) /\ \A e \in ToSet(events) : e.mask = "IN_IGNORED"
  <2>1. IsFiniteSet(entries) /\ \A c \in entries : c.wd \in Nat
    BY FS_Subset DEF IInv, WatchInv, TypeOK
  <2> QED BY <2>1, RemovedEvents
<1> HIDE DEF events
<1>3. /\ ToSet(queue) \subseteq ToSet(queue')
      /\ ToSet(queue') \subseteq ToSet(queue) \cup ToSet(events) \cup {Overflow}
  BY <1>1, <1>2, QueueType
<1> QED BY <1>1, <1>2, <1>3

(* Entries that are left keep their watches. *)
LEMMA ZapKeeps ==
  ASSUME IInv, NEW entries \in SUBSET cache, ZapEntries(entries), NEW p,
         NEW c \in cache \ entries, At(watches, tree, c.wd, p), tree' = tree
  PROVE  At(watches', tree', c.wd, p)
<1>1. PICK w \in watches, d \in tree : w.wd = c.wd /\ d.ino = w.ino /\ d.path = p
  BY DEF At
<1>2. \A b \in entries : b.wd # w.wd
  BY <1>1 DEF IInv, CacheMatchesWatches
<1>3. w \in watches'
  BY <1>2, ZapFacts
<1> QED BY <1>1, <1>3 DEF At

(* What was announced in a directory that is still watched still is. *)
LEMMA ZapAnnounced ==
  ASSUME IInv, watches' \subseteq watches, Underway' = Underway, NEW i, NEW n,
         \A e \in Pending : e.mask \in {"IN_CREATE", "IN_MOVED_TO"} => e \in Pending',
         Seen(watches', i), Announced(Pending, watches, Underway, i, n)
  PROVE  Announced(Pending', watches', Underway', i, n)
<1>1. PICK w \in watches' : w.ino = i
  BY DEF Seen
<1>2. \A v \in watches : v.ino = i => v = w
  BY <1>1 DEF IInv, WatchInv
<1> QED BY <1>1, <1>2 DEF Announced

(* IN_MOVED_FROM alone: the subtree leaves the cache, and is found again   *)
(* where it is if that is monitored.                                       *)
LEMMA TrackMovedOut ==
  ASSUME IInv, TrackInv, MovedOut
  PROVE  TrackInv'
<1> DEFINE p == Append(PathOf(ev.wd), ev.name)
<1>1. /\ pc = "process" /\ ev.mask = "IN_MOVED_FROM" /\ findWatch(ev.wd) # {}
      /\ UNCHANGED <<fsVars, job, rootDirPaths>>
      /\ UNCHANGED <<tree, nextIno>>
      /\ zapSubtree(p, rootDirPaths, Tail(buf))
  BY DEF MovedOut, Found, Processing, mutators, fsVars
<1>2. CASE ~CanZap(p)
  BY <1>1, <1>2, TrackReinitialized DEF zapSubtree
<1>3. CASE CanZap(p)
  <2>1. /\ ZapEntries(CachedUnder(p)) /\ buf' = Tail(buf)
        /\ UNCHANGED <<walk, raced>>
    BY <1>1, <1>3 DEF zapSubtree, Advance
  <2>2. CachedUnder(p) \in SUBSET cache
    BY DEF CachedUnder
  <2>3. /\ cache' = cache \ CachedUnder(p) /\ nextWd' = nextWd
        /\ watches' \subseteq watches
        /\ \A w \in watches : w \in watches' <=>
              \A c \in CachedUnder(p) : c.wd # w.wd
        /\ ToSet(queue) \subseteq ToSet(queue')
        /\ \A e \in ToSet(queue') : \/ e \in ToSet(queue)
                                    \/ e.mask = "IN_IGNORED"
                                    \/ e = Overflow
    BY <2>1, <2>2, ZapFacts
  <2>4. /\ Pending = {ev} \cup Rest /\ Rest \subseteq Pending' /\ ev # Overflow
        /\ \A e \in Pending' : e \in Rest \/ e.mask = "IN_IGNORED" \/ e = Overflow
        /\ First = ev /\ walk = <<>>
    BY <1>1, <2>1, <2>3, ProcessFirst, EventType DEF Pending
  <2>5. Underway' = Underway
    BY <1>1 DEF Underway
  <2>6. TreeInv /\ TreeInv'
    BY <1>1, <2>5, TreeSame DEF TrackInv
  <2>7. ASSUME Sure' PROVE Rooted' /\ WalkInv' /\ Covered' /\ Phase'
    <3>1. Sure
      BY <1>1, <2>1, <2>4, <2>7 DEF Sure, Ended
    <3>2. Rooted /\ WalkInv /\ Covered /\ Phase
      BY <3>1 DEF TrackInv
    <3>3. PICK x \in cache, t \in tree : Renaming(x, t)
      BY <1>1, <3>2, StructuralEvent DEF Structural
    <3> DEFINE from == x.path
               to == t.path
    <3>4. /\ Calm(Rest) /\ Len(from) > 1 /\ Len(to) > 1 /\ ~IsPrefix(from, to)
          /\ \A c \in cache : At(watches, tree, c.wd, Now(c.path, from, to))
          /\ \E c \in cache : c.wd = ev.wd /\ Append(c.path, ev.name) = from
          /\ \A c \in cache : ~IsPrefix(to, c.path)
          /\ \A e \in tree : e.path = Front(to) /\ Seen(watches, e.ino) =>
                Announced(Pending, watches, Underway, e.ino, Last(to))
      BY <2>4, <3>3 DEF Renaming, Moved
    <3>5. p = from
      BY <3>4, PathOfEntry
    <3>6. from \in Paths /\ to \in Paths /\ \A c \in cache : c.path \in Paths
      BY DEF IInv, TypeOK
    <3> HIDE DEF from, to, p
    <3>7. ASSUME NEW c \in cache' PROVE At(watches', tree', c.wd, c.path)
      <4>1. c \in cache \ CachedUnder(p) /\ ~IsPrefix(from, c.path)
        BY <2>3, <3>5 DEF CachedUnder
      <4>2. At(watches, tree, c.wd, c.path)
        BY <3>4, <4>1 DEF Now
      <4> QED BY <1>1, <2>1, <2>2, <4>1, <4>2, ZapKeeps
    <3>8. Steady'
      <4>1. Calm(Pending)'
        BY <2>3, <2>4, <3>4, EventType DEF Calm, Stale, Structural
      <4> QED BY <3>7, <4>1 DEF Steady
    <3>9. Rooted'
      BY <1>1, <2>3, <3>2 DEF Rooted
    <3>10. WalkInv'
      BY <1>1, <2>1, <3>2 DEF WalkInv
    <3>11. ASSUME NEW e \in tree, Seen(watches', e.ino)
           PROVE  /\ Seen(watches, e.ino)
                  /\ \A n : Announced(Pending, watches, Underway, e.ino, n) =>
                            Announced(Pending', watches', Underway', e.ino, n)
      <4>1. Seen(watches, e.ino)
        BY <2>3, <3>11 DEF Seen
      <4>2. \A b \in Pending : b.mask \in {"IN_CREATE", "IN_MOVED_TO"} => b \in Pending'
        BY <1>1, <2>4
      <4> QED BY <2>3, <2>5, <3>11, <4>1, <4>2, ZapAnnounced
    <3>12. ASSUME NEW d \in tree, d.path[1] \in rootDirPaths,
                  ~Seen(watches', d.ino), Seen(watches, d.ino)
           PROVE  /\ Len(d.path) > 1
                  /\ \A e \in tree :
                       e.path = Front(d.path) /\ Seen(watches', e.ino) =>
                         Announced(Pending, watches, Underway, e.ino, Last(d.path))
      <4>1. PICK w \in watches : w.ino = d.ino /\ w \notin watches'
        BY <3>12 DEF Seen
      <4>2. PICK c \in CachedUnder(p) : c.wd = w.wd
        BY <2>3, <4>1
      <4>3. c \in cache /\ IsPrefix(from, c.path) /\ c.path \in Paths
        BY <3>5, <3>6, <4>2 DEF CachedUnder
      <4>4. PICK v \in watches, f \in tree : v.wd = c.wd /\ f.ino = v.ino
                                     /\ f.path = Now(c.path, from, to)
        BY <3>4, <4>3 DEF At
      <4>5. v = w
        BY <4>2, <4>4 DEF IInv, WatchInv
      <4>6. f = d
        BY <2>6, <4>1, <4>4, <4>5 DEF TreeInv
      <4>7. d.path = Move(c.path, from, to)
        BY <4>3, <4>4, <4>6 DEF Now
      <4>8. CASE c.path = from
        <5>1. d.path = to
          BY <3>6, <4>3, <4>7, <4>8, MoveFacts
        <5> QED BY <3>4, <3>11, <5>1
      <4>9. CASE c.path # from
        <5>1. /\ Len(c.path) > 1 /\ IsPrefix(from, Front(c.path))
              /\ Len(d.path) > 1
              /\ Front(d.path) = Move(Front(c.path), from, to)
          BY <3>6, <4>3, <4>7, <4>9, MoveFacts
        <5>2. IsPrefix(to, Front(d.path))
          BY <3>6, <4>3, <5>1, MoveFacts, FrontParts
        <5>3. ASSUME NEW e \in tree, e.path = Front(d.path), Seen(watches', e.ino)
              PROVE  FALSE
          <6>1. PICK u \in watches' : u.ino = e.ino
            BY <5>3 DEF Seen
          <6>2. PICK b \in cache : b.wd = u.wd
            BY <2>3, <6>1, EntryOf
          <6>3. b \in cache'
            BY <2>3, <6>1, <6>2
          <6>4. PICK y \in watches', g \in tree' :
                  y.wd = b.wd /\ g.ino = y.ino /\ g.path = b.path
            BY <3>7, <6>3 DEF At
          <6>5. y = u
            BY <2>3, <6>1, <6>2, <6>4 DEF IInv, WatchInv
          <6>6. g = e
            BY <1>1, <2>6, <6>1, <6>4, <6>5 DEF TreeInv
          <6> QED BY <3>4, <5>2, <5>3, <6>2, <6>4, <6>6
        <5> QED BY <5>1, <5>3
      <4> QED BY <4>8, <4>9
    <3>13. ASSUME NEW d \in tree, d.path[1] \in rootDirPaths, ~Seen(watches', d.ino)
           PROVE  CoveredDir(d)'
      <4>1. CASE Seen(watches, d.ino)
        <5>1. /\ Len(d.path) > 1
              /\ \A e \in tree :
                   e.path = Front(d.path) /\ Seen(watches', e.ino) =>
                     Announced(Pending, watches, Underway, e.ino, Last(d.path))
          BY <3>12, <3>13, <4>1
        <5>2. Len(d.path) # 1
          <6>1. \A n : n > 1 => n # 1
            OBVIOUS
          <6> QED BY <5>1, <6>1
        <5> QED BY <1>1, <3>11, <5>1, <5>2 DEF CoveredDir
      <4>2. CASE ~Seen(watches, d.ino)
        <5>1. CoveredDir(d)
          BY <3>2, <3>13, <4>2 DEF Covered
        <5> QED BY <1>1, <2>1, <3>11, <5>1 DEF CoveredDir
      <4> QED BY <4>1, <4>2
    <3>14. Covered'
      BY <1>1, <3>13 DEF Covered
    <3> QED BY <3>8, <3>9, <3>10, <3>14 DEF Phase
  <2> QED BY <2>6, <2>7 DEF TrackInv
<1> QED BY <1>2, <1>3

(* A root directory that was moved away leaves the cache. *)
LEMMA TrackMoveSelf ==
  ASSUME IInv, TrackInv, MoveSelf
  PROVE  TrackInv'
<1> DEFINE p == PathOf(ev.wd)
<1>1. /\ pc = "process" /\ ev.mask = "IN_MOVE_SELF" /\ findWatch(ev.wd) # {}
      /\ UNCHANGED <<fsVars, job>>
      /\ UNCHANGED <<tree, nextIno>>
  BY DEF MoveSelf, Found, Processing, mutators, fsVars
<1>2. Underway' = Underway
  BY <1>1 DEF Underway
<1>3. TreeInv /\ TreeInv'
  BY <1>1, <1>2, TreeSame DEF TrackInv
<1>4. CASE ~Sure /\ ~isRootDirPath(p)
  <2>1. /\ buf' = Tail(buf) /\ queue' = queue /\ raced' = raced
    BY <1>1, <1>4 DEF MoveSelf, Advance, kernel
  <2>2. Pending = {ev} \cup Pending' /\ ev # Overflow
    BY <1>1, <2>1, PendingDropped, ProcessFirst, EventType
  <2>3. ~Sure'
    BY <1>1, <1>4, <2>1, <2>2 DEF Sure, Ended
  <2> QED BY <1>3, <2>3 DEF TrackInv
<1>5. CASE isRootDirPath(p) /\ LastRoot(p)
  BY <1>1, <1>5, TrackExited DEF MoveSelf, Ended
<1>6. CASE isRootDirPath(p) /\ ~LastRoot(p) /\ ~CanZap(p)
  <2>1. /\ rootDirPaths' = rootDirPaths \ {p[1]}
        /\ zapSubtree(p, rootDirPaths', Tail(buf))
    BY <1>6 DEF MoveSelf
  <2> QED BY <1>1, <1>6, <2>1, TrackReinitialized DEF zapSubtree
<1>7. CASE isRootDirPath(p) /\ ~LastRoot(p) /\ CanZap(p)
  <2>1. /\ rootDirPaths' = rootDirPaths \ {p[1]}
        /\ ZapEntries(CachedUnder(p)) /\ buf' = Tail(buf)
        /\ UNCHANGED <<walk, raced>>
    BY <1>7 DEF MoveSelf, zapSubtree, Advance
  <2>2. CachedUnder(p) \in SUBSET cache
    BY DEF CachedUnder
  <2>3. /\ cache' = cache \ CachedUnder(p) /\ nextWd' = nextWd
        /\ watches' \subseteq watches
        /\ \A w \in watches : w \in watches' <=>
              \A c \in CachedUnder(p) : c.wd # w.wd
        /\ ToSet(queue) \subseteq ToSet(queue')
        /\ \A e \in ToSet(queue') : \/ e \in ToSet(queue)
                                    \/ e.mask = "IN_IGNORED"
                                    \/ e = Overflow
    BY <2>1, <2>2, ZapFacts
  <2>4. /\ Pending = {ev} \cup Rest /\ Rest \subseteq Pending' /\ ev # Overflow
        /\ \A e \in Pending' : e \in Rest \/ e.mask = "IN_IGNORED" \/ e = Overflow
        /\ walk = <<>>
    BY <1>1, <2>1, <2>3, ProcessFirst, EventType DEF Pending
  <2>5. ASSUME Sure' PROVE Rooted' /\ WalkInv' /\ Covered' /\ Phase'
    <3>1. Sure
      BY <1>1, <2>1, <2>4, <2>5 DEF Sure, Ended
    <3>2. Rooted /\ WalkInv /\ Covered /\ Phase
      BY <3>1 DEF TrackInv
    <3>3. PICK x \in cache, t \in tree : RootMoving(x, t) /\ ev.wd = x.wd
      BY <1>1, <3>2, StructuralEvent DEF Structural
    <3>4. /\ Len(x.path) = 1 /\ t.path[1] \notin rootDirPaths
          /\ \A c \in cache : At(watches, tree, c.wd, Now(c.path, x.path, t.path))
          /\ \A e \in Pending : e.mask \in Structural =>
                Stale(e) \/ (e.mask = "IN_MOVE_SELF" /\ e.wd = x.wd)
      BY <3>3 DEF RootMoving, Moved
    <3>5. p = x.path
      BY <3>3, PathOfEntry
    <3>6. x.path \in Paths /\ t.path \in Paths /\ \A c \in cache : c.path \in Paths
      BY DEF IInv, TypeOK
    <3> HIDE DEF p
    <3>7. ASSUME NEW c \in cache'
          PROVE  /\ At(watches', tree', c.wd, c.path)
                 /\ c.path[1] \in rootDirPaths' /\ c \in cache /\ c.wd # x.wd
      <4>1. c \in cache \ CachedUnder(p) /\ ~IsPrefix(x.path, c.path)
        BY <2>3, <3>5 DEF CachedUnder
      <4>2. At(watches, tree, c.wd, c.path)
        BY <3>4, <4>1 DEF Now
      <4>3. At(watches', tree', c.wd, c.path)
        BY <1>1, <2>1, <2>2, <4>1, <4>2, ZapKeeps
      <4>4. c.path[1] # x.path[1] /\ c.path[1] \in rootDirPaths
        BY <3>2, <3>4, <3>6, <4>1, PrefixFacts DEF Rooted
      <4>5. c.wd # x.wd
        <5>1. c # x
          BY <3>6, <4>1, PrefixFacts
        <5> QED BY <4>1, <5>1 DEF IInv, CacheMatchesWatches
      <4> QED BY <2>1, <3>5, <4>1, <4>3, <4>4, <4>5
    <3>8. Steady'
      <4>1. ASSUME NEW e \in Pending', e.mask \in Structural PROVE Stale(e)'
        <5>1. e \in Pending
          BY <2>4, <4>1, EventType DEF Structural
        <5>2. CASE Stale(e)
          BY <2>3, <3>7, <5>2 DEF Stale
        <5>3. CASE e.wd = x.wd
          BY <2>3, <3>7, <5>3 DEF Stale, IInv, TypeOK
        <5> QED BY <3>4, <4>1, <5>1, <5>2, <5>3
      <4> QED BY <3>7, <4>1 DEF Steady, Calm
    <3>9. Rooted'
      BY <2>3, <3>2, <3>7 DEF Rooted
    <3>10. WalkInv'
      <4>1. ToSet(walk') = {}
        BY <2>1, <2>4 DEF ToSet
      <4> QED BY <4>1 DEF WalkInv
    <3>11. ASSUME NEW e \in tree, Seen(watches', e.ino)
           PROVE  /\ Seen(watches, e.ino)
                  /\ \A n : Announced(Pending, watches, Underway, e.ino, n) =>
                            Announced(Pending', watches', Underway', e.ino, n)
      <4>1. Seen(watches, e.ino)
        BY <2>3, <3>11 DEF Seen
      <4>2. \A b \in Pending : b.mask \in {"IN_CREATE", "IN_MOVED_TO"} => b \in Pending'
        BY <1>1, <2>4
      <4> QED BY <1>2, <2>3, <3>11, <4>1, <4>2, ZapAnnounced
    <3>12. ASSUME NEW d \in tree, d.path[1] \in rootDirPaths', ~Seen(watches', d.ino)
           PROVE  CoveredDir(d)'
      <4>1. d.path[1] \in rootDirPaths
        BY <2>1, <3>12
      <4>2. ~Seen(watches, d.ino)
        <5> SUFFICES ASSUME Seen(watches, d.ino) PROVE FALSE
          OBVIOUS
        <5>1. PICK w \in watches : w.ino = d.ino /\ w \notin watches'
          BY <3>12 DEF Seen
        <5>2. PICK c \in CachedUnder(p) : c.wd = w.wd
          BY <2>3, <5>1
        <5>3. c \in cache /\ IsPrefix(x.path, c.path) /\ c.path \in Paths
          BY <3>5, <3>6, <5>2 DEF CachedUnder
        <5>4. PICK v \in watches, f \in tree : v.wd = c.wd /\ f.ino = v.ino
                                   /\ f.path = Now(c.path, x.path, t.path)
          BY <3>4, <5>3 DEF At
        <5>5. v = w
          BY <5>2, <5>4 DEF IInv, WatchInv
        <5>6. f = d
          BY <1>3, <5>1, <5>4, <5>5 DEF TreeInv
        <5> QED BY <3>4, <3>6, <4>1, <5>3, <5>4, <5>6, NowFacts
      <4>3. CoveredDir(d)
        BY <3>2, <4>1, <4>2 DEF Covered
      <4> QED BY <1>1, <2>1, <3>11, <4>3 DEF CoveredDir
    <3>13. Covered'
      BY <1>1, <3>12 DEF Covered
    <3> QED BY <3>8, <3>9, <3>10, <3>13 DEF Phase
  <2> QED BY <1>3, <2>5 DEF TrackInv
<1>8. CASE Sure /\ ~isRootDirPath(p)
  <2>1. PICK x \in cache, t \in tree : RootMoving(x, t) /\ ev.wd = x.wd
    BY <1>1, <1>8, StructuralEvent DEF Structural, TrackInv
  <2>2. isRootDirPath(x.path)
    BY <1>8, <2>1 DEF RootMoving, TrackInv, Rooted, isRootDirPath
  <2> QED BY <1>8, <2>1, <2>2, PathOfEntry
<1> QED BY <1>4, <1>5, <1>6, <1>7, <1>8

(* The second event of the read buffer. *)
LEMMA SecondEvent ==
  ASSUME IInv, pc = "process", Len(buf) > 1
  PROVE  /\ buf[2] \in Events
         /\ ToSet(Tail(buf)) = {buf[2]} \cup ToSet(SubSeq(buf, 3, Len(buf)))
<1>1. buf \in Seq(Events) /\ Tail(buf) \in Seq(Events) /\ Len(buf) \in Nat
  BY FirstEvent
<1>2. buf[2] \in Events
  BY <1>1
<1>3. Tail(buf) = SubSeq(buf, 2, Len(buf)) /\ Tail(buf) # <<>>
  <2>1. buf # <<>>
    BY FirstEvent
  <2>2. Tail(buf) = SubSeq(buf, 2, Len(buf))
    BY <1>1, <2>1, TailIsSubSeq
  <2>3. Len(Tail(buf)) = Len(buf) - 1
    BY <1>1, <2>1
  <2>4. Len(Tail(buf)) > 0
    BY <1>1, <2>3
  <2> QED BY <2>2, <2>4
<1>4. Head(Tail(buf)) = buf[2] /\ Tail(Tail(buf)) = SubSeq(buf, 3, Len(buf))
  <2>1. 2 \in 1..Len(buf) /\ Len(buf) \in 1..Len(buf) /\ Len(buf) >= 2
    BY <1>1
  <2>2. /\ Head(SubSeq(buf, 2, Len(buf))) = buf[2]
        /\ Tail(SubSeq(buf, 2, Len(buf))) = SubSeq(buf, 2 + 1, Len(buf))
    BY <1>1, <2>1, HeadTailOfSubSeq
  <2> QED BY <1>3, <2>2
<1>5. ToSet(Tail(buf)) = {Head(Tail(buf))} \cup ToSet(Tail(Tail(buf)))
  BY <1>1, <1>3, ToSetHeadTail
<1> QED BY <1>2, <1>4, <1>5

(* Both events of a rename: the entries get their new pathnames. *)
LEMMA TrackMovedWithin ==
  ASSUME IInv, TrackInv, MovedWithin
  PROVE  TrackInv'
<1> DEFINE b2 == buf[2]
           F == Append(PathOf(ev.wd), ev.name)
           T == Append(PathOf(b2.wd), b2.name)
<1>1. /\ pc = "process" /\ ev.mask = "IN_MOVED_FROM" /\ findWatch(ev.wd) # {}
      /\ Len(buf) > 1 /\ b2.mask = "IN_MOVED_TO"
      /\ cache' = rewriteCachedPaths(F, T)
      /\ buf' = SubSeq(buf, 3, Len(buf))
      /\ UNCHANGED <<tree, nextIno, watches, nextWd, queue, rootDirPaths, walk,
                     job, raced>>
  BY DEF MovedWithin, Found, Processing, Pair, Advance, fsVars, kernel, mutators
<1>2. /\ First = ev /\ Pending = {ev} \cup Rest /\ walk = <<>>
      /\ Rest = {b2} \cup Pending' /\ b2 \in Events /\ b2.name \in Names
  <2>1. b2 \in Events /\ ToSet(Tail(buf)) = {b2} \cup ToSet(buf')
    BY <1>1, SecondEvent
  <2>2. b2.name \in Names
    BY <1>1, <2>1, EventName DEF NamedMasks
  <2> HIDE DEF b2
  <2>3. First = ev /\ Pending = {ev} \cup Rest /\ walk = <<>>
        /\ Rest = ToSet(Tail(buf)) \cup ToSet(queue)
    BY <1>1, ProcessFirst
  <2> QED BY <1>1, <2>1, <2>2, <2>3 DEF Pending
<1> HIDE DEF b2
<1>3. Underway' = Underway
  BY <1>1 DEF Underway
<1>4. TreeInv /\ TreeInv'
  BY <1>1, <1>3, TreeSame DEF TrackInv
<1>5. ASSUME Sure' PROVE Rooted' /\ WalkInv' /\ Covered' /\ Phase'
  <2>1. Rooted /\ WalkInv /\ Covered /\ Phase
    <3>1. ev # Overflow /\ b2 # Overflow
      BY <1>1, EventType
    <3> QED BY <1>1, <1>2, <1>5, <3>1 DEF Sure, TrackInv, Ended
  <2>2. PICK x \in cache, t \in tree : Renaming(x, t)
    BY <1>1, <2>1, StructuralEvent DEF Structural
  <2> DEFINE from == x.path
             to == t.path
  <2>3. /\ Calm(Rest) /\ Len(from) > 1 /\ Len(to) > 1 /\ ~IsPrefix(from, to)
        /\ \A c \in cache : At(watches, tree, c.wd, Now(c.path, from, to))
        /\ \E c \in cache : c.wd = ev.wd /\ Append(c.path, ev.name) = from
        /\ \E c \in cache : c.wd = b2.wd /\ Append(c.path, b2.name) = to
    BY <1>1, <1>2, <2>2 DEF Renaming, Moved
  <2>4. PICK c2 \in cache : c2.wd = b2.wd /\ Append(c2.path, b2.name) = to
    BY <2>3
  <2>5. F = from /\ T = to
    BY <2>3, <2>4, PathOfEntry
  <2>6. from \in Paths /\ to \in Paths /\ \A c \in cache : c.path \in Paths
    BY DEF IInv, TypeOK
  <2> HIDE DEF from, to, F, T
  <2>7. /\ Front(to) = c2.path /\ Last(to) = b2.name /\ to[1] = c2.path[1]
    BY <1>2, <2>4, <2>6, AppendParts
  <2>8. to[1] \in rootDirPaths
    BY <2>1, <2>7 DEF Rooted
  <2>9. ASSUME NEW c \in cache
        PROVE  LET r == IF IsPrefix(from, c.path)
                        THEN [c EXCEPT !.path = Move(@, from, to)] ELSE c
               IN  r.wd = c.wd /\ r.path = Now(c.path, from, to)
    <3>1. c \in [wd : 1..nextWd - 1, path : Paths]
      BY DEF IInv, TypeOK
    <3> QED BY <3>1 DEF Now
  <2>10. \A r \in cache' : \E c \in cache :
            r.wd = c.wd /\ r.path = Now(c.path, from, to)
    BY <1>1, <2>5, <2>9 DEF rewriteCachedPaths
  <2>11. Steady'
    <3>1. Calm(Pending)'
      BY <1>1, <1>2, <2>3, <2>10 DEF Calm, Stale
    <3> QED BY <1>1, <2>3, <2>10, <3>1 DEF Steady
  <2>12. Rooted'
    <3> SUFFICES ASSUME NEW r \in cache'
                 PROVE  /\ r.path[1] \in rootDirPaths'
                        /\ \A w \in watches' : w.wd = r.wd =>
                             (w.self <=> Len(r.path) = 1)
      BY DEF Rooted
    <3>1. PICK c \in cache : r.wd = c.wd /\ r.path = Now(c.path, from, to)
      BY <2>10
    <3>2. CASE ~IsPrefix(from, c.path)
      BY <1>1, <2>1, <3>1, <3>2 DEF Rooted, Now
    <3>3. CASE IsPrefix(from, c.path)
      <4>1. r.path[1] = to[1]
        BY <2>6, <3>1, <3>3, NowFacts
      <4>2. Len(c.path) > 1
        <5>1. /\ Len(from) <= Len(c.path) /\ Len(from) \in Nat
              /\ Len(c.path) \in Nat
          BY <2>6, <3>3, PrefixFacts, PathParts
        <5>2. \A a, n \in Nat : a <= n /\ a > 1 => n > 1
          OBVIOUS
        <5> QED BY <2>3, <5>1, <5>2
      <4>3. Len(r.path) > 1
        BY <2>3, <2>6, <3>1, <4>2, NowFacts
      <4>4. Len(c.path) # 1 /\ Len(r.path) # 1
        <5>1. \A n : n > 1 => n # 1
          OBVIOUS
        <5> QED BY <4>2, <4>3, <5>1
      <4> QED BY <1>1, <2>1, <2>8, <3>1, <4>1, <4>4 DEF Rooted
    <3> QED BY <3>2, <3>3
  <2>13. WalkInv'
    BY <1>1, <2>1 DEF WalkInv
  <2>14. ASSUME NEW d \in tree, d.path[1] \in rootDirPaths, ~Seen(watches, d.ino),
                NEW e \in tree, Len(d.path) > 1, e.path = Front(d.path),
                Announced(Pending, watches, Underway, e.ino, Last(d.path))
         PROVE  Announced(Pending', watches, Underway, e.ino, Last(d.path))
    <3> SUFFICES ASSUME ~Announced(Pending', watches, Underway, e.ino, Last(d.path))
                 PROVE  FALSE
      OBVIOUS
    <3>1. PICK w \in watches : /\ b2.name = Last(d.path) /\ w.wd = b2.wd
                               /\ w.ino = e.ino
      BY <1>1, <1>2, <2>14 DEF Announced
    <3>2. ~IsPrefix(from, c2.path)
      BY <2>3, <2>6, <2>7, PrefixFacts
    <3>3. PICK v \in watches, g \in tree :
            v.wd = c2.wd /\ g.ino = v.ino /\ g.path = c2.path
      BY <2>3, <3>2 DEF At, Now
    <3>4. v = w
      BY <2>4, <3>1, <3>3 DEF IInv, WatchInv
    <3>5. g = e
      BY <1>4, <3>1, <3>3, <3>4 DEF TreeInv
    <3>6. d.path \in Paths
      BY <1>4, InoAtPath DEF IInv
    <3>7. d.path = to
      BY <2>3, <2>6, <2>7, <2>14, <3>1, <3>3, <3>5, <3>6, FrontLastEqual
    <3>8. Now(x.path, from, to) = to
      BY <2>6, PrefixFacts, MoveFacts DEF Now, from
    <3>9. PICK u \in watches, h \in tree : h.ino = u.ino /\ h.path = to
      BY <2>3, <3>8 DEF At
    <3>10. h = d
      BY <1>4, <3>7, <3>9 DEF TreeInv
    <3> QED BY <2>14, <3>9, <3>10 DEF Seen
  <2>15. ToSet(walk) = {}
    BY <1>2 DEF ToSet
  <2>16. ASSUME NEW d \in tree, d.path[1] \in rootDirPaths, ~Seen(watches, d.ino)
         PROVE  CoveredDir(d)'
    <3>1. CoveredDir(d)
      BY <2>1, <2>16 DEF Covered
    <3>2. \A e \in tree : ~Visited(ToSet(walk), e, Last(d.path))
      BY <2>15 DEF Visited
    <3> QED BY <1>1, <1>3, <2>14, <2>16, <3>1, <3>2 DEF CoveredDir
  <2>17. Covered'
    BY <1>1, <2>16 DEF Covered
  <2> QED BY <2>11, <2>12, <2>13, <2>17 DEF Phase
<1> QED BY <1>4, <1>5 DEF TrackInv

-----------------------------------------------------------------------------
(* The traversal of nftw(). *)

(* The directories still to be traversed. *)
LEMMA UnfinishedFacts ==
  ASSUME NEW f \in Frames, NEW t \in Seq(Frames)
  PROVE  /\ ToSet(Unfinished(f) \o t) \subseteq {f} \cup ToSet(t)
         /\ ToSet(t) \subseteq ToSet(Unfinished(f) \o t)
         /\ f.ino # 0 \/ f.names # {} => f \in ToSet(Unfinished(f) \o t)
<1>1. Unfinished(f) \in Seq(Frames)
  BY DEF Unfinished
<1>2. ToSet(Unfinished(f) \o t) = ToSet(Unfinished(f)) \cup ToSet(t)
  BY <1>1, ToSetConcat
<1>3. ToSet(<<f>>) = {f} /\ ToSet(<<>>) = {}
  BY ToSetSingle DEF ToSet
<1> QED BY <1>2, <1>3 DEF Unfinished

(* During a traversal no removal or rename is half known. *)
LEMMA WalkPhase ==
  ASSUME Phase, walk # <<>>
  PROVE  Steady \/ \E x \in cache, t \in tree : RootMoving(x, t)
  BY DEF Phase, Deleting, Renaming

(* nftw() has the entries of a directory: each subdirectory that is not    *)
(* watched yet is one of them.                                             *)
LEMMA TrackReadDir ==
  ASSUME IInv, TrackInv, ReadDir
  PROVE  TrackInv'
<1> DEFINE f0 == Head(walk)
           g == Frame(f0.path, {Last(d.path) : d \in Children(f0.ino)})
<1>1. /\ pc = "walk" /\ walk \in Seq(Frames) /\ walk # <<>> /\ f0.ino # 0
  BY DEF ReadDir, IInv, TypeOK, Frames
<1>2. f0 \in Frames /\ Tail(walk) \in Seq(Frames)
      /\ ToSet(walk) = {f0} \cup ToSet(Tail(walk))
  BY <1>1, HeadTailProperties, ToSetHeadTail
<1>3. /\ walk' = Unfinished(g) \o Tail(walk)
      /\ UNCHANGED <<tree, nextIno, watches, nextWd, queue, buf, cache,
                     rootDirPaths, job, raced>>
  BY DEF ReadDir, Continue, fsVars, kernel, mutators
<1>4. /\ g.path = f0.path /\ g.ino = 0
      /\ \A d \in Children(f0.ino) : Last(d.path) \in g.names
      /\ g \in Frames
  <2>1. \A d \in Children(f0.ino) : Last(d.path) \in AllNames
    BY TreeType, FrontLastPath DEF Children, IInv
  <2> QED BY <1>2, <2>1 DEF Frame, Frames
<1> HIDE DEF f0, g
<1>5. /\ ToSet(walk') \subseteq {g} \cup ToSet(Tail(walk))
      /\ ToSet(Tail(walk)) \subseteq ToSet(walk')
      /\ g.names # {} => g \in ToSet(walk')
  BY <1>2, <1>3, <1>4, UnfinishedFacts
<1>6. Pending' = Pending /\ Underway' = Underway
  BY <1>3 DEF Pending, Underway
<1>7. TreeInv /\ TreeInv'
  BY <1>3, <1>6, TreeSame DEF TrackInv
<1>8. ASSUME Sure' PROVE Rooted' /\ WalkInv' /\ Covered' /\ Phase'
  <2>1. Rooted /\ WalkInv /\ Covered /\ Phase
    BY <1>1, <1>3, <1>6, <1>8 DEF Sure, TrackInv, Ended
  <2>2. Rooted'
    BY <1>3, <2>1 DEF Rooted
  <2>3. /\ f0.path # <<>> /\ f0.path[1] \in rootDirPaths
        /\ \E d \in tree : d.ino = f0.ino /\ d.path = f0.path
    BY <1>1, <1>2, <2>1 DEF WalkInv
  <2>4. WalkInv'
    BY <1>2, <1>3, <1>4, <1>5, <2>1, <2>3 DEF WalkInv
  <2>5. Phase'
    <3>1. CASE Steady
      <4>1. Steady'
        BY <1>3, <1>6, <3>1 DEF Steady, Calm, Stale
      <4> QED BY <4>1 DEF Phase
    <3>2. ASSUME NEW x \in cache, NEW t \in tree, RootMoving(x, t) PROVE Phase'
      <4>1. RootMoving(x, t)'
        BY <1>3, <1>6, <3>2 DEF RootMoving, Moved, Stale
      <4> QED BY <1>3, <4>1 DEF Phase
    <3> QED BY <1>1, <2>1, <3>1, <3>2, WalkPhase
  <2>6. ASSUME NEW r, VisitedRoot(ToSet(walk), r)
        PROVE  VisitedRoot(ToSet(walk'), r)
    BY <1>2, <1>5, <2>3, <2>6 DEF VisitedRoot
  <2>7. ASSUME NEW d \in tree, NEW e \in tree, Len(d.path) > 1,
               e.path = Front(d.path), Visited(ToSet(walk), e, Last(d.path))
        PROVE  Visited(ToSet(walk'), e, Last(d.path))
    <3>1. PICK f \in ToSet(walk) :
             \/ f.ino = e.ino
             \/ f.ino = 0 /\ f.path = e.path /\ Last(d.path) \in f.names
      BY <2>7 DEF Visited
    <3>2. CASE f \in ToSet(Tail(walk))
      BY <1>5, <3>1, <3>2 DEF Visited
    <3>3. CASE f = f0
      <4>1. f0.ino = e.ino
        BY <1>1, <3>1, <3>3
      <4>2. e.path = f0.path
        BY <1>7, <2>3, <4>1 DEF TreeInv
      <4>3. InoAt(Front(d.path)) = f0.ino
        BY <1>7, <2>7, <4>1, InoAtPath DEF IInv
      <4>4. d \in Children(f0.ino)
        BY <2>7, <4>3 DEF Children
      <4>5. Last(d.path) \in g.names
        BY <1>4, <4>4
      <4>6. g \in ToSet(walk')
        BY <1>5, <4>5
      <4> QED BY <1>4, <4>2, <4>5, <4>6 DEF Visited
    <3> QED BY <1>2, <3>1, <3>2, <3>3
  <2>8. ASSUME NEW d \in tree, d.path[1] \in rootDirPaths, ~Seen(watches, d.ino)
        PROVE  CoveredDir(d)'
    <3>1. CoveredDir(d)
      BY <2>1, <2>8 DEF Covered
    <3> QED BY <1>3, <1>6, <2>6, <2>7, <3>1 DEF CoveredDir
  <2>9. Covered'
    BY <1>3, <2>8 DEF Covered
  <2> QED BY <2>2, <2>4, <2>5, <2>9
<1> QED BY <1>7, <1>8 DEF TrackInv

(* nftw() goes on: the other directories are still to be visited. *)
LEMMA VisitRest ==
  ASSUME IInv, TreeInv, NEW f0 \in Frames, NEW f1 \in Frames, NEW n,
         f0.ino = 0, n \in f0.names,
         f1.path = f0.path, f1.ino = 0, f1.names = f0.names \ {n},
         NEW t \in Seq(Frames), NEW d \in tree, d.path # Append(f0.path, n)
  PROVE  LET F == {f0} \cup ToSet(t)
             R == ToSet(Unfinished(f1) \o t)
         IN  /\ Len(d.path) = 1 /\ VisitedRoot(F, d.path[1]) =>
                  VisitedRoot(R, d.path[1])
             /\ \A e \in tree :
                  /\ Len(d.path) > 1 /\ e.path = Front(d.path)
                  /\ Visited(F, e, Last(d.path))
                  => Visited(R, e, Last(d.path))
<1> DEFINE F == {f0} \cup ToSet(t)
           R == ToSet(Unfinished(f1) \o t)
<1>1. ToSet(t) \subseteq R /\ (f1.names # {} => f1 \in R)
  BY UnfinishedFacts
<1>2. n \in AllNames /\ f0.path \in Paths \cup {<<>>} /\ d.path \in Paths
  BY TreeType DEF Frames, IInv
<1> HIDE DEF R
<1>3. ASSUME Len(d.path) = 1, VisitedRoot(F, d.path[1])
      PROVE  VisitedRoot(R, d.path[1])
  <2>1. PICK f \in F : f.path = <<>> /\ d.path[1] \in f.names
    BY <1>3 DEF VisitedRoot
  <2>2. CASE f \in ToSet(t)
    BY <1>1, <2>1, <2>2 DEF VisitedRoot
  <2>3. CASE f = f0
    <3>1. d.path = <<d.path[1]>>
      BY <1>2, <1>3, SingleParts
    <3>2. d.path[1] # n
      BY <1>2, <2>1, <2>3, <3>1, TopParts
    <3>3. d.path[1] \in f1.names
      BY <2>1, <2>3, <3>2
    <3> QED BY <1>1, <2>1, <2>3, <3>3 DEF VisitedRoot
  <2> QED BY <2>1, <2>2, <2>3
<1>4. ASSUME NEW e \in tree, Len(d.path) > 1, e.path = Front(d.path),
             Visited(F, e, Last(d.path))
      PROVE  Visited(R, e, Last(d.path))
  <2>1. PICK f \in F :
          \/ f.ino = e.ino
          \/ f.ino = 0 /\ f.path = e.path /\ Last(d.path) \in f.names
    BY <1>4 DEF Visited
  <2>2. CASE f \in ToSet(t)
    BY <1>1, <2>1, <2>2 DEF Visited
  <2>3. CASE f = f0
    <3>1. f0.path = e.path /\ Last(d.path) \in f0.names
      BY <2>1, <2>3, InoAtPath DEF IInv
    <3>2. Last(d.path) # n
      <4> SUFFICES ASSUME Last(d.path) = n PROVE FALSE
        OBVIOUS
      <4>1. n \in Names /\ Front(d.path) \in Paths
        BY <1>2, <1>4, FrontParts
      <4>2. /\ Append(f0.path, n) \in Paths /\ Len(Append(f0.path, n)) > 1
            /\ Front(Append(f0.path, n)) = Front(d.path)
            /\ Last(Append(f0.path, n)) = Last(d.path)
        BY <1>4, <3>1, <4>1, AppendParts
      <4> QED BY <1>2, <1>4, <4>2, FrontLastEqual
    <3>3. Last(d.path) \in f1.names
      BY <3>1, <3>2
    <3> QED BY <1>1, <3>1, <3>3 DEF Visited
  <2> QED BY <2>1, <2>2, <2>3
<1> QED BY <1>3, <1>4 DEF R

-----------------------------------------------------------------------------
(* nftw() is given up only when a directory has been removed under it, so  *)
(* that a traversal that was not raced visits all it has found.            *)

(* The frame for the root directories is the last one. *)
TopLast(s) == \A k \in 1..Len(s) : s[k].path = <<>> => k = Len(s)

(* A directory whose entries are still to be read is there, and so are the *)
(* names still to be visited, except one that the traversal starts from.   *)
Listed(f) ==
    /\ f.path = <<>> => f.ino = 0
    /\ f.ino # 0 => \E d \in tree : d.ino = f.ino /\ d.path = f.path
    /\ f.path # <<>> /\ f.ino = 0 =>
         \A n \in f.names :
            Exists(Append(f.path, n)) \/ (walk = <<f>> /\ f.names = {n})

(* The invariant of the traversal, which is inductive with the other two. *)
ListInv == TopLast(walk) /\ (~raced => \A f \in ToSet(walk) : Listed(f))

(* Nothing follows the only frame. *)
LEMMA OneFrame ==
  ASSUME NEW s \in Seq(Frames), Len(s) = 1
  PROVE  Tail(s) = <<>>
<1>1. s # <<>>
  BY EmptySeq
<1> DEFINE u == Tail(s)
<1>2. u \in Seq(Frames) /\ Len(u) = 0
  BY <1>1, HeadTailProperties
<1> HIDE DEF u
<1>3. u = <<>>
  BY <1>2, EmptySeq
<1> QED BY <1>3 DEF u

(* The frame for the root directories stays the last one. *)
LEMMA TopLastParts ==
  ASSUME NEW t \in Seq(Frames), TopLast(t)
  PROVE  /\ t # <<>> => TopLast(Tail(t)) /\ (Head(t).path = <<>> => Tail(t) = <<>>)
         /\ \A f \in Frames : (f.path = <<>> => t = <<>>) =>
               TopLast(<<f>> \o t) /\ TopLast(Unfinished(f) \o t)
<1>1. ASSUME t # <<>>
      PROVE  TopLast(Tail(t)) /\ (Head(t).path = <<>> => Tail(t) = <<>>)
  <2> DEFINE u == Tail(t)
  <2>1. /\ Len(t) \in Nat \ {0} /\ Len(u) = Len(t) - 1 /\ Head(t) = t[1]
        /\ \A k \in 1..Len(u) : u[k] = t[k + 1]
    BY <1>1, HeadTailProperties, EmptySeq
  <2> HIDE DEF u
  <2>2. TopLast(u)
    <3> SUFFICES ASSUME NEW k \in 1..Len(u), u[k].path = <<>> PROVE k = Len(u)
      BY DEF TopLast
    <3>1. k + 1 \in 1..Len(t) /\ t[k + 1].path = <<>>
      BY <2>1
    <3>2. k + 1 = Len(t)
      BY <3>1 DEF TopLast
    <3> QED BY <2>1, <3>2
  <2>3. ASSUME Head(t).path = <<>> PROVE u = <<>>
    <3>1. 1 \in 1..Len(t) /\ t[1].path = <<>>
      BY <2>1, <2>3
    <3>2. Len(t) = 1
      BY <3>1 DEF TopLast
    <3> QED BY <3>2, OneFrame DEF u
  <2> QED BY <2>2, <2>3 DEF u
<1>2. ASSUME NEW f \in Frames, f.path = <<>> => t = <<>>
      PROVE  TopLast(<<f>> \o t) /\ TopLast(Unfinished(f) \o t)
  <2> DEFINE s == <<f>> \o t
  <2>1. /\ Len(t) \in Nat /\ Len(s) = Len(t) + 1 /\ s[1] = f
        /\ \A k \in 1..Len(s) : k # 1 => k - 1 \in 1..Len(t) /\ s[k] = t[k - 1]
        /\ t = <<>> => Len(t) = 0
    OBVIOUS
  <2> HIDE DEF s
  <2>2. TopLast(s)
    BY <1>2, <2>1 DEF TopLast
  <2>3. <<>> \o t = t
    OBVIOUS
  <2> QED BY <2>2, <2>3 DEF s, Unfinished
<1> QED BY <1>1, <1>2

(* At most one frame is left of a traversal that is given up. *)
LEMMA AbandonedFacts ==
  ASSUME NEW t \in Seq(Frames)
  PROVE  /\ Abandoned(<<>>) = <<>>
         /\ TopLast(Abandoned(t))
         /\ \A f \in ToSet(Abandoned(t)) : f \in ToSet(t) /\ f.path = <<>>
         /\ \A f \in Frames : f.path = <<>> => Abandoned(<<f>>) = <<f>>
<1>1. Abandoned(<<>>) = <<>>
  BY DEF Abandoned
<1>2. \A f \in Frames : Last(<<f>>) = f /\ <<f>> # <<>> /\ ToSet(<<f>>) = {f}
                        /\ TopLast(<<f>>)
  BY ToSetSingle DEF Last, TopLast
<1>3. t # <<>> => Last(t) \in Frames /\ Last(t) \in ToSet(t)
  BY EmptySeq, ToSetElements DEF Last
<1>4. TopLast(<<>>) /\ ToSet(<<>>) = {}
  BY DEF TopLast, ToSet
<1>5. CASE t # <<>> /\ Last(t).path = <<>>
  <2>1. Abandoned(t) = <<Last(t)>>
    BY <1>5 DEF Abandoned
  <2> QED BY <1>1, <1>2, <1>3, <1>5, <2>1 DEF Abandoned
<1>6. CASE ~(t # <<>> /\ Last(t).path = <<>>)
  <2>1. Abandoned(t) = <<>>
    BY <1>6 DEF Abandoned
  <2> QED BY <1>1, <1>2, <1>4, <2>1 DEF Abandoned
<1> QED BY <1>5, <1>6

(* A traversal that was not raced is not given up. *)
LEMMA ListRest ==
  ASSUME ListInv, walk \in Seq(Frames), walk # <<>>, ~raced,
         NEW n \in Head(walk).names, Head(walk).ino = 0,
         ~Exists(Append(Head(walk).path, n)),
         NEW f1 \in Frames, f1.path = Head(walk).path, f1.ino = 0,
         f1.names = Head(walk).names \ {n}
  PROVE  Abandoned(Unfinished(f1) \o Tail(walk)) = Unfinished(f1) \o Tail(walk)
<1> DEFINE f0 == Head(walk)
<1>1. f0 \in Frames /\ f0 \in ToSet(walk) /\ Tail(walk) \in Seq(Frames)
  BY HeadTailProperties, ToSetHeadTail
<1>2. <<f1>> \o <<>> = <<f1>> /\ <<>> \o <<>> = <<>>
  OBVIOUS
<1>3. CASE f0.path = <<>>
  <2>1. Tail(walk) = <<>>
    BY <1>3, TopLastParts DEF ListInv
  <2> QED BY <1>2, <1>3, <2>1, AbandonedFacts DEF Unfinished
<1>4. CASE f0.path # <<>>
  <2>1. walk = <<f0>> /\ f0.names = {n}
    BY <1>1, <1>4 DEF ListInv, Listed
  <2>2. Tail(walk) = <<>>
    <3>1. Len(walk) = 1
      BY <2>1
    <3> QED BY <3>1, OneFrame
  <2>3. f1.names = {}
    BY <2>1
  <2> QED BY <1>2, <2>2, <2>3, AbandonedFacts DEF Unfinished
<1> QED BY <1>3, <1>4

(* The traversal is at the same place, in the same directories or more. *)
LEMMA ListKept ==
  ASSUME ListInv, walk' = walk,
         ~raced' => walk = <<>> \/ (~raced /\ tree \subseteq tree')
  PROVE  ListInv'
<1>1. TopLast(walk)'
  BY DEF ListInv, TopLast
<1>2. ASSUME ~raced', NEW f \in ToSet(walk') PROVE Listed(f)'
  <2>1. walk # <<>>
    BY <1>2 DEF ToSet
  <2>2. ~raced /\ tree \subseteq tree' /\ Listed(f)
    BY <1>2, <2>1 DEF ListInv
  <2> QED BY <2>2 DEF Listed, Exists
<1> QED BY <1>1, <1>2 DEF ListInv

(* A traversal is over, or starts. *)
Started(s) ==
    \/ s = <<>>
    \/ \E q, names : /\ s = <<Frame(q, names)>>
                     /\ q = <<>> \/ \E n : names = {n}
LEMMA ListStarted ==
  ASSUME Started(walk')
  PROVE  ListInv'
<1>1. CASE walk' = <<>>
  BY <1>1 DEF ListInv, TopLast, ToSet
<1>2. ASSUME NEW q, NEW names, walk' = <<Frame(q, names)>>,
             q = <<>> \/ \E n : names = {n}
      PROVE  ListInv'
  <2> DEFINE f == Frame(q, names)
  <2>1. f.path = q /\ f.ino = 0 /\ f.names = names
    BY DEF Frame
  <2> HIDE DEF f
  <2>2. walk' = <<f>>
    BY <1>2 DEF f
  <2>3. TopLast(walk)'
    BY <2>2 DEF TopLast
  <2>4. ToSet(walk') = {f}
    BY <2>2, ToSetSingle
  <2>5. Listed(f)'
    BY <1>2, <2>1, <2>2 DEF Listed
  <2> QED BY <2>3, <2>4, <2>5 DEF ListInv
<1> QED BY <1>1, <1>2 DEF Started

(* nftw() visits a name. *)
LEMMA ListVisit ==
  ASSUME IInv, ListInv, Visit
  PROVE  ListInv'
<1> DEFINE f0 == Head(walk)
<1>1. /\ pc = "walk" /\ walk \in Seq(Frames) /\ walk # <<>> /\ f0.ino = 0
  BY DEF Visit, IInv, TypeOK, Frames
<1>2. f0 \in Frames /\ Tail(walk) \in Seq(Frames)
      /\ ToSet(walk) = {f0} \cup ToSet(Tail(walk))
  BY <1>1, HeadTailProperties, ToSetHeadTail
<1>3. PICK n \in f0.names :
         LET p == Append(f0.path, n)
             rest == Unfinished([f0 EXCEPT !.names = @ \ {n}]) \o Tail(walk)
         IN  \/ walk' = rest
             \/ walk' = Abandoned(rest)
             \/ /\ Exists(p)
                /\ walk' = <<[Frame(p, {}) EXCEPT !.ino = InoAt(p)]>> \o rest
  BY DEF Visit, Continue
<1> DEFINE p == Append(f0.path, n)
           f1 == [f0 EXCEPT !.names = @ \ {n}]
           rest == Unfinished(f1) \o Tail(walk)
           g == [Frame(p, {}) EXCEPT !.ino = InoAt(p)]
<1>4. UNCHANGED <<tree, raced>>
  BY DEF Visit, fsVars
<1>5. f1 \in Frames /\ f1.path = f0.path /\ f1.ino = 0 /\ f1.names = f0.names \ {n}
  BY <1>1, <1>2 DEF Frames
<1>6. g.path = p /\ g.ino = InoAt(p) /\ g.names = {}
  BY DEF Frame
<1>7. n \in AllNames /\ f0.path \in Paths \cup {<<>>}
  BY <1>2 DEF Frames
<1>8. p # <<>>
  <2>1. f0.path \in Seq(AllNames)
    BY <1>7, PathType, EmptySeq
  <2> QED BY <1>7, <2>1, AppendProperties
<1>9. \/ walk' = rest
      \/ walk' = Abandoned(rest)
      \/ Exists(p) /\ walk' = <<g>> \o rest
  BY <1>3
<1> HIDE DEF f0, f1, g, p
<1>10. rest \in Seq(Frames) /\ ToSet(rest) \subseteq {f1} \cup ToSet(Tail(walk))
  BY <1>2, <1>5, UnfinishedType, UnfinishedFacts
<1>11. TopLast(rest) /\ TopLast(Tail(walk)) /\ (f0.path = <<>> => Tail(walk) = <<>>)
  BY <1>1, <1>2, <1>5, TopLastParts DEF ListInv, f0
<1>12. ASSUME ~raced, NEW f \in ToSet(rest)
       PROVE  /\ f.path = <<>> => f.ino = 0
              /\ f.ino # 0 => \E d \in tree : d.ino = f.ino /\ d.path = f.path
              /\ f.path # <<>> /\ f.ino = 0 =>
                   \A x \in f.names : Exists(Append(f.path, x))
  <2>1. \A h \in ToSet(walk) : Listed(h)
    BY <1>12 DEF ListInv
  <2>2. CASE f = f1
    <3>1. Listed(f0)
      BY <1>2, <2>1
    <3> QED BY <1>1, <1>5, <2>2, <3>1 DEF Listed
  <2>3. CASE f \in ToSet(Tail(walk))
    <3>1. Listed(f)
      BY <1>2, <2>1, <2>3
    <3>2. walk # <<f>>
      <4>1. ASSUME walk = <<f>> PROVE FALSE
        <5>1. Len(walk) = 1
          BY <4>1
        <5>2. Tail(walk) = <<>>
          BY <1>1, <5>1, OneFrame
        <5> QED BY <2>3, <5>2 DEF ToSet
      <4> QED BY <4>1
    <3> QED BY <3>1, <3>2 DEF Listed
  <2> QED BY <1>10, <2>2, <2>3
<1> HIDE DEF rest
<1>13. CASE walk' = rest
  <2>1. ASSUME ~raced', NEW f \in ToSet(walk') PROVE Listed(f)'
    BY <1>4, <1>12, <1>13, <2>1 DEF Listed, Exists
  <2> QED BY <1>11, <1>13, <2>1 DEF ListInv, TopLast
<1>14. CASE walk' = Abandoned(rest)
  <2>1. ASSUME ~raced', NEW f \in ToSet(walk') PROVE Listed(f)'
    <3>1. f \in ToSet(rest) /\ f.path = <<>>
      BY <1>10, <1>14, <2>1, AbandonedFacts
    <3>2. f.ino = 0
      BY <1>4, <1>12, <2>1, <3>1
    <3> QED BY <3>1, <3>2 DEF Listed
  <2>2. TopLast(walk')
    BY <1>10, <1>14, AbandonedFacts
  <2> QED BY <2>1, <2>2 DEF ListInv, TopLast
<1>15. CASE Exists(p) /\ walk' = <<g>> \o rest
  <2>1. PICK d \in tree : d.path = p /\ d.ino = InoAt(p)
    BY <1>8, <1>15, TreeType DEF IInv
  <2>2. g \in Frames
    <3>1. InoAt(p) \in Nat /\ p \in Paths
      BY <2>1, TreeType DEF IInv
    <3> QED BY <3>1 DEF g, Frame, Frames
  <2>3. ToSet(walk') = {g} \cup ToSet(rest)
    <3> DEFINE s == <<g>>
    <3>1. s \in Seq(Frames) /\ ToSet(s) = {g} /\ walk' = s \o rest
      BY <1>15, <2>2, ToSetSingle
    <3> HIDE DEF s
    <3> QED BY <1>10, <3>1, ToSetConcat
  <2>4. TopLast(walk')
    BY <1>6, <1>8, <1>10, <1>11, <1>15, <2>2, TopLastParts
  <2>5. ASSUME ~raced', NEW f \in ToSet(walk') PROVE Listed(f)'
    <3>1. CASE f = g
      BY <1>4, <1>6, <1>8, <2>1, <3>1 DEF Listed
    <3>2. CASE f \in ToSet(rest)
      BY <1>4, <1>12, <2>5, <3>2 DEF Listed, Exists
    <3> QED BY <2>3, <2>5, <3>1, <3>2
  <2> QED BY <2>4, <2>5 DEF ListInv, TopLast
<1> QED BY <1>9, <1>13, <1>14, <1>15

(* nftw() reads the entries of a directory, all of which are there. *)
LEMMA ListReadDir ==
  ASSUME IInv, TreeInv, ListInv, ReadDir
  PROVE  ListInv'
<1> DEFINE f0 == Head(walk)
           g == Frame(f0.path, {Last(d.path) : d \in Children(f0.ino)})
<1>1. /\ pc = "walk" /\ walk \in Seq(Frames) /\ walk # <<>> /\ f0.ino # 0
  BY DEF ReadDir, IInv, TypeOK, Frames
<1>2. f0 \in Frames /\ Tail(walk) \in Seq(Frames)
      /\ ToSet(walk) = {f0} \cup ToSet(Tail(walk))
  BY <1>1, HeadTailProperties, ToSetHeadTail
<1>3. walk' = Unfinished(g) \o Tail(walk) /\ UNCHANGED <<tree, raced>>
  BY DEF ReadDir, Continue, fsVars
<1>4. /\ g.path = f0.path /\ g.ino = 0
      /\ g.names = {Last(d.path) : d \in Children(f0.ino)}
      /\ g \in Frames
  <2>1. \A d \in Children(f0.ino) : Last(d.path) \in AllNames
    BY TreeType, FrontLastPath DEF Children, IInv
  <2> QED BY <1>2, <2>1 DEF Frame, Frames
<1> HIDE DEF f0, g
<1>5. ToSet(walk') \subseteq {g} \cup ToSet(Tail(walk))
  BY <1>2, <1>3, <1>4, UnfinishedFacts
<1>6. TopLast(walk')
  BY <1>1, <1>2, <1>3, <1>4, TopLastParts DEF ListInv, f0
<1>7. ASSUME ~raced', NEW f \in ToSet(walk') PROVE Listed(f)'
  <2>1. \A h \in ToSet(walk) : Listed(h)
    BY <1>3, <1>7 DEF ListInv
  <2>2. CASE f = g
    <3>1. PICK e \in tree : e.ino = f0.ino /\ e.path = f0.path
      BY <1>1, <1>2, <2>1 DEF Listed
    <3>2. ASSUME NEW d \in Children(f0.ino)
          PROVE  Append(g.path, Last(d.path)) = d.path
      <4>1. d \in tree /\ Len(d.path) > 1 /\ InoAt(Front(d.path)) = f0.ino
        BY <3>2 DEF Children
      <4>2. PICK h \in tree : h.path = Front(d.path)
        BY <4>1 DEF TreeInv
      <4>3. h.ino = f0.ino
        BY <4>1, <4>2, InoAtPath DEF IInv
      <4>4. h.path = f0.path
        BY <3>1, <4>3 DEF TreeInv
      <4>5. /\ d.path \in Paths /\ Front(d.path) \in Paths
            /\ Last(d.path) \in Names
        BY <4>1, TreeType, FrontLastPath DEF IInv
      <4> DEFINE q == Append(Front(d.path), Last(d.path))
      <4>6. /\ q \in Paths /\ Len(q) > 1 /\ Front(q) = Front(d.path)
            /\ Last(q) = Last(d.path)
        BY <4>5, AppendParts
      <4>7. q = d.path
        BY <4>1, <4>5, <4>6, FrontLastEqual
      <4> QED BY <1>4, <4>2, <4>4, <4>7
    <3>3. \A n \in g.names : \E d \in tree : d.path = Append(g.path, n)
      BY <1>4, <3>2 DEF Children
    <3> QED BY <1>1, <1>2, <1>3, <1>4, <2>1, <2>2, <3>3 DEF Listed, Exists
  <2>3. CASE f \in ToSet(Tail(walk))
    <3>1. Listed(f)
      BY <1>2, <2>1, <2>3
    <3>2. walk # <<f>>
      <4>1. ASSUME walk = <<f>> PROVE FALSE
        <5>1. Len(walk) = 1
          BY <4>1
        <5>2. Tail(walk) = <<>>
          BY <1>1, <5>1, OneFrame
        <5> QED BY <2>3, <5>2 DEF ToSet
      <4> QED BY <4>1
    <3> QED BY <1>3, <3>1, <3>2 DEF Listed, Exists
  <2> QED BY <1>5, <1>7, <2>2, <2>3
<1> QED BY <1>6, <1>7 DEF ListInv, TopLast

(* The other steps of the monitor end a traversal or start one. *)
LEMMA ListMonitor ==
  ASSUME IInv, MonitorStep, ~Visit, ~ReadDir
  PROVE  Started(walk')
<1>1. pc # "walk" => walk = <<>>
  BY DEF IInv, TypeOK
<1>2. CASE ReadEvents \/ Hanging \/ SecondRead \/ Alarm \/ Ignored \/ Unmounted
           \/ MovedWithin
  <2>1. pc # "walk" /\ walk' = walk
    BY <1>2 DEF ReadEvents, Hanging, SecondRead, Alarm, Ignored, Unmounted,
                MovedWithin, Found, Processing
  <2> QED BY <1>1, <2>1 DEF Started
<1>3. ASSUME NEW roots, NEW place, reinitialize(roots, place) PROVE Started(walk')
  BY <1>3 DEF reinitialize, Started
<1>4. ASSUME NEW how, Exit(how) PROVE Started(walk')
  BY <1>4 DEF Exit, Started
<1>5. ASSUME NEW p, NEW roots, NEW rest, zapSubtree(p, roots, rest), pc # "walk"
      PROVE  Started(walk')
  <2>1. UNCHANGED walk \/ reinitialize(roots, "select")
    BY <1>5 DEF zapSubtree
  <2> QED BY <1>1, <1>3, <1>5, <2>1 DEF Started
<1>6. CASE CacheProblem \/ QueueOverflow
  BY <1>3, <1>4, <1>6 DEF CacheProblem, QueueOverflow
<1>7. CASE Created
  <2>1. pc # "walk"
    BY <1>7 DEF Created, Found, Processing
  <2>2. UNCHANGED walk \/ \E p, place : watchSubtree(p, place)
    BY <1>7 DEF Created
  <2> QED BY <1>1, <2>1, <2>2 DEF watchSubtree, Started
<1>8. CASE DeleteSelf
  <2>1. pc # "walk" /\ (UNCHANGED walk \/ Exit("exit"))
    BY <1>8 DEF DeleteSelf, Found, Processing
  <2> QED BY <1>1, <1>4, <2>1 DEF Started
<1>9. CASE MovedOut
  <2>1. pc # "walk"
    BY <1>9 DEF MovedOut, Found, Processing
  <2> QED BY <1>5, <1>9, <2>1 DEF MovedOut
<1>10. CASE MoveSelf
  <2>1. pc # "walk"
    BY <1>10 DEF MoveSelf, Found, Processing
  <2>2. \/ UNCHANGED walk
        \/ Exit("exit")
        \/ \E p, roots : zapSubtree(p, roots, Tail(buf))
    BY <1>10 DEF MoveSelf
  <2> QED BY <1>1, <1>4, <1>5, <2>1, <2>2 DEF Started
<1> QED BY <1>2, <1>6, <1>7, <1>8, <1>9, <1>10 DEF MonitorStep

(* Every step keeps the invariant of the traversal. *)
LEMMA NextListInv == IInv /\ TrackInv /\ ListInv /\ [Next]_vars => ListInv'
<1> SUFFICES ASSUME IInv, TrackInv, ListInv, [Next]_vars PROVE ListInv'
  OBVIOUS
<1>1. pc # "walk" => walk = <<>>
  BY DEF IInv, TypeOK
<1>2. CASE MonitorStep
  BY <1>2, ListVisit, ListReadDir, ListMonitor, ListStarted DEF TrackInv
<1>3. ASSUME NEW m \in Mutators, MutatorStep(m) PROVE ListInv'
  <2>1. CASE \/ ChooseCreate(m) \/ ChooseDelete(m) \/ ChooseRename(m)
             \/ ChooseUser(m) \/ RenameTo(m)
    <3>1. UNCHANGED <<tree, walk, raced>>
      BY <2>1 DEF ChooseCreate, ChooseDelete, ChooseRename, ChooseUser, Choose,
                  RenameTo, fsVars, monitor
    <3> QED BY <3>1, ListKept
  <2>2. CASE Mkdir(m)
    <3>1. UNCHANGED <<walk, raced>> /\ tree \subseteq tree'
      BY <2>2 DEF Mkdir, monitor
    <3> QED BY <3>1, ListKept
  <2>3. CASE Rmdir(m) \/ Rename(m)
    <3>1. UNCHANGED walk
      BY <2>3 DEF Rmdir, Rename, monitor
    <3>2. UNCHANGED <<tree, raced>> \/ (~raced' => Settled)
      BY <2>3 DEF Rmdir, Rename
    <3>3. Settled => walk = <<>>
      BY <1>1 DEF Settled
    <3> QED BY <3>1, <3>2, <3>3, ListKept
  <2> QED BY <1>3, <2>1, <2>2, <2>3 DEF MutatorStep
<1>4. ASSUME NEW r \in RootDirs, Unmount(r) PROVE ListInv'
  <2>1. raced' = TRUE /\ UNCHANGED walk
    BY <1>4 DEF Unmount, monitor
  <2> QED BY <2>1, ListKept
<1>5. CASE executeCommand \/ WatchFails
  <2>1. ASSUME NEW p, AddSubtree(p) PROVE Started(walk')
    BY <2>1 DEF AddSubtree, watchSubtree, Started
  <2>2. ASSUME NEW p, ZapSubtree(p) PROVE Started(walk')
    BY <1>1, <2>2 DEF ZapSubtree, Command, Started
  <2>3. CASE RebuildCache \/ Quit \/ WatchFails
    <3>1. Started(walk')
      BY <2>3 DEF RebuildCache, Quit, WatchFails, Exit, reinitialize, Started
    <3> QED BY <3>1, ListStarted
  <2> QED BY <1>5, <2>1, <2>2, <2>3, ListStarted DEF executeCommand
<1>6. CASE UNCHANGED vars
  <2>1. UNCHANGED <<tree, walk, raced>>
    BY <1>6 DEF vars, fsVars, monitor
  <2> QED BY <2>1, ListKept
<1> QED BY <1>2, <1>3, <1>4, <1>5, <1>6 DEF Next

(* The first traversal is of the root directories. *)
LEMMA ListInit ==
  ASSUME Init
  PROVE  ListInv
<1> DEFINE f == Frame(<<>>, RootDirs)
<1>1. f.path = <<>> /\ f.ino = 0
  BY DEF Frame
<1> HIDE DEF f
<1>2. walk = <<f>> /\ ToSet(<<f>>) = {f}
  BY ToSetSingle DEF Init, f
<1>3. TopLast(walk)
  BY <1>2 DEF TopLast
<1> QED BY <1>1, <1>2, <1>3 DEF ListInv, Listed

(* A directory is visited: it has its watch and its entry, and is traversed. *)
LEMMA TrackVisit ==
  ASSUME IInv, TrackInv, ListInv, Visit
  PROVE  TrackInv'
<1> DEFINE f0 == Head(walk)
<1>1. /\ pc = "walk" /\ walk \in Seq(Frames) /\ walk # <<>> /\ f0.ino = 0
  BY DEF Visit, IInv, TypeOK, Frames
<1>2. f0 \in Frames /\ Tail(walk) \in Seq(Frames)
      /\ ToSet(walk) = {f0} \cup ToSet(Tail(walk))
  BY <1>1, HeadTailProperties, ToSetHeadTail
<1>3. PICK n \in f0.names :
         LET p == Append(f0.path, n)
             rest == Unfinished([f0 EXCEPT !.names = @ \ {n}])
                     \o Tail(walk)
             old == {w \in watches : w.ino = InoAt(p)}
             wd == IF old = {} THEN nextWd ELSE (CHOOSE w \in old : TRUE).wd
         IN IF Exists(p)
            THEN /\ watches' = (watches \ old) \cup
                     {[wd |-> wd, ino |-> InoAt(p), self |-> isRootDirPath(p)]}
                 /\ nextWd' = IF old = {} THEN nextWd + 1 ELSE nextWd
                 /\ cache' = CacheEntry(wd, p)
                 /\ Continue(<<[Frame(p, {}) EXCEPT !.ino = InoAt(p)]>> \o rest)
            ELSE /\ Continue(rest) \/ Continue(Abandoned(rest))
                 /\ UNCHANGED <<watches, nextWd, cache>>
  BY DEF Visit
<1> DEFINE p == Append(f0.path, n)
           f1 == [f0 EXCEPT !.names = @ \ {n}]
           rest == Unfinished(f1) \o Tail(walk)
           old == {w \in watches : w.ino = InoAt(p)}
           wd == IF old = {} THEN nextWd ELSE (CHOOSE w \in old : TRUE).wd
           new == [wd |-> wd, ino |-> InoAt(p), self |-> isRootDirPath(p)]
           g == [Frame(p, {}) EXCEPT !.ino = InoAt(p)]
<1>4. UNCHANGED <<tree, nextIno, queue, buf, rootDirPaths, job, raced>>
  BY DEF Visit, fsVars, mutators
<1>5. f1 \in Frames /\ f1.path = f0.path /\ f1.ino = 0 /\ f1.names = f0.names \ {n}
  BY <1>1, <1>2 DEF Frames
<1>6. /\ ~Exists(p) => /\ walk' = rest \/ walk' = Abandoned(rest)
                       /\ UNCHANGED <<watches, nextWd, cache>>
      /\ Exists(p) => /\ walk' = <<g>> \o rest
                      /\ watches' = (watches \ old) \cup {new}
                      /\ nextWd' = IF old = {} THEN nextWd + 1 ELSE nextWd
                      /\ cache' = CacheEntry(wd, p)
  BY <1>3 DEF Continue
<1>7. g.path = p /\ g.ino = InoAt(p) /\ g.names = {}
  BY DEF Frame
<1>8. new.wd = wd /\ new.ino = InoAt(p) /\ new.self = isRootDirPath(p)
  OBVIOUS
<1>9. n \in AllNames /\ f0.path \in Paths \cup {<<>>} /\ n \in f0.names
  BY <1>2 DEF Frames
<1> HIDE DEF f0, f1, new, g
<1>10. rest \in Seq(Frames)
  BY <1>2, <1>5, UnfinishedType
<1>11. ToSet(rest) \subseteq {f1} \cup ToSet(Tail(walk))
  BY <1>2, <1>5, UnfinishedFacts
<1>12. ASSUME TreeInv, NEW d \in tree, d.path # p
       PROVE  /\ Len(d.path) = 1 /\ VisitedRoot(ToSet(walk), d.path[1]) =>
                   VisitedRoot(ToSet(rest), d.path[1])
              /\ \A e \in tree :
                   /\ Len(d.path) > 1 /\ e.path = Front(d.path)
                   /\ Visited(ToSet(walk), e, Last(d.path))
                   => Visited(ToSet(rest), e, Last(d.path))
  BY <1>1, <1>2, <1>5, <1>9, <1>12, VisitRest
<1>13. ASSUME ~raced, ~Exists(p) PROVE walk' = rest
  <2>1. ~Exists(Append(f0.path, n))
    BY <1>13
  <2>2. Abandoned(Unfinished(f1) \o Tail(walk)) = Unfinished(f1) \o Tail(walk)
    BY <1>1, <1>5, <1>9, <1>13, <2>1, ListRest DEF f0
  <2> QED BY <1>6, <1>13, <2>2
<1> HIDE DEF rest
<1>14. Pending' = Pending /\ Underway' = Underway
  BY <1>4 DEF Pending, Underway
<1>15. TreeInv /\ TreeInv'
  BY <1>4, <1>14, TreeSame DEF TrackInv
<1>16. ASSUME Sure' PROVE Rooted' /\ WalkInv' /\ Covered' /\ Phase'
  <2>1. Rooted /\ WalkInv /\ Covered /\ Phase
    BY <1>1, <1>4, <1>14, <1>16 DEF Sure, TrackInv, Ended
  <2>2. Steady \/ \E x \in cache, t \in tree : RootMoving(x, t)
    BY <1>1, <2>1, WalkPhase
  <2>3. \A f \in ToSet(rest) :
          /\ f.path = <<>> => f.ino = 0 /\ f.names \subseteq rootDirPaths
          /\ f.path # <<>> => f.path[1] \in rootDirPaths
          /\ f.ino # 0 => \E d \in tree : d.ino = f.ino /\ d.path = f.path
    <3>1. \A f \in ToSet(walk) :
            /\ f.path = <<>> => f.ino = 0 /\ f.names \subseteq rootDirPaths
            /\ f.path # <<>> => f.path[1] \in rootDirPaths
            /\ f.ino # 0 => \E d \in tree : d.ino = f.ino /\ d.path = f.path
      BY <2>1 DEF WalkInv
    <3> QED BY <1>2, <1>5, <1>11, <3>1
  <2>4. CASE ~Exists(p)
    <3>1. walk' = rest /\ UNCHANGED <<watches, nextWd, cache>>
      BY <1>4, <1>6, <1>16, <1>13, <2>4 DEF Sure
    <3>2. Rooted'
      BY <1>4, <2>1, <3>1 DEF Rooted
    <3>3. WalkInv'
      BY <1>4, <2>3, <3>1 DEF WalkInv
    <3>4. Phase'
      <4>1. CASE Steady
        <5>1. Steady'
          BY <1>4, <1>14, <3>1, <4>1 DEF Steady, Calm, Stale
        <5> QED BY <5>1 DEF Phase
      <4>2. ASSUME NEW x \in cache, NEW t \in tree, RootMoving(x, t) PROVE Phase'
        <5>1. RootMoving(x, t)'
          BY <1>4, <1>14, <3>1, <4>2 DEF RootMoving, Moved, Stale
        <5> QED BY <1>4, <3>1, <5>1 DEF Phase
      <4> QED BY <2>2, <4>1, <4>2
    <3>5. ASSUME NEW d \in tree, d.path[1] \in rootDirPaths, ~Seen(watches, d.ino)
          PROVE  CoveredDir(d)'
      <4>1. CoveredDir(d)
        BY <2>1, <3>5 DEF Covered
      <4>2. d.path # p
        BY <2>4 DEF Exists
      <4> QED BY <1>4, <1>12, <1>14, <1>15, <3>1, <4>1, <4>2 DEF CoveredDir
    <3>6. Covered'
      BY <1>4, <3>1, <3>5 DEF Covered
    <3> QED BY <3>2, <3>3, <3>4, <3>6
  <2>5. CASE Exists(p)
    <3>1. p # <<>>
      <4>1. f0.path \in Seq(AllNames)
        BY <1>9, PathType, EmptySeq
      <4> QED BY <1>9, <4>1, AppendProperties
    <3>2. PICK dp \in tree : dp.path = p /\ dp.ino = InoAt(p)
      BY <2>5, <3>1, TreeType DEF IInv
    <3>3. p \in Paths /\ InoAt(p) # 0
      BY <1>15, <3>2, InoAtPath DEF IInv
    <3>4. /\ p[1] \in rootDirPaths
          /\ isRootDirPath(p) <=> Len(p) = 1
      <4>1. p[1] \in rootDirPaths
        <5>1. CASE f0.path = <<>>
          <6>1. p = <<n>> /\ <<n>>[1] = n
            BY <1>9, <5>1, TopParts
          <6>2. n \in rootDirPaths
            BY <1>2, <1>9, <2>1, <5>1 DEF WalkInv
          <6> QED BY <6>1, <6>2
        <5>2. CASE f0.path # <<>>
          <6>1. f0.path[1] \in rootDirPaths
            BY <1>2, <2>1, <5>2 DEF WalkInv
          <6>2. f0.path \in Seq(AllNames) /\ Len(f0.path) \in Nat /\ Len(f0.path) >= 1
            BY <1>9, <5>2, PathParts
          <6>3. Append(f0.path, n)[1] = f0.path[1]
            BY <1>9, <6>2
          <6> QED BY <6>1, <6>3
        <5> QED BY <5>1, <5>2
      <4> QED BY <4>1 DEF isRootDirPath
    <3> DEFINE i == InoAt(p)
    <3> HIDE DEF p, i
    <3>5. /\ walk' = <<g>> \o rest /\ watches' = (watches \ old) \cup {new}
          /\ nextWd' = IF old = {} THEN nextWd + 1 ELSE nextWd
          /\ cache' = CacheEntry(wd, p)
      BY <1>6, <2>5
    <3>6. /\ new.wd = wd /\ new.ino = i /\ (new.self <=> Len(p) = 1)
          /\ dp.path = p /\ dp.ino = i /\ g.path = p /\ g.ino = i
      BY <1>7, <1>8, <3>2, <3>4 DEF i
    <3>7. ToSet(walk') = {g} \cup ToSet(rest)
      <4>1. g \in Frames
        <5>1. i \in Nat
          BY <3>2, TreeType DEF IInv, i
        <5> QED BY <3>3, <5>1 DEF g, Frame, Frames, i
      <4> DEFINE s == <<g>>
      <4>2. s \in Seq(Frames) /\ ToSet(s) = {g} /\ walk' = s \o rest
        BY <3>5, <4>1, ToSetSingle
      <4> HIDE DEF s
      <4> QED BY <1>10, <4>2, ToSetConcat
    <3>8. /\ \A w \in watches : \E v \in watches' : v.wd = w.wd /\ v.ino = w.ino
          /\ \A w \in watches' : w.ino = i \/ w \in watches
          /\ new \in watches'
          /\ \A c \in cache' : \/ c \in cache
                               \/ /\ c.wd = nextWd /\ c.path = p
                                  /\ new.wd = nextWd
          /\ cache \subseteq cache' /\ nextWd \in Nat /\ nextWd' \in Nat
          /\ nextWd <= nextWd'
          /\ Rooted'
      <4>1. CASE old = {}
        <5>1. /\ wd = nextWd /\ nextWd' = nextWd + 1 /\ nextWd \in Nat \ {0}
              /\ watches' = watches \cup {new} /\ new.wd = nextWd
          BY <3>5, <3>6, <4>1 DEF IInv, TypeOK
        <5>2. \A c \in cache : c.wd # nextWd
          BY <5>1 DEF IInv, TypeOK
        <5>3. \A w \in watches : w.wd # nextWd
          BY <5>1 DEF IInv, TypeOK
        <5> DEFINE c0 == [wd |-> nextWd, path |-> p]
        <5>4. cache' = cache \cup {c0}
          BY <3>5, <5>1, <5>2 DEF CacheEntry, findWatch
        <5>5. c0.wd = nextWd /\ c0.path = p
          OBVIOUS
        <5> HIDE DEF c0, old, wd
        <5>6. Rooted'
          BY <1>4, <2>1, <3>4, <3>6, <5>1, <5>2, <5>3, <5>4, <5>5 DEF Rooted
        <5>7. nextWd <= nextWd' /\ nextWd' \in Nat /\ nextWd \in Nat
          BY <5>1
        <5> QED BY <3>6, <5>1, <5>4, <5>5, <5>6, <5>7
      <4>2. CASE old # {}
        <5> DEFINE w0 == CHOOSE w \in old : TRUE
        <5>1. w0 \in watches /\ w0.ino = i /\ wd = w0.wd
          BY <4>2 DEF i
        <5>2. old = {w0}
          BY <5>1 DEF IInv, WatchInv, i
        <5> HIDE DEF w0
        <5>3. /\ watches' = (watches \ {w0}) \cup {new} /\ nextWd' = nextWd
              /\ new.wd = w0.wd
          BY <3>5, <3>6, <4>2, <5>1, <5>2
        <5>4. PICK c0 \in cache : c0.wd = w0.wd
          BY <5>1, EntryOf
        <5>5. cache' = cache
          BY <3>5, <5>1, <5>4 DEF CacheEntry, findWatch
        <5>6. c0.path = p
          BY <1>15, <2>2, <3>4, <3>6, <5>1, <5>4, Agrees
        <5>7. nextWd \in Nat
          BY DEF IInv, TypeOK
        <5> HIDE DEF old, wd
        <5>8. \A c \in cache : c.wd = w0.wd => c.path = p
          BY <5>4, <5>6 DEF IInv, CacheMatchesWatches
        <5>9. Rooted'
          BY <1>4, <2>1, <3>6, <5>3, <5>5, <5>8 DEF Rooted
        <5> QED BY <3>6, <5>1, <5>3, <5>5, <5>7, <5>9
      <4> QED BY <4>1, <4>2
    <3> HIDE DEF old, wd
    <3>9. WalkInv'
      BY <1>4, <2>3, <3>1, <3>4, <3>6, <3>7 DEF WalkInv, p
    <3>10. ASSUME NEW c \in cache, NEW q, At(watches, tree, c.wd, q)
           PROVE  At(watches', tree', c.wd, q)
      BY <1>4, <3>8, <3>10 DEF At
    <3>11. At(watches', tree', new.wd, p)
      BY <1>4, <3>6, <3>8 DEF At
    <3>12. ASSUME NEW e \in Pending, Stale(e) PROVE Stale(e)'
      <4>1. e.wd \in Nat
        BY PendingParts DEF Events
      <4>2. e.wd < nextWd'
        BY <3>8, <3>12, <4>1 DEF Stale
      <4>3. e.wd # nextWd
        BY <3>8, <3>12, <4>1 DEF Stale
      <4> QED BY <3>8, <3>12, <4>2, <4>3 DEF Stale
    <3>13. Phase'
      <4>1. CASE Steady
        <5>1. \A c \in cache' : At(watches', tree', c.wd, c.path)
          BY <3>8, <3>10, <3>11, <4>1 DEF Steady
        <5>2. Calm(Pending)'
          BY <1>14, <3>12, <4>1 DEF Steady, Calm
        <5> QED BY <5>1, <5>2 DEF Phase, Steady
      <4>2. ASSUME NEW x \in cache, NEW t \in tree, RootMoving(x, t) PROVE Phase'
        <5>1. /\ Len(x.path) = 1 /\ Len(t.path) > 1 /\ t.path[1] \notin rootDirPaths
              /\ \A d \in tree : d.path[1] # x.path[1]
              /\ \A c \in cache : At(watches, tree, c.wd, Now(c.path, x.path, t.path))
              /\ \A e \in Pending : e.mask \in Structural =>
                    Stale(e) \/ (e.mask = "IN_MOVE_SELF" /\ e.wd = x.wd)
              /\ \/ \E e \in Pending : e.mask = "IN_MOVE_SELF" /\ e.wd = x.wd
                 \/ \E j \in Underway, w \in watches : w.wd = x.wd /\ w.ino = j.ino
          BY <4>2 DEF RootMoving, Moved
        <5>2. Now(p, x.path, t.path) = p
          <6>1. x.path \in Paths
            BY DEF IInv, TypeOK
          <6> QED BY <3>3, <3>6, <5>1, <6>1, PrefixFacts DEF Now
        <5>3. Moved(x.path, t.path)'
          BY <3>8, <3>10, <3>11, <5>1, <5>2 DEF Moved
        <5>4. \/ \E e \in Pending' : e.mask = "IN_MOVE_SELF" /\ e.wd = x.wd
              \/ \E j \in Underway', w \in watches' : w.wd = x.wd /\ w.ino = j.ino
          BY <1>14, <3>8, <5>1
        <5>5. RootMoving(x, t)'
          BY <1>4, <1>14, <3>12, <5>1, <5>3, <5>4 DEF RootMoving
        <5> QED BY <1>4, <3>8, <5>5 DEF Phase
      <4> QED BY <2>2, <4>1, <4>2
    <3>14. ASSUME NEW d \in tree, d.path[1] \in rootDirPaths, ~Seen(watches', d.ino)
           PROVE  CoveredDir(d)'
      <4>1. ~Seen(watches, d.ino)
        BY <3>8, <3>14 DEF Seen
      <4>2. CoveredDir(d)
        BY <2>1, <3>14, <4>1 DEF Covered
      <4>3. d.path # p
        <5>1. d # dp
          BY <3>6, <3>8, <3>14 DEF Seen
        <5> QED BY <1>15, <3>6, <5>1 DEF TreeInv
      <4>4. Len(d.path) = 1 => VisitedRoot(ToSet(walk'), d.path[1])
        BY <1>12, <1>15, <3>7, <4>2, <4>3 DEF CoveredDir, VisitedRoot
      <4>5. ASSUME NEW e \in tree, Len(d.path) > 1, e.path = Front(d.path),
                   Seen(watches', e.ino)
            PROVE  \/ Visited(ToSet(walk'), e, Last(d.path))
                   \/ Announced(Pending', watches', Underway', e.ino, Last(d.path))
        <5>1. CASE e.ino = i
          BY <3>6, <3>7, <5>1 DEF Visited
        <5>2. CASE e.ino # i
          <6>1. Seen(watches, e.ino)
            BY <3>8, <4>5, <5>2 DEF Seen
          <6>2. CASE Visited(ToSet(walk), e, Last(d.path))
            <7>1. Visited(ToSet(rest), e, Last(d.path))
              BY <1>12, <1>15, <4>3, <4>5, <6>2
            <7> QED BY <3>7, <7>1 DEF Visited
          <6>3. CASE Announced(Pending, watches, Underway, e.ino, Last(d.path))
            BY <1>14, <3>8, <6>3 DEF Announced
          <6> QED BY <4>2, <4>5, <6>1, <6>2, <6>3 DEF CoveredDir
        <5> QED BY <5>1, <5>2
      <4> QED BY <1>4, <4>4, <4>5 DEF CoveredDir
    <3>15. Covered'
      BY <1>4, <3>14 DEF Covered
    <3> QED BY <3>8, <3>9, <3>13, <3>15
  <2> QED BY <2>4, <2>5
<1> QED BY <1>15, <1>16 DEF TrackInv

-----------------------------------------------------------------------------
(* The commands, and the steps of the mutators that change nothing. *)

(* Command a: the subtree leaves the cache and is traversed again. *)
LEMMA TrackAddSubtree ==
  ASSUME IInv, TrackInv, NEW p \in Arguments, AddSubtree(p)
  PROVE  TrackInv'
<1> DEFINE f == Frame(Front(p), {Last(p)})
<1>1. /\ pc = "select" /\ walk' = <<f>>
      /\ UNCHANGED <<tree, nextIno, job, buf, rootDirPaths>>
      /\ \E entries \in Zapped(p) : ZapEntries(entries)
  BY DEF AddSubtree, Command, fsVars, watchSubtree
<1>2. raced' = (raced \/ ~Settled \/ p[1] \notin rootDirPaths)
  BY DEF AddSubtree
<1>3. p \in Paths
  BY ArgumentType
<1>4. f.path = Front(p) /\ f.ino = 0 /\ f.names = {Last(p)} /\ ToSet(<<f>>) = {f}
  BY ToSetSingle DEF Frame
<1>5. ToSet(walk') = {f}
  BY <1>1, <1>4
<1> HIDE DEF f
<1>6. Underway' = Underway
  BY <1>1 DEF Underway
<1>7. TreeInv /\ TreeInv'
  BY <1>1, <1>6, TreeSame DEF TrackInv
<1>8. ASSUME Sure' PROVE Rooted' /\ WalkInv' /\ Covered' /\ Phase'
  <2>1. ~raced /\ Settled /\ p[1] \in rootDirPaths
    BY <1>2, <1>8, Zenon DEF Sure
  <2>2. Sure
    <3>1. buf = <<>> /\ queue = <<>>
      BY <2>1 DEF Settled, IInv, TypeOK
    <3> QED BY <1>1, <2>1, <3>1, PendingParts DEF Sure, Ended
  <2>3. Rooted /\ WalkInv /\ Covered /\ Phase
    BY <2>2 DEF TrackInv
  <2>4. /\ Steady /\ walk = <<>> /\ Underway = {} /\ Pending = {}
        /\ \A d \in tree : d.path[1] \in rootDirPaths =>
             \E c \in cache, w \in watches :
                c.path = d.path /\ w.wd = c.wd /\ w.ino = d.ino
        /\ \A w \in watches : \E c \in cache, d \in tree :
             /\ w.wd = c.wd /\ w.ino = d.ino /\ d.path = c.path
             /\ d.path[1] \in rootDirPaths
    BY <1>7, <2>1, <2>3, SettledExact
  <2>5. CanZap(p)
    BY <2>4 DEF CanZap, CachedUnder, Steady, At, Watched
  <2>6. CachedUnder(p) \in SUBSET cache /\ ZapEntries(CachedUnder(p))
    BY <1>1, <2>5 DEF Zapped, CachedUnder
  <2>7. /\ cache' = cache \ CachedUnder(p) /\ nextWd' = nextWd
        /\ watches' \subseteq watches
        /\ \A w \in watches : w \in watches' <=>
              \A c \in CachedUnder(p) : c.wd # w.wd
        /\ \A e \in ToSet(queue') : \/ e \in ToSet(queue)
                                    \/ e.mask = "IN_IGNORED"
                                    \/ e = Overflow
    BY <2>6, ZapFacts
  <2>8. Steady'
    <3>1. Calm(Pending)'
      BY <1>1, <2>4, <2>7, EventType DEF Calm, Pending, Structural
    <3>2. \A c \in cache' : At(watches', tree', c.wd, c.path)
      BY <1>1, <2>4, <2>6, <2>7, ZapKeeps DEF Steady
    <3> QED BY <3>1, <3>2 DEF Steady
  <2>9. Rooted'
    BY <1>1, <2>3, <2>7 DEF Rooted
  <2>10. WalkInv'
    <3>1. CASE Len(p) = 1
      <4>1. Front(p) = <<>> /\ Last(p) = p[1]
        BY <1>3, <3>1, SingleParts
      <4> QED BY <1>1, <1>4, <1>5, <2>1, <4>1 DEF WalkInv
    <3>2. CASE Len(p) > 1
      <4>1. Front(p) \in Paths /\ Front(p)[1] = p[1] /\ Front(p) # <<>>
        BY <1>3, <3>2, FrontParts, PathType
      <4> QED BY <1>1, <1>4, <1>5, <2>1, <4>1 DEF WalkInv
    <3>3. Len(p) \in Nat /\ Len(p) >= 1
      BY <1>3, PathParts
    <3>4. \A n \in Nat : n >= 1 => n = 1 \/ n > 1
      OBVIOUS
    <3>5. Len(p) = 1 \/ Len(p) > 1
      BY <3>3, <3>4, Zenon
    <3> QED BY <3>1, <3>2, <3>5
  <2>11. ASSUME NEW d \in tree, d.path[1] \in rootDirPaths, ~Seen(watches', d.ino)
         PROVE  CoveredDir(d)'
    <3>1. PICK c \in cache, w \in watches :
             c.path = d.path /\ w.wd = c.wd /\ w.ino = d.ino
      BY <2>4, <2>11
    <3>2. c \in CachedUnder(p)
      <4>1. PICK b \in CachedUnder(p) : b.wd = w.wd
        BY <2>7, <2>11, <3>1 DEF Seen
      <4> QED BY <2>6, <3>1, <4>1 DEF IInv, CacheMatchesWatches
    <3>3. IsPrefix(p, d.path) /\ d.path \in Paths
      BY <1>7, <3>1, <3>2, InoAtPath DEF CachedUnder, IInv
    <3>4. CASE d.path = p
      <4>1. Len(p) = 1 => VisitedRoot(ToSet(walk'), p[1])
        BY <1>3, <1>4, <1>5, SingleParts DEF VisitedRoot
      <4>2. \A e \in tree : e.path = Front(p) => Visited(ToSet(walk'), e, Last(p))
        BY <1>4, <1>5 DEF Visited
      <4> QED BY <1>1, <3>4, <4>1, <4>2 DEF CoveredDir
    <3>5. CASE d.path # p
      <4>1. Len(d.path) > 1 /\ IsPrefix(p, Front(d.path))
        BY <1>3, <3>3, <3>5, PrefixFacts
      <4>2. ASSUME NEW e \in tree, e.path = Front(d.path), Seen(watches', e.ino)
            PROVE  FALSE
        <5>1. PICK v \in watches' : v.ino = e.ino
          BY <4>2 DEF Seen
        <5>2. PICK b \in cache, g \in tree :
                 v.wd = b.wd /\ v.ino = g.ino /\ g.path = b.path
          BY <2>4, <2>7, <5>1
        <5>3. g = e
          BY <1>7, <5>1, <5>2 DEF TreeInv
        <5>4. b \in CachedUnder(p)
          BY <4>1, <4>2, <5>2, <5>3 DEF CachedUnder
        <5> QED BY <2>7, <5>1, <5>2, <5>4
      <4>3. Len(d.path) # 1
        <5>1. \A n : n > 1 => n # 1
          OBVIOUS
        <5> QED BY <4>1, <5>1
      <4> QED BY <1>1, <4>2, <4>3 DEF CoveredDir
    <3> QED BY <3>4, <3>5
  <2>12. Covered'
    BY <1>1, <2>11 DEF Covered
  <2> QED BY <2>8, <2>9, <2>10, <2>12 DEF Phase
<1> QED BY <1>7, <1>8 DEF TrackInv

(* Command z, and an unmount: nothing is sure any more. *)
LEMMA TrackCut ==
  ASSUME IInv, TrackInv,
         \/ \E p \in Arguments : ZapSubtree(p)
         \/ \E r \in RootDirs : Unmount(r)
  PROVE  TrackInv'
<1>1. CASE \E p \in Arguments : ZapSubtree(p)
  <2>1. UNCHANGED <<tree, nextIno>> /\ Underway' = Underway /\ raced' = TRUE
    BY <1>1 DEF ZapSubtree, Command, fsVars, Underway
  <2> QED BY <2>1, TreeSame, TrackLost DEF TrackInv
<1>2. ASSUME NEW r \in RootDirs, Unmount(r) PROVE TrackInv'
  <2>1. raced' = TRUE
    BY <1>2 DEF Unmount
  <2> QED BY <1>2, <2>1, TreeUnmounted, TrackLost DEF TrackInv
<1> QED BY <1>1, <1>2

(* A mutator goes on without a change of the tree. *)
LEMMA TrackNothing ==
  ASSUME IInv, TrackInv, NEW m \in Mutators, NEW j, job' = [job EXCEPT ![m] = j],
         job[m].pc # "moved", j.pc # "moved",
         UNCHANGED <<tree, nextIno, watches, nextWd, queue, monitor, raced>>
  PROVE  TrackInv'
<1>1. Underway' = Underway
  BY UnderwaySame
<1>2. UNCHANGED <<pc, buf, cache, rootDirPaths, walk>>
  BY DEF monitor
<1>3. Pending' = Pending /\ First' = First /\ Rest' = Rest
  BY <1>2 DEF Pending, First, Rest
<1>4. Sure' => Sure
  BY <1>2, <1>3 DEF Sure
<1> QED BY <1>1, <1>2, <1>3, <1>4, TrackSame

(* A mutator chooses what to do. *)
LEMMA TrackChoose ==
  ASSUME IInv, TrackInv, NEW m \in Mutators,
         ChooseCreate(m) \/ ChooseDelete(m) \/ ChooseRename(m) \/ ChooseUser(m)
  PROVE  TrackInv'
<1>1. ASSUME NEW mode, NEW place, Choose(m, mode, place),
             [place EXCEPT !.cookie = ops + 1].pc # "moved"
      PROVE  TrackInv'
  <2> DEFINE j == [place EXCEPT !.cookie = ops + 1]
  <2>1. job' = [job EXCEPT ![m] = j] /\ job[m].pc # "moved" /\ j.pc # "moved"
        /\ UNCHANGED <<tree, nextIno, watches, nextWd, queue, monitor, raced>>
    BY <1>1 DEF Choose, fsVars, kernel
  <2> HIDE DEF j
  <2> QED BY <2>1, TrackNothing
<1>2. \A p, q :
        /\ [[Idle EXCEPT !.pc = "mkdir", !.path = p]
              EXCEPT !.cookie = ops + 1].pc = "mkdir"
        /\ [[Idle EXCEPT !.pc = "rmdir", !.path = p]
              EXCEPT !.cookie = ops + 1].pc = "rmdir"
        /\ [[Idle EXCEPT !.pc = "rename", !.path = p, !.to = q]
              EXCEPT !.cookie = ops + 1].pc = "rename"
  BY DEF Idle
<1>3. CASE ChooseCreate(m)
  <2>1. PICK p : Choose(m, "c", [Idle EXCEPT !.pc = "mkdir", !.path = p])
    BY <1>3 DEF ChooseCreate
  <2> QED BY <1>1, <1>2, <2>1
<1>4. CASE ChooseDelete(m)
  <2>1. PICK p : Choose(m, "d", [Idle EXCEPT !.pc = "rmdir", !.path = p])
    BY <1>4 DEF ChooseDelete
  <2> QED BY <1>1, <1>2, <2>1
<1>5. CASE ChooseRename(m)
  <2>1. PICK p, q : Choose(m, "m", [Idle EXCEPT !.pc = "rename", !.path = p,
                                                !.to = q])
    BY <1>5 DEF ChooseRename
  <2> QED BY <1>1, <1>2, <2>1
<1>6. CASE ChooseUser(m)
  <2>1. PICK p, q :
           \/ Choose(m, "user", [Idle EXCEPT !.pc = "rename", !.path = p, !.to = q])
           \/ Choose(m, "user", [Idle EXCEPT !.pc = "rmdir", !.path = p])
    BY <1>6 DEF ChooseUser
  <2> QED BY <1>1, <1>2, <2>1
<1> QED BY <1>3, <1>4, <1>5, <1>6

-----------------------------------------------------------------------------
(* The events of one directory. *)

(* The sequences of a set of one element and of none. *)
LEMMA SetToSeqOne ==
  /\ \A a : SetToSeq({a}) = <<a>>
  /\ SetToSeq({}) = <<>>
<1>1. ASSUME NEW a PROVE SetToSeq({a}) = <<a>>
  <2> DEFINE S == {a}
             s == SetToSeq(S)
  <2>1. IsFiniteSet(S) /\ Cardinality(S) = 1
    BY FS_Singleton
  <2>2. ExistsBijection(1..1, S)
    BY <2>1, FS_CardinalityType
  <2>3. \E g \in [1..1 -> S] : IsInjective(g)
    BY <2>2 DEF ExistsBijection, Bijection, Injection, IsInjective
  <2>4. s \in [1..1 -> S]
    BY <2>1, <2>3 DEF SetToSeq
  <2> HIDE DEF s
  <2>5. s \in Seq(S) /\ Len(s) = 1 /\ s[1] = a
    BY <2>4
  <2>6. s = <<a>>
    BY <2>5
  <2> QED BY <2>6 DEF s
<1>2. SetToSeq({}) = <<>>
  <2> DEFINE S == {}
             s == SetToSeq(S)
  <2>1. IsFiniteSet(S)
    BY FS_EmptySet
  <2> HIDE DEF S
  <2>2. s \in Seq(S) /\ ToSet(s) = S
    BY <2>1, SetToSeqElements
  <2> HIDE DEF s
  <2>3. s = <<>>
    <3> SUFFICES ASSUME s # <<>> PROVE FALSE
      OBVIOUS
    <3>1. ToSet(s) = {Head(s)} \cup ToSet(Tail(s))
      BY <2>2, ToSetHeadTail
    <3> QED BY <2>2, <3>1 DEF S
  <2> QED BY <2>3 DEF s, S
<1> QED BY <1>1, <1>2

(* A directory has at most one watch, and so at most one event. *)
LEMMA EventsOfOne ==
  ASSUME IInv, NEW i, NEW mask, NEW name, NEW cookie
  PROVE  /\ ~Seen(watches, i) => EventsOf(i, mask, name, cookie) = <<>>
         /\ \A w \in watches : w.ino = i =>
              EventsOf(i, mask, name, cookie) = <<Event(w.wd, mask, name, cookie)>>
<1> DEFINE T == {x \in watches : x.ino = i}
           E == {Event(w.wd, mask, name, cookie) : w \in T}
<1>1. EventsOf(i, mask, name, cookie) = SetToSeq(E)
  BY DEF EventsOf
<1>2. ASSUME ~Seen(watches, i) PROVE E = {}
  BY <1>2 DEF Seen
<1>3. ASSUME NEW w \in watches, w.ino = i
      PROVE  E = {Event(w.wd, mask, name, cookie)}
  <2>1. T = {w}
    BY <1>3 DEF IInv, WatchInv
  <2> HIDE DEF T
  <2> QED BY <2>1
<1> HIDE DEF E
<1> QED BY <1>1, <1>2, <1>3, SetToSeqOne

(* What rmdir() queues. *)
LEMMA GoneOne ==
  ASSUME IInv, NEW i
  PROVE  LET g == Gone({i}, "IN_DELETE_SELF") IN
         /\ g \in Seq(Events)
         /\ ~Seen(watches, i) => g = <<>>
         /\ \A w \in watches : w.ino = i =>
              /\ g # <<>> /\ Head(g) = Event(w.wd, "IN_DELETE_SELF", "", 0)
              /\ ToSet(Tail(g)) = {Event(w.wd, "IN_IGNORED", "", 0)}
<1> DEFINE mask == "IN_DELETE_SELF"
           T == {x \in watches : x.ino \in {i}}
           W == {w.wd : w \in T}
           wds == SetToSeq(W)
           g == Gone({i}, mask)
<1>1. g = [k \in 1..2 * Len(wds) |-> Event(wds[(k + 1) \div 2],
                       IF k % 2 = 1 THEN mask ELSE "IN_IGNORED", "", 0)]
  BY DEF Gone
<1>2. /\ g \in Seq(Events)
      /\ \A e \in ToSet(g) : \E w \in watches : w.ino \in {i} /\ e.wd = w.wd
  BY GoneElements DEF IInv, WatchInv, GoneMasks
<1>3. ASSUME ~Seen(watches, i) PROVE g = <<>>
  <2>1. ToSet(g) = {}
    BY <1>2, <1>3 DEF Seen
  <2> HIDE DEF g
  <2>2. g # <<>> => ToSet(g) = {Head(g)} \cup ToSet(Tail(g))
    BY <1>2, ToSetHeadTail
  <2> QED BY <2>1, <2>2
<1>4. ASSUME NEW w \in watches, w.ino = i
      PROVE  /\ g # <<>> /\ Head(g) = Event(w.wd, mask, "", 0)
             /\ ToSet(Tail(g)) = {Event(w.wd, "IN_IGNORED", "", 0)}
  <2>1. T = {w}
    BY <1>4 DEF IInv, WatchInv
  <2> HIDE DEF T
  <2>2. W = {w.wd}
    BY <2>1
  <2> HIDE DEF W
  <2>3. wds = <<w.wd>>
    BY <2>2, SetToSeqOne
  <2>4. Len(wds) = 1 /\ wds[1] = w.wd
    BY <2>3
  <2> HIDE DEF wds
  <2>5. /\ DOMAIN g = 1..2 /\ g[1] = Event(w.wd, mask, "", 0)
        /\ g[2] = Event(w.wd, "IN_IGNORED", "", 0)
    <3>1. (1 + 1) \div 2 = 1 /\ 1 % 2 = 1 /\ (2 + 1) \div 2 = 1 /\ 2 % 2 # 1
          /\ 1 \in 1..2 * 1 /\ 2 \in 1..2 * 1 /\ 2 * 1 = 2
      OBVIOUS
    <3>2. DOMAIN g = 1..2 * Len(wds)
      BY <1>1
    <3>3. \A k \in 1..2 * Len(wds) :
            g[k] = Event(wds[(k + 1) \div 2],
                         IF k % 2 = 1 THEN mask ELSE "IN_IGNORED", "", 0)
      BY <1>1
    <3> HIDE DEF g, mask
    <3>4. g[1] = Event(w.wd, mask, "", 0)
      BY <2>4, <3>1, <3>3
    <3>5. g[2] = Event(w.wd, "IN_IGNORED", "", 0)
      BY <2>4, <3>1, <3>3
    <3> QED BY <2>4, <3>1, <3>2, <3>4, <3>5
  <2> HIDE DEF g
  <2>6. Len(g) = 2 /\ g # <<>> /\ Head(g) = g[1]
    <3>1. DOMAIN g = 1..Len(g) /\ Len(g) \in Nat
      BY <1>2, LenProperties
    <3>2. ASSUME NEW n \in Nat, 1..n = 1..2 PROVE n = 2
      <4>1. 2 \in 1..n /\ ~(3 \in 1..n)
        BY <3>2
      <4> QED BY <4>1
    <3>3. Len(g) = 2
      BY <2>5, <3>1, <3>2, Zenon
    <3> QED BY <1>2, <3>3
  <2>7. Tail(g) \in Seq(Events) /\ Len(Tail(g)) = 1 /\ Tail(g)[1] = g[2]
    <3>1. /\ Tail(g) \in Seq(Events) /\ Len(Tail(g)) = Len(g) - 1
          /\ \A k \in 1..Len(Tail(g)) : Tail(g)[k] = g[k + 1]
      BY <1>2, <2>6, HeadTailProperties
    <3>2. Len(Tail(g)) = 1 /\ 1 \in 1..Len(Tail(g)) /\ 1 + 1 = 2
      BY <2>6, <3>1
    <3> QED BY <3>1, <3>2
  <2>8. ToSet(Tail(g)) = {g[2]}
    <3>1. ToSet(Tail(g)) = {Tail(g)[k] : k \in 1..1}
      BY <2>7, ToSetElements
    <3> QED BY <2>7, <3>1
  <2> QED BY <2>5, <2>6, <2>8
<1> QED BY <1>2, <1>3, <1>4

-----------------------------------------------------------------------------
(* The steps of the mutators that change the tree. *)

(* A directory is made, in a monitored one with its event. *)
LEMMA TrackMkdir ==
  ASSUME IInv, TrackInv, NEW m \in Mutators, Mkdir(m)
  PROVE  TrackInv'
<1> DEFINE p == job[m].path
           made == Exists(Front(p)) /\ ~Exists(p)
           i == InoAt(Front(p))
           events == EventsOf(i, "IN_CREATE", Last(p), 0)
           j1 == [job[m] EXCEPT !.path = NewPath(p)]
           new == [ino |-> nextIno, path |-> p]
<1>1. ReadyJob(job[m]) /\ job[m].pc = "mkdir" /\ job[m].pc # "moved"
  BY JobsReady DEF IInv, Mkdir
<1>2. p \in Paths /\ Len(p) > 1 /\ Last(p) \in Names /\ Len(p) # 1
  <2>1. p \in Paths /\ Len(p) > 1 /\ Last(p) \in Names
    BY <1>1, FrontLastPath DEF ReadyJob
  <2>2. \A n : n > 1 => n # 1
    OBVIOUS
  <2> QED BY <2>1, <2>2
<1>3. job' = [job EXCEPT ![m] = Idle] \/ job' = [job EXCEPT ![m] = j1]
  BY DEF Mkdir
<1>4. Idle.pc # "moved" /\ j1.pc # "moved"
  BY <1>1, IdleJob DEF ReadyJob, Jobs
<1>5. CASE ~made
  <2>1. UNCHANGED <<tree, nextIno, watches, nextWd, queue, monitor, raced>>
    BY <1>5 DEF Mkdir
  <2> HIDE DEF j1, p
  <2> QED BY <1>1, <1>3, <1>4, <2>1, TrackNothing
<1>6. CASE made
  <2>1. /\ tree' = tree \cup {new} /\ nextIno' = nextIno + 1
        /\ queue' = Notify(queue, events)
        /\ UNCHANGED <<watches, nextWd, pc, buf, cache, rootDirPaths, walk, raced>>
    BY <1>6 DEF Mkdir, monitor
  <2>2. new.ino = nextIno /\ new.path = p
    OBVIOUS
  <2>3. Underway' = Underway
    <3> HIDE DEF j1
    <3> QED BY <1>1, <1>3, <1>4, UnderwaySame
  <2> HIDE DEF j1
  <2>4. TreeInv
    BY DEF TrackInv
  <2>5. TreeInv'
    BY <1>2, <1>6, <2>1, <2>3, <2>4, TreeMade
  <2>6. Front(p) \in Paths /\ Front(p) # <<>> /\ Front(p)[1] = p[1]
    BY <1>2, FrontParts, PathType
  <2>7. PICK pr \in tree : pr.path = Front(p) /\ pr.ino = i
    BY <1>6, <2>6, TreeType DEF IInv
  <2>8. /\ \A w \in watches : w.ino # nextIno
        /\ \A w \in watches : w.wd \in Nat
    BY DEF IInv, TypeOK
  <2>9. /\ events \in Seq(Events)
        /\ \A e \in ToSet(events) : e.mask = "IN_CREATE"
        /\ \A w \in watches : w.ino = i => \E e \in ToSet(events) :
              e.mask = "IN_CREATE" /\ e.wd = w.wd /\ e.name = Last(p)
    <3>1. 0 \in 0..MaxOps
      BY DtreeAssumption
    <3>2. \A w \in watches : Event(w.wd, "IN_CREATE", Last(p), 0) \in Events
      BY <1>2, <2>8, <3>1, EventType DEF NamedMasks
    <3>3. IsFiniteSet(watches)
      BY DEF IInv, WatchInv
    <3> HIDE DEF p, i
    <3>4. events \in Seq(Events) /\ \A e \in ToSet(events) : e.mask = "IN_CREATE"
      BY <3>2, <3>3, EventsOfElements
    <3>5. ASSUME NEW w \in watches, w.ino = i
          PROVE  \E e \in ToSet(events) :
                   e.mask = "IN_CREATE" /\ e.wd = w.wd /\ e.name = Last(p)
      <4> DEFINE e == Event(w.wd, "IN_CREATE", Last(p), 0)
      <4>1. events = <<e>>
        BY <3>5, EventsOfOne
      <4>2. e.mask = "IN_CREATE" /\ e.wd = w.wd /\ e.name = Last(p)
        BY DEF Event
      <4> HIDE DEF events, e
      <4>3. ToSet(events) = {e}
        BY <4>1, ToSetSingle
      <4> QED BY <4>2, <4>3
    <3> QED BY <3>4, <3>5
  <2> HIDE DEF p, i, events, new
  <2>10. /\ Pending \subseteq Pending'
         /\ Pending' \subseteq Pending \cup ToSet(events) \cup {Overflow}
         /\ ToSet(events) \subseteq Pending' \/ Overflow \in Pending'
         /\ Pending # {} => /\ First' = First
                            /\ Rest' \subseteq Rest \cup ToSet(events) \cup {Overflow}
    BY <2>1, <2>9, PendingQueued
  <2>11. ASSUME Sure' PROVE Rooted' /\ WalkInv' /\ Covered' /\ Phase'
    <3>1. Rooted /\ WalkInv /\ Covered /\ Phase /\ ToSet(events) \subseteq Pending'
      BY <2>1, <2>10, <2>11 DEF Sure, TrackInv
    <3>2. Rooted'
      BY <2>1, <3>1 DEF Rooted
    <3>3. WalkInv'
      BY <2>1, <3>1 DEF WalkInv
    <3>4. \A k, n : Announced(Pending, watches, Underway, k, n) =>
                    Announced(Pending', watches', Underway', k, n)
      BY <2>1, <2>3, <2>10 DEF Announced
    <3>5. \A d \in tree' : Seen(watches, d.ino) => d \in tree
      BY <2>1, <2>2, <2>8 DEF Seen
    <3>6. ASSUME NEW d \in tree', d.path[1] \in rootDirPaths, ~Seen(watches, d.ino)
          PROVE  CoveredDir(d)'
      <4>1. CASE d \in tree
        <5>1. CoveredDir(d)
          BY <3>1, <3>6, <4>1 DEF Covered
        <5> QED BY <2>1, <3>4, <3>5, <5>1 DEF CoveredDir
      <4>2. CASE d = new
        <5>1. ASSUME NEW e \in tree', e.path = Front(p), Seen(watches, e.ino)
              PROVE  Announced(Pending', watches', Underway', e.ino, Last(p))
          <6>1. e = pr
            BY <2>4, <2>7, <3>5, <5>1 DEF TreeInv
          <6>2. PICK w \in watches : w.ino = i
            BY <2>7, <5>1, <6>1 DEF Seen
          <6>3. PICK a \in ToSet(events) :
                   a.mask = "IN_CREATE" /\ a.wd = w.wd /\ a.name = Last(p)
            BY <2>9, <6>2
          <6> QED BY <2>1, <2>7, <3>1, <6>1, <6>2, <6>3 DEF Announced
        <5> QED BY <1>2, <2>1, <2>2, <4>2, <5>1 DEF CoveredDir
      <4> QED BY <2>1, <4>1, <4>2
    <3>7. Covered'
      BY <2>1, <3>6 DEF Covered
    <3>8. /\ \A e \in Pending' : e.mask \in Structural => e \in Pending
          /\ Pending # {} => \A e \in Rest' :
               e.mask \in Structural \/ e.mask = "IN_MOVED_TO" => e \in Rest
      BY <2>9, <2>10, EventType DEF Structural
    <3>9. \A wd, q : At(watches, tree, wd, q) => At(watches', tree', wd, q)
      BY <2>1 DEF At
    <3>10. \A r : (\A d \in tree : d.path[1] # r) => (\A d \in tree' : d.path[1] # r)
      BY <2>1, <2>2, <2>6, <2>7
    <3>11. Phase'
      <4>1. CASE Steady
        <5>1. Steady'
          BY <2>1, <3>8, <3>9, <4>1 DEF Steady, Calm, Stale
        <5> QED BY <5>1 DEF Phase
      <4>2. ASSUME NEW x \in cache, Deleting(x) PROVE Phase'
        <5>1. Deleting(x)'
          BY <2>1, <2>3, <2>10, <3>8, <3>9, <3>10, <4>2 DEF Deleting, Calm, Stale
        <5> QED BY <2>1, <5>1 DEF Phase
      <4>3. ASSUME NEW x \in cache, NEW t \in tree, Renaming(x, t) PROVE Phase'
        <5>1. /\ Pending # {} /\ walk = <<>> /\ Calm(Rest)
              /\ First.mask = "IN_MOVED_FROM"
              /\ Len(x.path) > 1 /\ Len(t.path) > 1 /\ ~IsPrefix(x.path, t.path)
              /\ Moved(x.path, t.path)
              /\ \E c \in cache : c.wd = First.wd /\ Append(c.path, First.name) = x.path
              /\ \A c \in cache : ~IsPrefix(t.path, c.path)
              /\ \A e \in Rest : e.mask = "IN_MOVED_TO" =>
                    \E c \in cache : c.wd = e.wd /\ Append(c.path, e.name) = t.path
              /\ \A j \in Underway : j.to = t.path /\
                    \E d \in tree : d.ino = j.dir /\ d.path = Front(t.path)
              /\ \A e \in tree : e.path = Front(t.path) /\ Seen(watches, e.ino) =>
                    Announced(Pending, watches, Underway, e.ino, Last(t.path))
          BY <4>3 DEF Renaming
        <5>2. Calm(Rest)' /\ Moved(x.path, t.path)'
          BY <2>1, <3>8, <3>9, <5>1 DEF Calm, Stale, Moved
        <5>3. \A e \in tree' : e.path = Front(t.path) /\ Seen(watches', e.ino) =>
                Announced(Pending', watches', Underway', e.ino, Last(t.path))
          BY <2>1, <3>4, <3>5, <5>1
        <5>4. \A j \in Underway' : j.to = t.path /\
                \E d \in tree' : d.ino = j.dir /\ d.path = Front(t.path)
          BY <2>1, <2>3, <5>1
        <5>5. Renaming(x, t)'
          BY <2>1, <2>10, <3>8, <5>1, <5>2, <5>3, <5>4 DEF Renaming
        <5> QED BY <2>1, <5>5 DEF Phase
      <4>4. ASSUME NEW x \in cache, NEW t \in tree, RootMoving(x, t) PROVE Phase'
        <5>1. RootMoving(x, t)'
          BY <2>1, <2>3, <2>10, <3>8, <3>9, <3>10, <4>4
             DEF RootMoving, Moved, Stale
        <5> QED BY <2>1, <5>1 DEF Phase
      <4> QED BY <3>1, <4>1, <4>2, <4>3, <4>4 DEF Phase
    <3> QED BY <3>2, <3>3, <3>7, <3>11
  <2> QED BY <2>5, <2>11 DEF TrackInv
<1> QED BY <1>5, <1>6

(* A directory is removed, and its entry waits for the event. *)
LEMMA TrackRmdir ==
  ASSUME IInv, TrackInv, NEW m \in Mutators, Rmdir(m)
  PROVE  TrackInv'
<1> DEFINE p == job[m].path
           i == InoAt(p)
           done == Exists(p) /\ Children(i) = {}
           j == IF done /\ Len(p) > 2 THEN [job[m] EXCEPT !.path = Front(p)] ELSE Idle
           g == Gone({i}, "IN_DELETE_SELF")
<1>1. ReadyJob(job[m]) /\ job[m].pc = "rmdir" /\ job[m].pc # "moved"
  BY JobsReady DEF IInv, Rmdir
<1>2. p \in Paths /\ p # <<>>
  BY <1>1, PathType DEF ReadyJob
<1>3. job' = [job EXCEPT ![m] = j]
  BY DEF Rmdir, IInv, TypeOK
<1>4. j.pc # "moved"
  BY <1>1, IdleJob DEF ReadyJob, Jobs
<1>5. CASE ~done
  <2>1. UNCHANGED <<tree, nextIno, watches, nextWd, queue, monitor, raced>>
    BY <1>5 DEF Rmdir
  <2> HIDE DEF j, p, done
  <2> QED BY <1>1, <1>3, <1>4, <2>1, TrackNothing
<1>6. CASE done
  <2>1. /\ tree' = {d \in tree : d.path # p} /\ nextIno' = nextIno
        /\ watches' = {w \in watches : w.ino # i}
        /\ queue' = Notify(queue, g)
        /\ UNCHANGED <<nextWd, pc, buf, cache, rootDirPaths, walk>>
    BY <1>6 DEF Rmdir, monitor
  <2>2. raced' = (raced \/ ~Settled)
    BY <1>6 DEF Rmdir
  <2>3. Underway' = Underway
    <3> HIDE DEF j
    <3> QED BY <1>1, <1>3, <1>4, UnderwaySame
  <2>4. TreeInv
    BY DEF TrackInv
  <2>5. TreeInv'
    BY <1>2, <1>6, <2>1, <2>3, <2>4, TreeRemoved
  <2>6. PICK dp \in tree : dp.path = p /\ dp.ino = i
    BY <1>2, <1>6, TreeType DEF IInv
  <2>7. \A d \in tree : IsPrefix(p, d.path) => d.path = p
    BY <1>2, <1>6, <2>4, NoChildren DEF IInv
  <2>8. /\ g \in Seq(Events)
        /\ ~Seen(watches, i) => g = <<>>
        /\ \A w \in watches : w.ino = i =>
             /\ g # <<>> /\ Head(g) = Event(w.wd, "IN_DELETE_SELF", "", 0)
             /\ ToSet(Tail(g)) = {Event(w.wd, "IN_IGNORED", "", 0)}
    BY GoneOne
  <2> HIDE DEF j, p, i, done, g
  <2>9. /\ Pending' \subseteq Pending \cup ToSet(g) \cup {Overflow}
        /\ ToSet(g) \subseteq Pending' \/ Overflow \in Pending'
        /\ Pending = {} /\ g # <<>> =>
              First' = Head(g) /\ Rest' \subseteq ToSet(Tail(g)) \cup {Overflow}
        /\ Pending = {} /\ g = <<>> => Pending' = {}
    BY <2>1, <2>8, PendingQueued
  <2>10. ASSUME Sure' PROVE Rooted' /\ WalkInv' /\ Covered' /\ Phase'
    <3>1. ~raced /\ Settled
      BY <2>2, <2>10, Zenon DEF Sure
    <3>2. Sure
      <4>1. buf = <<>> /\ queue = <<>> /\ pc \notin Ended
        BY <3>1 DEF Settled, IInv, TypeOK, Ended
      <4> QED BY <3>1, <4>1, PendingParts DEF Sure
    <3>3. Rooted /\ WalkInv /\ Covered /\ Phase
      BY <3>2 DEF TrackInv
    <3>4. /\ Steady /\ walk = <<>> /\ Underway = {} /\ Pending = {}
          /\ \A d \in tree : d.path[1] \in rootDirPaths =>
               \E c \in cache, w \in watches :
                  c.path = d.path /\ w.wd = c.wd /\ w.ino = d.ino
          /\ \A w \in watches : \E c \in cache, d \in tree :
               /\ w.wd = c.wd /\ w.ino = d.ino /\ d.path = c.path
               /\ d.path[1] \in rootDirPaths
      BY <2>4, <3>1, <3>3, SettledExact
    <3>5. Rooted'
      BY <2>1, <3>3 DEF Rooted
    <3>6. WalkInv'
      <4>1. ToSet(walk') = {}
        BY <2>1, <3>4 DEF ToSet
      <4> QED BY <4>1 DEF WalkInv
    <3>7. Covered'
      <4> SUFFICES ASSUME NEW d \in tree', d.path[1] \in rootDirPaths
                   PROVE  Seen(watches', d.ino)
        BY <2>1 DEF Covered
      <4>1. d \in tree /\ d.path # p
        BY <2>1
      <4>2. PICK w \in watches : w.ino = d.ino
        BY <3>4, <4>1
      <4>3. d.ino # i
        BY <2>4, <2>6, <4>1 DEF TreeInv
      <4> QED BY <2>1, <4>2, <4>3 DEF Seen
    <3>8. ASSUME NEW c \in cache, NEW w \in watches, NEW d \in tree,
                 w.wd = c.wd, d.ino = w.ino, d.path = c.path, w.ino # i
          PROVE  At(watches', tree', c.wd, c.path)
      BY <2>1, <2>4, <2>6, <3>8 DEF At, TreeInv
    <3>9. CASE ~Seen(watches, i)
      <4>1. Pending' = {}
        BY <2>8, <2>9, <3>4, <3>9
      <4>2. \A c \in cache : At(watches', tree', c.wd, c.path)
        <5> SUFFICES ASSUME NEW c \in cache
                     PROVE  At(watches', tree', c.wd, c.path)
          OBVIOUS
        <5>1. PICK w \in watches, d \in tree :
                w.wd = c.wd /\ d.ino = w.ino /\ d.path = c.path
          BY <3>4 DEF Steady, At
        <5> QED BY <3>8, <3>9, <5>1 DEF Seen
      <4>3. Steady'
        BY <2>1, <4>1, <4>2 DEF Steady, Calm
      <4> QED BY <3>5, <3>6, <3>7, <4>3 DEF Phase
    <3>10. CASE Seen(watches, i)
      <4>1. PICK w \in watches : w.ino = i
        BY <3>10 DEF Seen
      <4>2. PICK x \in cache, d \in tree :
              w.wd = x.wd /\ w.ino = d.ino /\ d.path = x.path
        BY <3>4
      <4>3. x.path = p
        BY <2>4, <2>6, <4>1, <4>2 DEF TreeInv
      <4> DEFINE e1 == Event(w.wd, "IN_DELETE_SELF", "", 0)
                 e2 == Event(w.wd, "IN_IGNORED", "", 0)
      <4>4. /\ e1.mask = "IN_DELETE_SELF" /\ e1.wd = x.wd
            /\ e2.mask = "IN_IGNORED" /\ g # <<>>
            /\ Head(g) = e1 /\ ToSet(Tail(g)) = {e2}
        <5>1. e1.mask = "IN_DELETE_SELF" /\ e1.wd = x.wd /\ e2.mask = "IN_IGNORED"
          BY <4>2 DEF Event
        <5>2. g # <<>> /\ Head(g) = e1 /\ ToSet(Tail(g)) = {e2}
          BY <2>8, <4>1
        <5> QED BY <5>1, <5>2
      <4> HIDE DEF e1, e2
      <4>5. First' = e1 /\ Rest' \subseteq {e2, Overflow}
        BY <2>9, <3>4, <4>4
      <4>6. Pending' # {}
        <5>1. ToSet(g) = {Head(g)} \cup ToSet(Tail(g))
          BY <2>8, <4>4, ToSetHeadTail
        <5> QED BY <2>9, <5>1
      <4>7. Calm(Rest)'
        BY <4>4, <4>5, EventType DEF Calm, Structural
      <4>8. ASSUME NEW c \in cache' \ {x} PROVE At(watches', tree', c.wd, c.path)
        <5>1. c \in cache
          BY <2>1
        <5>2. PICK v \in watches, f \in tree :
                v.wd = c.wd /\ f.ino = v.ino /\ f.path = c.path
          BY <3>4, <5>1 DEF Steady, At
        <5>3. v.ino # i
          <6> SUFFICES ASSUME v.ino = i PROVE FALSE
            OBVIOUS
          <6>1. v = w
            BY <4>1 DEF IInv, WatchInv
          <6> QED BY <4>2, <4>8, <5>1, <5>2, <6>1 DEF IInv, CacheMatchesWatches
        <5> QED BY <3>8, <5>1, <5>2, <5>3
      <4>9. Len(x.path) = 1 => \A f \in tree' : f.path[1] # x.path[1]
        <5> SUFFICES ASSUME Len(p) = 1, NEW f \in tree', f.path[1] = p[1]
                     PROVE  FALSE
          BY <4>3
        <5>1. f \in tree /\ f.path # p /\ f.path \in Paths
          BY <2>1, TreeType DEF IInv
        <5> QED BY <1>2, <2>7, <5>1, PrefixFacts
      <4>10. Deleting(x)'
        BY <2>1, <2>3, <3>4, <4>4, <4>5, <4>6, <4>7, <4>8, <4>9 DEF Deleting
      <4> QED BY <2>1, <3>5, <3>6, <3>7, <4>10 DEF Phase
    <3> QED BY <3>9, <3>10
  <2> QED BY <2>5, <2>10 DEF TrackInv
<1> QED BY <1>5, <1>6

(* The first half of rename(). *)
LEMMA TrackRename ==
  ASSUME IInv, TrackInv, NEW m \in Mutators, Rename(m)
  PROVE  TrackInv'
<1> DEFINE p == job[m].path
           q == job[m].to
           moved == Exists(p) /\ Exists(Front(q)) /\ ~Exists(q) /\ ~IsPrefix(p, q)
           cookie == job[m].cookie
           events == EventsOf(InoAt(Front(p)), "IN_MOVED_FROM", Last(p), cookie)
           j == [job[m] EXCEPT !.pc = "moved", !.ino = InoAt(p),
                               !.dir = InoAt(Front(q))]
<1>1. ReadyJob(job[m]) /\ job[m].pc = "rename" /\ job[m].pc # "moved"
  BY JobsReady DEF IInv, Rename
<1>2. p \in Paths /\ q \in Paths /\ Len(q) > 1 /\ p # <<>>
      /\ cookie \in 0..MaxOps
  BY <1>1, PathType DEF ReadyJob, Jobs
<1>3. CASE ~moved
  <2>1. /\ UNCHANGED <<tree, nextIno, watches, nextWd, queue, monitor, raced>>
        /\ job' = [job EXCEPT ![m] = Idle]
    BY <1>3 DEF Rename
  <2>2. Idle.pc # "moved"
    BY IdleJob
  <2> QED BY <1>1, <2>1, <2>2, TrackNothing
<1>4. CASE moved
  <2>1. /\ tree' = {IF IsPrefix(p, d.path)
                    THEN [d EXCEPT !.path = Move(@, p, q)] ELSE d : d \in tree}
        /\ queue' = Notify(queue, events)
        /\ job' = [job EXCEPT ![m] = j]
        /\ UNCHANGED <<nextIno, watches, nextWd, pc, buf, cache, rootDirPaths, walk>>
    BY <1>4 DEF Rename, monitor, IInv, TypeOK
  <2>2. raced' = (raced \/ ~Settled \/ (Len(p) = 1 /\ p[1] \in rootDirPaths
                                        /\ q[1] \in rootDirPaths))
    BY <1>4, Zenon DEF Rename
  <2>3. j.pc = "moved" /\ j.ino = InoAt(p) /\ j.dir = InoAt(Front(q)) /\ j.to = q
    BY <1>1 DEF ReadyJob, Jobs
  <2>4. TreeInv
    BY DEF TrackInv
  <2> HIDE DEF j, p, q
  <2>5. Underway' = Underway \cup {j}
    BY <1>1, <2>1, <2>3, UnderwayMore
  <2>6. TreeInv'
    BY <1>2, <1>4, <2>1, <2>3, <2>4, <2>5, TreeRenamed
  <2>7. /\ \A d \in tree : \E x \in tree' : x.ino = d.ino /\ x.path = Now(d.path, p, q)
        /\ \A x \in tree' : \E d \in tree : x.ino = d.ino /\ x.path = Now(d.path, p, q)
    BY <1>2, <1>4, <2>1, <2>4, Renamed
  <2>8. PICK dp \in tree : dp.path = p /\ dp.ino = j.ino
    BY <1>2, <1>4, <2>3, TreeType DEF IInv
  <2>9. /\ Front(q) \in Paths /\ Front(q) # <<>> /\ Last(q) \in Names
        /\ ~IsPrefix(p, Front(q))
    BY <1>2, <1>4, FrontParts, PathType, PrefixFacts
  <2>10. PICK pq \in tree : pq.path = Front(q) /\ pq.ino = j.dir
    BY <1>4, <2>3, <2>9, TreeType DEF IInv
  <2>11. PICK pn \in tree' : pn.path = Front(q) /\ pn.ino = j.dir
    BY <2>7, <2>9, <2>10 DEF Now
  <2>12. PICK t \in tree' : t.path = q /\ t.ino = j.ino
    <3>1. Now(p, p, q) = q
      BY <1>2, PrefixFacts, MoveFacts DEF Now
    <3> QED BY <2>7, <2>8, <3>1
  <2>13. \A c \in cache : ~IsPrefix(q, c.path) \/ ~At(watches, tree, c.wd, c.path)
    BY <1>2, <1>4, <2>4, NothingBelow DEF IInv, At
  <2>14. events \in Seq(Events)
    <3>1. ASSUME NEW w \in watches, w.ino = InoAt(Front(p))
          PROVE  Event(w.wd, "IN_MOVED_FROM", Last(p), cookie) \in Events
      <4>1. w.ino # 0 /\ w.wd \in Nat
        BY DEF IInv, TypeOK
      <4>2. Front(p) # <<>>
        BY <3>1, <4>1 DEF InoAt
      <4>3. Last(p) \in Names
        BY <1>2, <4>2, FrontLastPath, PathType
      <4> QED BY <1>2, <4>1, <4>3, EventType DEF NamedMasks
    <3>2. IsFiniteSet(watches)
      BY DEF IInv, WatchInv
    <3> HIDE DEF cookie
    <3> QED BY <3>1, <3>2, EventsOfElements
  <2> HIDE DEF events, cookie
  <2>15. /\ ToSet(events) \subseteq Pending' \/ Overflow \in Pending'
         /\ Pending = {} /\ events # <<>> =>
              /\ First' = Head(events)
              /\ Rest' \subseteq ToSet(Tail(events)) \cup {Overflow}
         /\ Pending = {} /\ events = <<>> => Pending' = {}
    BY <2>1, <2>14, PendingQueued
  <2>16. ASSUME Sure' PROVE Rooted' /\ WalkInv' /\ Covered' /\ Phase'
    <3>1. ~raced /\ Settled /\ ~(Len(p) = 1 /\ p[1] \in rootDirPaths
                                 /\ q[1] \in rootDirPaths)
      BY <2>2, <2>16, Zenon DEF Sure
    <3>2. Sure
      <4>1. buf = <<>> /\ queue = <<>> /\ pc \notin Ended
        BY <3>1 DEF Settled, IInv, TypeOK, Ended
      <4> QED BY <3>1, <4>1, PendingParts DEF Sure
    <3>3. Rooted /\ WalkInv /\ Covered /\ Phase
      BY <3>2 DEF TrackInv
    <3>4. /\ Steady /\ walk = <<>> /\ Underway = {} /\ Pending = {}
          /\ \A d \in tree : d.path[1] \in rootDirPaths =>
               \E c \in cache, w \in watches :
                  c.path = d.path /\ w.wd = c.wd /\ w.ino = d.ino
          /\ \A w \in watches : \E c \in cache, d \in tree :
               /\ w.wd = c.wd /\ w.ino = d.ino /\ d.path = c.path
               /\ d.path[1] \in rootDirPaths
      BY <2>4, <3>1, <3>3, SettledExact
    <3>5. Rooted'
      BY <2>1, <3>3 DEF Rooted
    <3>6. WalkInv'
      <4>1. ToSet(walk') = {}
        BY <2>1, <3>4 DEF ToSet
      <4> QED BY <4>1 DEF WalkInv
    <3>7. \A d \in tree : d.path[1] \in rootDirPaths <=> Seen(watches, d.ino)
      <4>1. ASSUME NEW d \in tree, Seen(watches, d.ino)
            PROVE  d.path[1] \in rootDirPaths
        <5>1. PICK w \in watches : w.ino = d.ino
          BY <4>1 DEF Seen
        <5>2. PICK e \in tree : w.ino = e.ino /\ e.path[1] \in rootDirPaths
          BY <3>4
        <5> QED BY <2>4, <5>1, <5>2 DEF TreeInv
      <4>2. ASSUME NEW d \in tree, d.path[1] \in rootDirPaths
            PROVE  Seen(watches, d.ino)
        BY <3>4, <4>2 DEF Seen
      <4> QED BY <4>1, <4>2
    <3>8. \A d \in tree : d.path \in Paths
      BY TreeType DEF IInv
    <3>9. ASSUME NEW d \in tree', d.path[1] \in rootDirPaths, ~Seen(watches, d.ino)
          PROVE  CoveredDir(d)'
      <4>1. PICK o \in tree : d.ino = o.ino /\ d.path = Now(o.path, p, q)
        BY <2>7
      <4>2. o.path[1] \notin rootDirPaths /\ o.path \in Paths
        BY <3>7, <3>8, <3>9, <4>1
      <4>3. IsPrefix(p, o.path) /\ d.path = Move(o.path, p, q)
        BY <3>9, <4>1, <4>2 DEF Now
      <4>4. CASE o.path = p
        <5>1. d.path = q
          BY <1>2, <4>2, <4>3, <4>4, MoveFacts
        <5>2. Len(q) # 1
          <6>1. \A n : n > 1 => n # 1
            OBVIOUS
          <6> QED BY <1>2, <6>1
        <5>3. \A e \in tree' : e.path = Front(q) =>
                Announced(Pending', watches', Underway', e.ino, Last(q))
          BY <2>3, <2>5, <2>6, <2>11 DEF TreeInv, Announced
        <5> QED BY <5>1, <5>2, <5>3 DEF CoveredDir
      <4>5. CASE o.path # p
        <5>1. /\ Len(o.path) > 1 /\ IsPrefix(p, Front(o.path)) /\ Len(d.path) > 1
              /\ Front(d.path) = Move(Front(o.path), p, q)
          BY <1>2, <4>2, <4>3, <4>5, MoveFacts
        <5>2. Len(d.path) # 1
          <6>1. \A n : n > 1 => n # 1
            OBVIOUS
          <6> QED BY <5>1, <6>1
        <5>3. PICK f \in tree : f.path = Front(o.path)
          BY <2>4, <5>1 DEF TreeInv
        <5>4. ~Seen(watches, f.ino)
          BY <3>7, <4>2, <5>1, <5>3, FrontParts
        <5>5. PICK fn \in tree' : fn.ino = f.ino /\ fn.path = Front(d.path)
          BY <2>7, <5>1, <5>3 DEF Now
        <5>6. \A e \in tree' : e.path = Front(d.path) => ~Seen(watches', e.ino)
          BY <2>1, <2>6, <5>4, <5>5 DEF TreeInv
        <5> QED BY <5>2, <5>6 DEF CoveredDir
      <4> QED BY <4>4, <4>5
    <3>10. Covered'
      BY <2>1, <3>9 DEF Covered
    <3>11. \A c \in cache' : At(watches', tree', c.wd, Now(c.path, p, q))
      <4> SUFFICES ASSUME NEW c \in cache
                   PROVE  At(watches', tree', c.wd, Now(c.path, p, q))
        BY <2>1
      <4>1. PICK w \in watches, d \in tree :
              w.wd = c.wd /\ d.ino = w.ino /\ d.path = c.path
        BY <3>4 DEF Steady, At
      <4>2. PICK x \in tree' : x.ino = d.ino /\ x.path = Now(d.path, p, q)
        BY <2>7
      <4> QED BY <2>1, <4>1, <4>2 DEF At
    <3>12. Underway' = {j}
      BY <2>5, <3>4
    <3>13. ASSUME ~Seen(watches, InoAt(Front(p))) PROVE Pending' = {}
      <4>1. events = <<>>
        BY <3>13, EventsOfOne DEF events
      <4> QED BY <2>15, <3>4, <4>1
    <3>14. Phase'
      <4>1. CASE p[1] \notin rootDirPaths
        <5>1. ~Seen(watches, InoAt(Front(p)))
          <6>1. CASE Len(p) > 1
            <7>1. Front(p)[1] = p[1]
              BY <1>2, <6>1, FrontParts
            <7>2. PICK pp \in tree : pp.path = Front(p)
              BY <2>4, <2>8, <6>1 DEF TreeInv
            <7>3. InoAt(Front(p)) = pp.ino
              BY <2>4, <7>2, InoAtPath DEF IInv
            <7> QED BY <3>7, <4>1, <7>1, <7>2, <7>3
          <6>2. CASE Len(p) = 1
            <7>1. InoAt(Front(p)) = 0
              BY <1>2, <6>2, SingleParts DEF InoAt
            <7>2. \A w \in watches : w.ino # 0
              BY DEF IInv, TypeOK
            <7> QED BY <7>1, <7>2 DEF Seen
          <6>3. Len(p) = 1 \/ Len(p) > 1
            <7>1. Len(p) \in Nat /\ Len(p) >= 1
              BY <1>2, PathParts
            <7>2. \A n \in Nat : n >= 1 => n = 1 \/ n > 1
              OBVIOUS
            <7> QED BY <7>1, <7>2, Zenon
          <6> QED BY <6>1, <6>2, <6>3
        <5>2. Pending' = {}
          BY <3>13, <5>1
        <5>3. \A c \in cache' : Now(c.path, p, q) = c.path
          <6>1. \A c \in cache : c.path[1] \in rootDirPaths /\ c.path \in Paths
            BY <3>3 DEF Rooted, IInv, TypeOK
          <6> QED BY <1>2, <2>1, <4>1, <6>1, PrefixFacts DEF Now
        <5>4. \A c \in cache' : At(watches', tree', c.wd, c.path)
          BY <3>11, <5>3
        <5>5. Steady'
          BY <5>2, <5>4 DEF Steady, Calm
        <5> QED BY <5>5 DEF Phase
      <4>2. CASE p[1] \in rootDirPaths
        <5>1. PICK x \in cache, wx \in watches :
                 x.path = p /\ wx.wd = x.wd /\ wx.ino = dp.ino
          BY <2>8, <3>4, <4>2
        <5>5. \A c \in cache' : At(watches', tree', c.wd, Now(c.path, x.path, t.path))
          BY <2>12, <3>11, <5>1
        <5>2. CASE Len(p) = 1
          <6>1. q[1] \notin rootDirPaths
            BY <3>1, <4>2, <5>2
          <6>2. Pending' = {}
            <7>1. InoAt(Front(p)) = 0
              BY <1>2, <5>2, SingleParts DEF InoAt
            <7>2. \A w \in watches : w.ino # 0
              BY DEF IInv, TypeOK
            <7> QED BY <3>13, <7>1, <7>2 DEF Seen
          <6>3. \A d \in tree' : d.path[1] # p[1]
            <7> SUFFICES ASSUME NEW d \in tree' PROVE d.path[1] # p[1]
              OBVIOUS
            <7>1. PICK o \in tree : d.path = Now(o.path, p, q)
              BY <2>7
            <7>2. CASE IsPrefix(p, o.path)
              BY <1>2, <3>8, <4>2, <6>1, <7>1, <7>2, NowFacts
            <7>3. CASE ~IsPrefix(p, o.path)
              BY <1>2, <3>8, <5>2, <7>1, <7>3, PrefixFacts DEF Now
            <7> QED BY <7>2, <7>3
          <6>4. \E k \in Underway', w \in watches' : w.wd = x.wd /\ w.ino = k.ino
            BY <2>1, <2>8, <3>12, <5>1
          <6>6. /\ Len(x.path) = 1 /\ Len(t.path) > 1
                /\ t.path[1] \notin rootDirPaths'
                /\ \A d \in tree' : d.path[1] # x.path[1]
            BY <1>2, <2>1, <2>12, <5>1, <5>2, <6>1, <6>3
          <6>5. RootMoving(x, t)'
            BY <5>5, <6>2, <6>4, <6>6 DEF RootMoving, Moved
          <6> QED BY <2>1, <6>5 DEF Phase
        <5>3. CASE Len(p) > 1
          <6>1. Front(p)[1] = p[1] /\ Front(p) \in Paths /\ Last(p) \in Names
            BY <1>2, <5>3, FrontParts
          <6>2. PICK pp \in tree : pp.path = Front(p)
            BY <2>4, <2>8, <5>3 DEF TreeInv
          <6>3. InoAt(Front(p)) = pp.ino
            BY <2>4, <6>2, InoAtPath DEF IInv
          <6>4. PICK cp \in cache, wp \in watches :
                   cp.path = Front(p) /\ wp.wd = cp.wd /\ wp.ino = pp.ino
            BY <3>4, <4>2, <6>1, <6>2
          <6> DEFINE e1 == Event(wp.wd, "IN_MOVED_FROM", Last(p), cookie)
          <6>5. events = <<e1>>
            BY <6>3, <6>4, EventsOfOne DEF events
          <6>6. /\ e1.mask = "IN_MOVED_FROM" /\ e1.wd = cp.wd /\ e1.name = Last(p)
            BY <6>4 DEF Event
          <6> HIDE DEF e1
          <6>7. /\ Head(events) = e1 /\ Tail(events) = <<>> /\ events # <<>>
                /\ ToSet(events) = {e1} /\ ToSet(<<>>) = {}
            BY <6>5, ToSetSingle DEF ToSet
          <6>8. First' = e1 /\ Rest' \subseteq {Overflow} /\ Pending' # {}
            BY <2>15, <3>4, <6>7
          <6>9. Append(Front(p), Last(p)) = p
            <7>1. /\ Append(Front(p), Last(p)) \in Paths
                  /\ Len(Append(Front(p), Last(p))) > 1
                  /\ Front(Append(Front(p), Last(p))) = Front(p)
                  /\ Last(Append(Front(p), Last(p))) = Last(p)
              BY <6>1, AppendParts
            <7> QED BY <1>2, <5>3, <7>1, FrontLastEqual
          <6>10. Calm(Rest)' /\ \A e \in Rest' : e.mask # "IN_MOVED_TO"
            BY <6>8, EventType DEF Calm, Structural
          <6>11. \A c \in cache' : ~IsPrefix(q, c.path)
            BY <2>1, <2>13, <3>4 DEF Steady
          <6>12. \A e \in tree' : e.path = Front(q) =>
                   Announced(Pending', watches', Underway', e.ino, Last(q))
            BY <2>3, <2>5, <2>6, <2>11 DEF TreeInv, Announced
          <6>13. \A k \in Underway' :
                   k.to = q /\ \E d \in tree' : d.ino = k.dir /\ d.path = Front(q)
            BY <2>3, <2>11, <3>12
          <6>14. \E c \in cache' : c.wd = First'.wd /\ Append(c.path, First'.name) = p
            BY <2>1, <6>4, <6>6, <6>8, <6>9
          <6>15. x.path = p /\ t.path = q /\ walk' = <<>> /\ First'.mask = "IN_MOVED_FROM"
                 /\ ~IsPrefix(p, q)
            BY <1>4, <2>1, <2>12, <3>4, <5>1, <6>6, <6>8
          <6>17. /\ Len(x.path) > 1 /\ Len(t.path) > 1 /\ ~IsPrefix(x.path, t.path)
                 /\ \A c \in cache' : ~IsPrefix(t.path, c.path)
                 /\ \E c \in cache' :
                      c.wd = First'.wd /\ Append(c.path, First'.name) = x.path
                 /\ \A k \in Underway' : k.to = t.path /\
                      \E d \in tree' : d.ino = k.dir /\ d.path = Front(t.path)
                 /\ \A e \in tree' : e.path = Front(t.path) =>
                      Announced(Pending', watches', Underway', e.ino, Last(t.path))
            BY <1>2, <5>3, <6>11, <6>12, <6>13, <6>14, <6>15
          <6>16. Renaming(x, t)'
            BY <5>5, <6>8, <6>10, <6>15, <6>17 DEF Renaming, Moved
          <6> QED BY <2>1, <6>16 DEF Phase
        <5>4. Len(p) = 1 \/ Len(p) > 1
          <6>1. Len(p) \in Nat /\ Len(p) >= 1
            BY <1>2, PathParts
          <6>2. \A n \in Nat : n >= 1 => n = 1 \/ n > 1
            OBVIOUS
          <6> QED BY <6>1, <6>2, Zenon
        <5> QED BY <5>2, <5>3, <5>4
      <4> QED BY <4>1, <4>2
    <3> QED BY <3>5, <3>6, <3>10, <3>14
  <2> QED BY <2>6, <2>16 DEF TrackInv
<1> QED BY <1>3, <1>4

(* The entry of a watch that is for a root directory.  A directory that is *)
(* being renamed is never at the place of a root directory any more.       *)
LEMMA MovingRoot ==
  ASSUME IInv, TreeInv, Rooted, NEW j \in Underway,
         NEW w \in watches, w.ino = j.ino, w.self
  PROVE  /\ ~Steady
         /\ \A x \in cache, t \in tree : ~Renaming(x, t)
         /\ \A x \in cache, t \in tree : RootMoving(x, t) => w.wd = x.wd
<1>1. PICK c \in cache : c.wd = w.wd
  BY EntryOf
<1>2. Len(c.path) = 1 /\ c.path \in Paths
  BY <1>1 DEF Rooted, IInv, TypeOK
<1>3. \A v \in watches : v.wd = c.wd => v = w
  BY <1>1 DEF IInv, WatchInv
<1>4. ASSUME At(watches, tree, c.wd, c.path) PROVE FALSE
  <2>1. PICK d \in tree : d.ino = j.ino /\ d.path = c.path
    BY <1>3, <1>4 DEF At
  <2>2. Len(d.path) > 1
    BY <2>1 DEF TreeInv
  <2>3. \A n : n > 1 => n # 1
    OBVIOUS
  <2> QED BY <1>2, <2>1, <2>2, <2>3
<1>5. ~Steady
  BY <1>4 DEF Steady
<1>6. ASSUME NEW x \in cache, NEW t \in tree,
             At(watches, tree, c.wd, Now(c.path, x.path, t.path))
      PROVE  IsPrefix(x.path, c.path) /\ Len(x.path) <= 1 /\ x.path \in Paths
  <2>1. IsPrefix(x.path, c.path)
    BY <1>4, <1>6 DEF Now
  <2>2. x.path \in Paths
    BY DEF IInv, TypeOK
  <2>3. Len(x.path) <= Len(c.path)
    BY <1>2, <2>1, <2>2, PrefixFacts
  <2> QED BY <1>2, <2>1, <2>2, <2>3
<1>7. ASSUME NEW x \in cache, NEW t \in tree, Renaming(x, t) PROVE FALSE
  <2>1. Len(x.path) > 1 /\ At(watches, tree, c.wd, Now(c.path, x.path, t.path))
    BY <1>7 DEF Renaming, Moved
  <2>2. Len(x.path) <= 1 /\ Len(x.path) \in Nat
    BY <1>6, <2>1, PathParts
  <2>3. \A n \in Nat : ~(n > 1 /\ n <= 1)
    OBVIOUS
  <2> QED BY <2>1, <2>2, <2>3
<1>8. ASSUME NEW x \in cache, NEW t \in tree, RootMoving(x, t) PROVE w.wd = x.wd
  <2>1. /\ Len(x.path) = 1
        /\ \A e \in cache : At(watches, tree, e.wd, Now(e.path, x.path, t.path))
    BY <1>8 DEF RootMoving, Moved
  <2>2. c.path = x.path
    BY <1>2, <1>6, <2>1, PrefixFacts
  <2>3. PICK v \in watches, d \in tree :
          v.wd = x.wd /\ d.ino = v.ino /\ d.path = Now(x.path, x.path, t.path)
    BY <2>1 DEF At
  <2>4. PICK u \in watches, e \in tree :
          u.wd = c.wd /\ e.ino = u.ino /\ e.path = Now(x.path, x.path, t.path)
    BY <2>1, <2>2 DEF At
  <2>5. d = e
    BY <2>3, <2>4 DEF TreeInv
  <2>6. u = v
    BY <2>3, <2>4, <2>5 DEF IInv, WatchInv
  <2> QED BY <1>1, <2>3, <2>4, <2>6
<1> QED BY <1>5, <1>7, <1>8

(* The events of the second half of rename(). *)
LEMMA RenameToEvents ==
  ASSUME IInv, NEW m \in Mutators, RenameTo(m)
  PROVE  \E events \in Seq(Events) :
           /\ queue' = Notify(queue, events)
           /\ \A e \in ToSet(events) :
                \/ /\ e.mask = "IN_MOVED_TO" /\ e.name = Last(job[m].to)
                   /\ \E w \in watches : w.ino = job[m].dir /\ w.wd = e.wd
                \/ /\ e.mask = "IN_MOVE_SELF"
                   /\ \E w \in watches : w.ino = job[m].ino /\ w.self /\ w.wd = e.wd
           /\ \A w \in watches : w.ino = job[m].dir => \E e \in ToSet(events) :
                e.mask = "IN_MOVED_TO" /\ e.name = Last(job[m].to) /\ e.wd = w.wd
           /\ \A w \in watches : w.ino = job[m].ino /\ w.self =>
                \E e \in ToSet(events) : e.mask = "IN_MOVE_SELF" /\ e.wd = w.wd
<1>1. PICK j : j = job[m]
  OBVIOUS
<1> DEFINE a == EventsOf(j.dir, "IN_MOVED_TO", Last(j.to), j.cookie)
           s == EventsOf(j.ino, "IN_MOVE_SELF", "", 0)
           self == {w \in watches : w.ino = j.ino /\ w.self}
           b == IF self = {} THEN <<>> ELSE s
<1>2. queue' = Notify(queue, a \o b)
  BY <1>1 DEF RenameTo
<1>3. Last(j.to) \in Names /\ j.cookie \in 0..MaxOps /\ IsFiniteSet(watches)
  BY <1>1, JobsReady, FrontLastPath DEF IInv, RenameTo, WatchInv, ReadyJob, Jobs
<1>4. a \in Seq(Events) /\ s \in Seq(Events)
  <2>1. \A w \in watches : /\ Event(w.wd, "IN_MOVED_TO", Last(j.to), j.cookie) \in Events
                           /\ Event(w.wd, "IN_MOVE_SELF", "", 0) \in Events
    <3>1. \A w \in watches : w.wd \in Nat
      BY DEF IInv, TypeOK
    <3> QED BY <1>3, <3>1, EventType DEF NamedMasks, OtherMasks
  <2> QED BY <1>3, <2>1, EventsOfElements
<1>5. /\ \A w \in watches : w.ino = j.dir => \E e \in ToSet(a) :
            e.mask = "IN_MOVED_TO" /\ e.name = Last(j.to) /\ e.wd = w.wd
      /\ \A e \in ToSet(a) : /\ e.mask = "IN_MOVED_TO" /\ e.name = Last(j.to)
                             /\ \E w \in watches : w.ino = j.dir /\ w.wd = e.wd
  <2>1. CASE Seen(watches, j.dir)
    <3>1. PICK w \in watches : w.ino = j.dir
      BY <2>1 DEF Seen
    <3> DEFINE e == Event(w.wd, "IN_MOVED_TO", Last(j.to), j.cookie)
    <3>2. a = <<e>>
      BY <3>1, EventsOfOne
    <3>3. e.mask = "IN_MOVED_TO" /\ e.wd = w.wd /\ e.name = Last(j.to)
      BY DEF Event
    <3> HIDE DEF a, e
    <3>4. ToSet(a) = {e}
      BY <3>2, ToSetSingle
    <3>5. \A v \in watches : v.ino = j.dir => v = w
      BY <3>1 DEF IInv, WatchInv
    <3> QED BY <3>1, <3>3, <3>4, <3>5
  <2>2. CASE ~Seen(watches, j.dir)
    <3>1. a = <<>>
      BY <2>2, EventsOfOne
    <3> HIDE DEF a
    <3>2. ToSet(a) = {}
      BY <3>1 DEF ToSet
    <3> QED BY <2>2, <3>2 DEF Seen
  <2> QED BY <2>1, <2>2
<1>6. /\ \A w \in watches : w.ino = j.ino /\ w.self => \E e \in ToSet(b) :
            e.mask = "IN_MOVE_SELF" /\ e.wd = w.wd
      /\ \A e \in ToSet(b) :
            /\ e.mask = "IN_MOVE_SELF"
            /\ \E w \in watches : w.ino = j.ino /\ w.self /\ w.wd = e.wd
      /\ b \in Seq(Events)
  <2>1. CASE self # {}
    <3>1. PICK w \in watches : w.ino = j.ino /\ w.self
      BY <2>1
    <3> DEFINE e == Event(w.wd, "IN_MOVE_SELF", "", 0)
    <3>2. s = <<e>>
      BY <3>1, EventsOfOne
    <3>3. e.mask = "IN_MOVE_SELF" /\ e.wd = w.wd
      BY DEF Event
    <3>4. b = s
      BY <2>1
    <3> HIDE DEF b, e, s
    <3>5. ToSet(b) = {e}
      BY <3>2, <3>4, ToSetSingle
    <3>6. \A v \in watches : v.ino = j.ino => v = w
      BY <3>1 DEF IInv, WatchInv
    <3> QED BY <1>4, <3>1, <3>3, <3>4, <3>5, <3>6
  <2>2. CASE self = {}
    <3>1. b = <<>>
      BY <2>2
    <3>2. \A w \in watches : ~(w.ino = j.ino /\ w.self)
      BY <2>2
    <3> HIDE DEF b
    <3>3. ToSet(b) = {} /\ b \in Seq(Events)
      BY <3>1 DEF ToSet
    <3> QED BY <3>2, <3>3
  <2> QED BY <2>1, <2>2
<1> HIDE DEF a, b
<1>8. a \in Seq(Events) /\ b \in Seq(Events)
  BY <1>4, <1>6
<1>7. a \o b \in Seq(Events) /\ ToSet(a \o b) = ToSet(a) \cup ToSet(b)
  BY <1>8, ToSetConcat
<1> a \o b \in Seq(Events)
  BY <1>7
<1> WITNESS a \o b \in Seq(Events)
<1> QED BY <1>1, <1>2, <1>5, <1>6, <1>7

(* The second half of rename(). *)
LEMMA TrackRenameTo ==
  ASSUME IInv, TrackInv, NEW m \in Mutators, RenameTo(m)
  PROVE  TrackInv'
<1>1. PICK j : j = job[m]
  OBVIOUS
<1>2. /\ job' = [job EXCEPT ![m] = Idle] /\ job[m].pc = "moved"
      /\ UNCHANGED <<tree, nextIno, watches, nextWd, pc, buf, cache, rootDirPaths,
                     walk, raced>>
  BY DEF RenameTo, fsVars, monitor
<1>3. /\ Underway' \subseteq Underway /\ j \in Underway
      /\ Underway \subseteq Underway' \cup {j}
  BY <1>1, <1>2, UnderwayLess
<1>4. TreeInv /\ TreeInv'
  BY <1>2, <1>3, TreeSame DEF TrackInv
<1>5. PICK events \in Seq(Events) :
        /\ queue' = Notify(queue, events)
        /\ \A e \in ToSet(events) :
             \/ /\ e.mask = "IN_MOVED_TO" /\ e.name = Last(j.to)
                /\ \E w \in watches : w.ino = j.dir /\ w.wd = e.wd
             \/ /\ e.mask = "IN_MOVE_SELF"
                /\ \E w \in watches : w.ino = j.ino /\ w.self /\ w.wd = e.wd
        /\ \A w \in watches : w.ino = j.dir => \E e \in ToSet(events) :
             e.mask = "IN_MOVED_TO" /\ e.name = Last(j.to) /\ e.wd = w.wd
        /\ \A w \in watches : w.ino = j.ino /\ w.self =>
             \E e \in ToSet(events) : e.mask = "IN_MOVE_SELF" /\ e.wd = w.wd
  BY <1>1, RenameToEvents
<1>6. /\ Pending \subseteq Pending'
      /\ Pending' \subseteq Pending \cup ToSet(events) \cup {Overflow}
      /\ ToSet(events) \subseteq Pending' \/ Overflow \in Pending'
      /\ Pending # {} => /\ First' = First
                         /\ Rest' \subseteq Rest \cup ToSet(events) \cup {Overflow}
  BY <1>2, <1>5, PendingQueued
<1>7. ASSUME Sure' PROVE Rooted' /\ WalkInv' /\ Covered' /\ Phase'
  <2>1. Rooted /\ WalkInv /\ Covered /\ Phase /\ ToSet(events) \subseteq Pending'
    BY <1>2, <1>6, <1>7 DEF Sure, TrackInv
  <2>2. Rooted' /\ WalkInv'
    BY <1>2, <2>1 DEF Rooted, WalkInv
  <2>3. ASSUME NEW i, NEW n, Seen(watches, i),
               Announced(Pending, watches, Underway, i, n)
        PROVE  Announced(Pending', watches', Underway', i, n)
    <3>1. CASE j.dir = i /\ Last(j.to) = n
      <4>1. PICK w \in watches : w.ino = i
        BY <2>3 DEF Seen
      <4>2. PICK e \in ToSet(events) :
              e.mask = "IN_MOVED_TO" /\ e.name = n /\ e.wd = w.wd
        BY <1>5, <3>1, <4>1
      <4> QED BY <1>2, <2>1, <4>1, <4>2 DEF Announced
    <3>2. CASE ~(j.dir = i /\ Last(j.to) = n)
      BY <1>2, <1>3, <1>6, <2>3, <3>2 DEF Announced
    <3> QED BY <3>1, <3>2
  <2>4. Covered'
    <3> SUFFICES ASSUME NEW d \in tree, d.path[1] \in rootDirPaths,
                        ~Seen(watches, d.ino)
                 PROVE  CoveredDir(d)'
      BY <1>2 DEF Covered
    <3>1. CoveredDir(d)
      BY <2>1 DEF Covered
    <3> QED BY <1>2, <2>3, <3>1 DEF CoveredDir
  <2>5. \A e \in ToSet(events) : e.mask \in Structural =>
          /\ e.mask = "IN_MOVE_SELF"
          /\ \E w \in watches : w.ino = j.ino /\ w.self /\ w.wd = e.wd
    BY <1>5 DEF Structural
  <2>6. Overflow.mask \notin Structural /\ Overflow.mask # "IN_MOVED_TO"
    BY EventType DEF Structural
  <2>7. Phase'
    <3>1. CASE Steady
      <4>1. \A e \in Pending' : e.mask \in Structural => e \in Pending
        BY <1>3, <1>4, <1>6, <2>1, <2>5, <2>6, <3>1, MovingRoot
      <4>2. Steady'
        BY <1>2, <3>1, <4>1 DEF Steady, Calm, Stale
      <4> QED BY <4>2 DEF Phase
    <3>2. ASSUME NEW x \in cache, Deleting(x) PROVE FALSE
      BY <1>3, <3>2 DEF Deleting
    <3>3. ASSUME NEW x \in cache, NEW t \in tree, Renaming(x, t) PROVE Phase'
      <4>1. /\ Pending # {} /\ walk = <<>> /\ Calm(Rest)
            /\ First.mask = "IN_MOVED_FROM"
            /\ Len(x.path) > 1 /\ Len(t.path) > 1 /\ ~IsPrefix(x.path, t.path)
            /\ \A c \in cache : At(watches, tree, c.wd, Now(c.path, x.path, t.path))
            /\ \E c \in cache : c.wd = First.wd /\ Append(c.path, First.name) = x.path
            /\ \A c \in cache : ~IsPrefix(t.path, c.path)
            /\ \A e \in Rest : e.mask = "IN_MOVED_TO" =>
                  \E c \in cache : c.wd = e.wd /\ Append(c.path, e.name) = t.path
            /\ \A k \in Underway : k.to = t.path /\
                  \E d \in tree : d.ino = k.dir /\ d.path = Front(t.path)
            /\ \A e \in tree : e.path = Front(t.path) /\ Seen(watches, e.ino) =>
                  Announced(Pending, watches, Underway, e.ino, Last(t.path))
        BY <3>3 DEF Renaming, Moved
      <4>2. \A e \in Rest' : e.mask \in Structural => e \in Rest
        BY <1>3, <1>4, <1>6, <2>1, <2>5, <2>6, <3>3, <4>1, MovingRoot
      <4>3. Calm(Rest)'
        BY <1>2, <4>1, <4>2 DEF Calm, Stale
      <4>4. ASSUME NEW e \in ToSet(events), e.mask = "IN_MOVED_TO"
            PROVE  \E c \in cache : c.wd = e.wd /\ Append(c.path, e.name) = t.path
        <5>1. e.name = Last(t.path)
          BY <1>3, <1>5, <4>1, <4>4
        <5>2. PICK w \in watches : w.ino = j.dir /\ w.wd = e.wd
          BY <1>5, <4>4
        <5>3. PICK c \in cache : c.wd = w.wd
          BY EntryOf
        <5>4. PICK v \in watches, d \in tree :
                v.wd = c.wd /\ d.ino = v.ino /\ d.path = Now(c.path, x.path, t.path)
          BY <4>1 DEF At
        <5>5. v = w
          BY <5>3, <5>4 DEF IInv, WatchInv
        <5>6. PICK f \in tree : f.ino = j.dir /\ f.path = Front(t.path)
          BY <1>3, <4>1
        <5>7. Now(c.path, x.path, t.path) = Front(t.path)
          BY <1>4, <5>2, <5>4, <5>5, <5>6 DEF TreeInv
        <5>8. x.path \in Paths /\ t.path \in Paths /\ c.path \in Paths
          BY TreeType DEF IInv, TypeOK
        <5>9. /\ Front(t.path) \in Paths /\ Len(Front(t.path)) = Len(t.path) - 1
              /\ Last(t.path) \in Names /\ Len(t.path) \in Nat
          BY <4>1, <5>8, FrontParts, PathParts
        <5>10. c.path = Front(t.path)
          <6>1. CASE IsPrefix(x.path, c.path)
            <7>1. IsPrefix(t.path, Front(t.path))
              BY <5>7, <5>8, <6>1, NowFacts
            <7>2. Len(t.path) <= Len(Front(t.path))
              BY <5>8, <5>9, <7>1, PrefixFacts
            <7>3. \A n \in Nat : ~(n <= n - 1)
              OBVIOUS
            <7> QED BY <5>9, <7>2, <7>3
          <6>2. CASE ~IsPrefix(x.path, c.path)
            BY <5>7, <5>8, <6>2, NowFacts
          <6> QED BY <6>1, <6>2
        <5>11. /\ Append(c.path, Last(t.path)) \in Paths
               /\ Len(Append(c.path, Last(t.path))) > 1
               /\ Front(Append(c.path, Last(t.path))) = Front(t.path)
               /\ Last(Append(c.path, Last(t.path))) = Last(t.path)
          BY <5>8, <5>9, <5>10, AppendParts
        <5>12. Append(c.path, Last(t.path)) = t.path
          BY <4>1, <5>8, <5>11, FrontLastEqual
        <5> QED BY <5>1, <5>2, <5>3, <5>12
      <4>5. \A e \in Rest' : e.mask = "IN_MOVED_TO" =>
              \E c \in cache' : c.wd = e.wd /\ Append(c.path, e.name) = t.path
        BY <1>2, <1>6, <2>6, <4>1, <4>4
      <4>6. /\ \A k \in Underway' : k.to = t.path /\
                  \E d \in tree' : d.ino = k.dir /\ d.path = Front(t.path)
            /\ \A e \in tree' : e.path = Front(t.path) /\ Seen(watches', e.ino) =>
                  Announced(Pending', watches', Underway', e.ino, Last(t.path))
        BY <1>2, <1>3, <2>3, <4>1
      <4>7. Pending' # {} /\ First' = First
        BY <1>6, <4>1
      <4>8. \A c \in cache' : At(watches', tree', c.wd, Now(c.path, x.path, t.path))
        BY <1>2, <4>1
      <4>9. Renaming(x, t)'
        BY <1>2, <4>1, <4>3, <4>5, <4>6, <4>7, <4>8 DEF Renaming, Moved
      <4> QED BY <1>2, <4>9 DEF Phase
    <3>4. ASSUME NEW x \in cache, NEW t \in tree, RootMoving(x, t) PROVE Phase'
      <4>1. /\ Len(x.path) = 1 /\ Len(t.path) > 1 /\ t.path[1] \notin rootDirPaths
            /\ \A d \in tree : d.path[1] # x.path[1]
            /\ \A c \in cache : At(watches, tree, c.wd, Now(c.path, x.path, t.path))
            /\ \A e \in Pending : e.mask \in Structural =>
                  Stale(e) \/ (e.mask = "IN_MOVE_SELF" /\ e.wd = x.wd)
            /\ \/ \E e \in Pending : e.mask = "IN_MOVE_SELF" /\ e.wd = x.wd
               \/ \E k \in Underway, w \in watches : w.wd = x.wd /\ w.ino = k.ino
        BY <3>4 DEF RootMoving, Moved
      <4>2. \A w \in watches : w.ino = j.ino /\ w.self => w.wd = x.wd
        BY <1>3, <1>4, <2>1, <3>4, MovingRoot
      <4>3. \A e \in Pending' : e.mask \in Structural =>
              Stale(e)' \/ (e.mask = "IN_MOVE_SELF" /\ e.wd = x.wd)
        BY <1>2, <1>6, <2>5, <2>6, <4>1, <4>2 DEF Stale
      <4>4. \/ \E e \in Pending' : e.mask = "IN_MOVE_SELF" /\ e.wd = x.wd
            \/ \E k \in Underway', w \in watches' : w.wd = x.wd /\ w.ino = k.ino
        <5>1. ASSUME NEW w \in watches, w.wd = x.wd, w.ino = j.ino
              PROVE  \E e \in Pending' : e.mask = "IN_MOVE_SELF" /\ e.wd = x.wd
          <6>1. w.self
            BY <2>1, <4>1, <5>1 DEF Rooted
          <6>2. \E e \in ToSet(events) : e.mask = "IN_MOVE_SELF" /\ e.wd = w.wd
            BY <1>5, <5>1, <6>1
          <6> QED BY <2>1, <5>1, <6>2
        <5> QED BY <1>2, <1>3, <1>6, <4>1, <5>1
      <4>5. \A c \in cache' : At(watches', tree', c.wd, Now(c.path, x.path, t.path))
        BY <1>2, <4>1
      <4>6. RootMoving(x, t)'
        BY <1>2, <4>1, <4>3, <4>4, <4>5 DEF RootMoving, Moved
      <4> QED BY <1>2, <4>6 DEF Phase
    <3> QED BY <2>1, <3>1, <3>2, <3>3, <3>4 DEF Phase
  <2> QED BY <2>2, <2>4, <2>7
<1> QED BY <1>4, <1>7 DEF TrackInv

-----------------------------------------------------------------------------
(* The invariant holds of every reachable state. *)

(* The invariant holds at first. *)
LEMMA TrackInit ==
  ASSUME Init
  PROVE  TrackInv
<1>1. TreeInv
  BY TreeFirst
<1>2. watches = {} /\ cache = {} /\ queue = <<>> /\ buf = <<>>
      /\ walk = <<Frame(<<>>, rootDirPaths)>>
  BY DEF Init
<1>3. Pending = {}
  BY <1>2 DEF Pending, ToSet
<1> DEFINE f == Frame(<<>>, rootDirPaths)
<1>4. f.path = <<>> /\ f.ino = 0 /\ f.names = rootDirPaths
  BY DEF Frame
<1> HIDE DEF f
<1>5. ToSet(walk) = {f}
  BY <1>2, ToSetSingle DEF f
<1>6. Rooted /\ WalkInv
  BY <1>2, <1>4, <1>5 DEF Rooted, WalkInv
<1>7. Covered
  <2> SUFFICES ASSUME NEW d \in tree, d.path[1] \in rootDirPaths
               PROVE  CoveredDir(d)
    BY DEF Covered
  <2>1. VisitedRoot(ToSet(walk), d.path[1])
    BY <1>4, <1>5 DEF VisitedRoot
  <2>2. \A i : ~Seen(watches, i)
    BY <1>2 DEF Seen
  <2> QED BY <2>1, <2>2 DEF CoveredDir
<1>8. Phase
  BY <1>2, <1>3 DEF Phase, Steady, Calm
<1> QED BY <1>1, <1>6, <1>7, <1>8 DEF TrackInv

(* Every step keeps the invariant. *)
LEMMA NextTrackInv == IInv /\ TrackInv /\ ListInv /\ [Next]_vars => TrackInv'
<1> SUFFICES ASSUME IInv, TrackInv, ListInv, [Next]_vars PROVE TrackInv'
  OBVIOUS
<1>1. CASE MonitorStep
  BY <1>1, TrackVisit, TrackReadDir, TrackRead, TrackAnew, TrackIgnored,
     TrackCreated, TrackDeleted, TrackUnmounted, TrackMovedWithin, TrackMovedOut,
     TrackMoveSelf DEF MonitorStep
<1>2. ASSUME NEW m \in Mutators, MutatorStep(m) PROVE TrackInv'
  BY <1>2, TrackChoose, TrackMkdir, TrackRmdir, TrackRename, TrackRenameTo
     DEF MutatorStep
<1>3. ASSUME NEW r \in RootDirs, Unmount(r) PROVE TrackInv'
  BY <1>3, TrackCut
<1>4. CASE executeCommand
  BY <1>4, TrackAddSubtree, TrackCut, TrackAnew DEF executeCommand
<1>5. CASE UNCHANGED vars
  <2>1. UNCHANGED <<tree, nextIno, watches, nextWd, queue, pc, buf, cache,
                    rootDirPaths, walk, job, raced>>
    BY <1>5 DEF vars, fsVars, kernel, monitor, mutators
  <2>2. /\ Pending' = Pending /\ First' = First /\ Rest' = Rest
        /\ Underway' = Underway
    BY <2>1 DEF Pending, First, Rest, Underway
  <2>3. Sure' => Sure
    BY <2>1, <2>2 DEF Sure
  <2> QED BY <2>1, <2>2, <2>3, TrackSame
<1> QED BY <1>1, <1>2, <1>3, <1>4, <1>5, TrackAnew DEF Next

(* The cache of inotify_dtree is exact whenever all events are processed,  *)
(* for every tree, every number of mutators and every limit, as long as    *)
(* directories are removed and renamed one at a time: directories that are *)
(* created while nftw() traverses (the race of the comment at the call of  *)
(* watchSubtree for IN_CREATE), renames whose two events are read apart,   *)
(* root directories that are moved away, lost events and rebuilt caches    *)
(* included.                                                               *)
THEOREM ChangesTracked == Spec => []TracksChanges
<1>1. Init => TrackInv
  BY TrackInit
<1>2. IInv /\ TrackInv => TracksChanges
  BY TrackInvTracks
<1> QED BY <1>1, <1>2, Invariance, ListInit, NextListInv, NextTrackInv, PTL
        DEF Spec
=============================================================================
