-------------------------- MODULE LifecycleProofs ---------------------------
(***************************************************************************)
(* Proofs about Lifecycle: reference counts are exact and callbacks are    *)
(* given live objects, for any nodes, devices, tabs and number of events.  *)
(***************************************************************************)
EXTENDS Lifecycle, FiniteSetTheorems, SequenceTheorems, TLAPS

-----------------------------------------------------------------------------
(* Announcements in a queue.                                               *)

Queued == [kind : Kinds, of : Objects \union {None}, to : SUBSET (Nodes \union {Item})]

IsAnnouncement(e, o) == e.kind = "announce" /\ e.of = o
Announcing(q, o)     == {i \in DOMAIN q : IsAnnouncement(q[i], o)}
Announced(q, o)      == Cardinality(Announcing(q, o))

LEMMA AnnouncingFinite ==
  ASSUME NEW q \in Seq(Queued), NEW o
  PROVE  /\ IsFiniteSet(Announcing(q, o))
         /\ Announced(q, o) \in Nat
         /\ Announcing(q, o) \subseteq 1..Len(q)
<1>1. Announcing(q, o) \in SUBSET (1..Len(q))
  BY DEF Announcing
<1>2. IsFiniteSet(Announcing(q, o))
  BY <1>1, FS_Interval, FS_Subset
<1>. QED  BY <1>1, <1>2, FS_CardinalityType DEF Announced

\* A finite set of numbers keeps its size when all are moved by the same amount.
LEMMA ShiftKeepsSize ==
  ASSUME NEW S \in SUBSET Nat, IsFiniteSet(S), NEW k \in Nat
  PROVE  /\ IsFiniteSet({i + k : i \in S})
         /\ Cardinality({i + k : i \in S}) = Cardinality(S)
<1>. DEFINE T == {i + k : i \in S}
            f == [i \in S |-> i + k]
<1>1. f \in Bijection(S, T)
  <2>1. f \in [S -> T]
    OBVIOUS
  <2>2. \A i, j \in S : f[i] = f[j] => i = j
    OBVIOUS
  <2>3. \A t \in T : \E i \in S : f[i] = t
    OBVIOUS
  <2>. QED  BY <2>1, <2>2, <2>3 DEF Bijection, Injection, Surjection, IsInjective
<1>. QED  BY <1>1, FS_Bijection DEF ExistsBijection

\* What is emitted is added.
LEMMA EmitAnnounces ==
  ASSUME NEW q \in Seq(Queued), NEW r \in Seq(Queued), NEW o
  PROVE  Announced(q \o r, o) = Announced(q, o) + Announced(r, o)
<1>. DEFINE T == {i + Len(q) : i \in Announcing(r, o)}
<1>1. /\ q \o r \in Seq(Queued)
      /\ DOMAIN (q \o r) = 1..Len(q) + Len(r)
      /\ \A i \in 1..Len(q) + Len(r) :
           (q \o r)[i] = IF i <= Len(q) THEN q[i] ELSE r[i - Len(q)]
      /\ DOMAIN q = 1..Len(q) /\ DOMAIN r = 1..Len(r)
      /\ Len(q) \in Nat /\ Len(r) \in Nat
  BY ConcatProperties, LenProperties
<1>2. Announcing(q \o r, o) = Announcing(q, o) \union T
  <2>1. ASSUME NEW i \in Announcing(q \o r, o)
        PROVE  i \in Announcing(q, o) \union T
    <3>1. CASE i <= Len(q)
      BY <1>1, <2>1, <3>1 DEF Announcing
    <3>2. CASE i > Len(q)
      <4>1. i - Len(q) \in Announcing(r, o)
        BY <1>1, <2>1, <3>2 DEF Announcing
      <4>2. i = (i - Len(q)) + Len(q)
        BY <1>1, <2>1 DEF Announcing
      <4>. QED  BY <4>1, <4>2
    <3>. QED  BY <1>1, <2>1, <3>1, <3>2 DEF Announcing
  <2>2. ASSUME NEW i \in Announcing(q, o)
        PROVE  i \in Announcing(q \o r, o)
    BY <1>1, <2>2 DEF Announcing
  <2>3. ASSUME NEW i \in Announcing(r, o)
        PROVE  i + Len(q) \in Announcing(q \o r, o)
    BY <1>1, <2>3 DEF Announcing
  <2>. QED  BY <2>1, <2>2, <2>3
<1>3. IsFiniteSet(T) /\ Cardinality(T) = Announced(r, o)
  <2>1. Announcing(r, o) \in SUBSET Nat /\ IsFiniteSet(Announcing(r, o))
    BY <1>1, AnnouncingFinite
  <2>. HIDE DEF T
  <2>. QED  BY <1>1, <2>1, ShiftKeepsSize DEF Announced, T
<1>4. Announcing(q, o) \intersect T = {}
  BY <1>1, AnnouncingFinite
<1>. HIDE DEF T
<1>5. Cardinality(Announcing(q, o) \intersect T) = 0
  BY <1>4, FS_EmptySet
<1>6. IsFiniteSet(Announcing(q, o)) /\ Announced(q, o) \in Nat /\ Announced(r, o) \in Nat
  BY AnnouncingFinite
<1>7. Cardinality(Announcing(q, o) \union T)
        = Cardinality(Announcing(q, o)) + Cardinality(T) - 0
  BY <1>3, <1>5, <1>6, FS_Union
<1>. QED  BY <1>2, <1>3, <1>6, <1>7 DEF Announced

\* The event that is over is taken away.
LEMMA RetireAnnouncement ==
  ASSUME NEW q \in Seq(Queued), q # <<>>, NEW o
  PROVE  Announced(Tail(q), o) = Announced(q, o) -
                                 (IF IsAnnouncement(Head(q), o) THEN 1 ELSE 0)
<1>. DEFINE T == {i + 1 : i \in Announcing(Tail(q), o)}
<1>1. /\ Tail(q) \in Seq(Queued) /\ Len(Tail(q)) = Len(q) - 1
      /\ \A i \in 1..Len(Tail(q)) : Tail(q)[i] = q[i + 1]
      /\ DOMAIN q = 1..Len(q) /\ DOMAIN Tail(q) = 1..Len(Tail(q))
      /\ Len(q) \in Nat \ {0} /\ Head(q) = q[1]
  BY HeadTailProperties, LenProperties, EmptySeq
<1>2. T = Announcing(q, o) \ {1}
  <2>1. ASSUME NEW i \in Announcing(Tail(q), o)
        PROVE  i + 1 \in Announcing(q, o) \ {1}
    BY <1>1, <2>1 DEF Announcing
  <2>2. ASSUME NEW i \in Announcing(q, o) \ {1}
        PROVE  i - 1 \in Announcing(Tail(q), o) /\ i = (i - 1) + 1
    BY <1>1, <2>2 DEF Announcing
  <2>. QED  BY <2>1, <2>2
<1>3. Cardinality(T) = Announced(Tail(q), o)
  <2>1. Announcing(Tail(q), o) \in SUBSET Nat /\ IsFiniteSet(Announcing(Tail(q), o))
    <3>1. /\ Announcing(Tail(q), o) \subseteq 1..Len(Tail(q))
          /\ IsFiniteSet(Announcing(Tail(q), o))
      BY <1>1, AnnouncingFinite, Zenon
    <3>. QED  BY <3>1
  <2>. HIDE DEF T
  <2>. QED  BY <2>1, ShiftKeepsSize DEF Announced, T
<1>. HIDE DEF T
<1>4. 1 \in Announcing(q, o) <=> IsAnnouncement(Head(q), o)
  BY <1>1 DEF Announcing
<1>5. IsFiniteSet(Announcing(q, o)) /\ Announced(q, o) \in Nat
  BY AnnouncingFinite
<1>6. Cardinality(Announcing(q, o) \ {1})
        = IF 1 \in Announcing(q, o) THEN Announced(q, o) - 1 ELSE Announced(q, o)
  BY <1>5, FS_RemoveElement DEF Announced
<1>. QED  BY <1>2, <1>3, <1>4, <1>5, <1>6

\* Other events announce nothing.
LEMMA NoAnnouncement ==
  ASSUME NEW q, \A i \in DOMAIN q : q[i].kind # "announce", NEW o
  PROVE  Announced(q, o) = 0
<1>1. Announcing(q, o) = {}
  BY DEF Announcing, IsAnnouncement
<1>. QED  BY <1>1, FS_EmptySet DEF Announced

In(S, o) == IF o \in S THEN 1 ELSE 0

\* Every object of a set, in some order, and each of them once.
LEMMA OrderCoversOnce ==
  ASSUME NEW S, IsFiniteSet(S), NEW order \in SetToSeqs(S)
  PROVE  /\ DOMAIN order = 1..Cardinality(S) /\ Cardinality(S) \in Nat
         /\ order \in [1..Cardinality(S) -> S]
         /\ \A i, j \in DOMAIN order : order[i] = order[j] => i = j
         /\ \A x \in S : \E i \in DOMAIN order : order[i] = x
<1>. DEFINE D == 1..Cardinality(S)
<1>1. Cardinality(S) \in Nat
  BY FS_CardinalityType
<1>2. order \in [D -> S] /\ \A i, j \in D : i # j => order[i] # order[j]
  BY DEF SetToSeqs
<1>3. order \in Injection(D, S)
  BY <1>2 DEF Injection, IsInjective
<1>4. Cardinality(D) = Cardinality(S)
  BY <1>1, FS_Interval
<1>5. order \in Surjection(D, S)
  BY <1>3, <1>4, FS_Injection
<1>. QED  BY <1>1, <1>2, <1>5 DEF Surjection

\* An announcement of each object of a set.
LEMMA OrderAnnounces ==
  ASSUME NEW S \in SUBSET Objects, IsFiniteSet(S), NEW order \in SetToSeqs(S),
         NEW to \in SUBSET (Nodes \union {Item}),
         NEW q \in [DOMAIN order -> Queued],
         \A i \in DOMAIN order : q[i] = Event("announce", order[i], to)
  PROVE  /\ q \in Seq(Queued)
         /\ \A o : Announced(q, o) = In(S, o)
         /\ \A i \in DOMAIN q : q[i].kind = "announce" /\ q[i].to = to /\ q[i].of \in S
<1>1. /\ DOMAIN order = 1..Cardinality(S) /\ Cardinality(S) \in Nat
      /\ order \in [1..Cardinality(S) -> S]
      /\ \A i, j \in DOMAIN order : order[i] = order[j] => i = j
      /\ \A x \in S : \E i \in DOMAIN order : order[i] = x
  BY OrderCoversOnce
<1>2. \A i \in 1..Cardinality(S) :
        /\ q[i] \in Queued
        /\ q[i].kind = "announce" /\ q[i].to = to /\ q[i].of = order[i]
        /\ order[i] \in S
  BY <1>1 DEF Event, Queued, Kinds
<1>3. DOMAIN q = 1..Cardinality(S) /\ q \in [1..Cardinality(S) -> Queued]
  BY <1>1, <1>2
<1>4. q \in Seq(Queued)
  BY <1>1, <1>3, SeqDef
<1>5. ASSUME NEW o
      PROVE  Announced(q, o) = In(S, o)
  <2>1. Announcing(q, o) = {i \in DOMAIN order : order[i] = o}
    BY <1>1, <1>2, <1>3 DEF Announcing, IsAnnouncement
  <2>2. CASE o \in S
    <3>1. PICK i \in DOMAIN order : order[i] = o
      BY <1>1, <2>2
    <3>2. Announcing(q, o) = {i}
      BY <1>1, <2>1, <3>1
    <3>. QED  BY <2>2, <3>2, FS_Singleton DEF Announced, In
  <2>3. CASE o \notin S
    <3>1. Announcing(q, o) = {}
      BY <1>1, <2>1, <2>3
    <3>. QED  BY <2>3, <3>1, FS_EmptySet DEF Announced, In
  <2>. QED  BY <2>2, <2>3
<1>. QED  BY <1>2, <1>3, <1>4, <1>5

-----------------------------------------------------------------------------
(* The invariant.                                                          *)

Types ==
  /\ TypeOK
  /\ queue \in Seq(Queued)
  /\ \A i \in DOMAIN queue : queue[i].kind # "default" => queue[i].of \in Objects
  /\ pc # "idle" => queue # <<>>
  /\ IsFiniteSet(mapped) /\ IsFiniteSet(watching)
  /\ IsFiniteSet({n \in Nodes : device[n] # None})

\* What a node holds keeps the node alive, or rather goes with it.
HoldersLive ==
  /\ \A n \in watching : state[n] = "live"
  /\ \A n \in Nodes : device[n] # None => state[n] = "live"

\* The callbacks of the event at the head of the queue have run.
Delivered(i) == i = 1 /\ pc = "after"

\* The TUI is told of an object once, before it has an item for it.
ShownOnce ==
  /\ \A i, j \in DOMAIN queue :
       /\ queue[i].kind = "announce" /\ Item \in queue[i].to
       /\ queue[j].kind = "announce" /\ Item \in queue[j].to
       /\ queue[i].of = queue[j].of
       => i = j
  /\ \A i \in DOMAIN queue :
       queue[i].kind = "announce" /\ Item \in queue[i].to /\ ~Delivered(i) =>
         queue[i].of \notin shown

\* An item is told of the removal once, and has waited for it.
RemovedOnce ==
  /\ \A i, j \in DOMAIN queue :
       /\ queue[i].kind = "removed" /\ queue[j].kind = "removed"
       /\ queue[i].of = queue[j].of
       => i = j
  /\ \A i \in DOMAIN queue :
       queue[i].kind = "removed" =>
         /\ queue[i].of \in gone
         /\ Item \in queue[i].to /\ ~Delivered(i) => queue[i].of \in shown

Inv == Types /\ RefcntsOwned /\ HoldersLive /\ ShownOnce /\ RemovedOnce

-----------------------------------------------------------------------------
(* References and their owners.                                            *)

HoldersOf(o) == {n \in Nodes : device[n] = o}
Holders(o)   == Cardinality(HoldersOf(o))

Counted ==
  \A o \in Objects :
    /\ Announced(queue, o) \in Nat /\ Holders(o) \in Nat
    /\ Owners(o) = In(mapped, o) + Announced(queue, o) + 2 * In(shown, o) + 2 * Holders(o)

LEMMA SizeOfPart ==
  ASSUME NEW S, NEW o  PROVE  Cardinality(S \intersect {o}) = In(S, o)
<1>1. CASE o \in S
  <2>1. S \intersect {o} = {o}
    BY <1>1
  <2>. QED  BY <1>1, <2>1, FS_Singleton DEF In
<1>2. CASE o \notin S
  <2>1. S \intersect {o} = {}
    BY <1>2
  <2>. QED  BY <1>2, <2>1, FS_EmptySet DEF In
<1>. QED  BY <1>1, <1>2

LEMMA HoldersFinite ==
  ASSUME Types, NEW o \in Objects
  PROVE  IsFiniteSet(HoldersOf(o)) /\ Holders(o) \in Nat
<1>1. HoldersOf(o) \in SUBSET {n \in Nodes : device[n] # None}
  BY LifecycleAssumption DEF HoldersOf
<1>2. IsFiniteSet(HoldersOf(o))
  BY <1>1, FS_Subset DEF Types
<1>. QED  BY <1>2, FS_CardinalityType DEF Holders

LEMMA OwnersAreCounted == Types => Counted
<1>. SUFFICES ASSUME Types, NEW o \in Objects
              PROVE  /\ Announced(queue, o) \in Nat /\ Holders(o) \in Nat
                     /\ Owners(o) = In(mapped, o) + Announced(queue, o)
                                    + 2 * In(shown, o) + 2 * Holders(o)
  BY DEF Counted
<1>1. Announced(queue, o) \in Nat
  BY AnnouncingFinite DEF Types
<1>2. Cardinality(Announcements(o)) = Announced(queue, o)
  BY DEF Announcements, Announced, Announcing, IsAnnouncement
<1>3. Cardinality({n \in Nodes : device[n] = o}) = Holders(o)
  BY DEF Holders, HoldersOf
<1>. QED  BY <1>1, <1>2, <1>3, HoldersFinite, SizeOfPart DEF Owners

LEMMA OwnersAreCountedNext == Types' => Counted'
BY OwnersAreCounted, PTL

\* Whoever may use an object has a reference that keeps it alive.
LEMMA OwnersKeepAlive ==
  ASSUME Types, RefcntsOwned, NEW o \in Objects
  PROVE  /\ o \in mapped => refcnt[o] >= 1 /\ state[o] = "live"
         /\ \A i \in DOMAIN queue : IsAnnouncement(queue[i], o) =>
              refcnt[o] >= 1 /\ state[o] = "live"
         /\ o \in shown => refcnt[o] >= 2 /\ state[o] = "live"
         /\ \A n \in Nodes : device[n] = o => refcnt[o] >= 2 /\ state[o] = "live"
<1>1. /\ Announced(queue, o) \in Nat /\ Holders(o) \in Nat /\ refcnt[o] \in Nat
      /\ refcnt[o] = In(mapped, o) + Announced(queue, o) + 2 * In(shown, o)
                       + 2 * Holders(o)
      /\ state[o] = "live" <=> refcnt[o] > 0
  BY OwnersAreCounted DEF Counted, RefcntsOwned, Types, TypeOK
<1>2. ASSUME NEW i \in DOMAIN queue, IsAnnouncement(queue[i], o)
      PROVE  Announced(queue, o) # 0
  <2>1. i \in Announcing(queue, o)
    BY <1>2 DEF Announcing
  <2>2. IsFiniteSet(Announcing(queue, o))
    BY AnnouncingFinite DEF Types
  <2>. QED  BY <2>1, <2>2, FS_EmptySet DEF Announced
<1>3. ASSUME NEW n \in Nodes, device[n] = o
      PROVE  Holders(o) # 0
  <2>1. n \in HoldersOf(o)
    BY <1>3 DEF HoldersOf
  <2>. QED  BY <2>1, HoldersFinite, FS_EmptySet DEF Holders
<1>. QED  BY <1>1, <1>2, <1>3 DEF In

\* What no one refers to has no owner either.
LEMMA NotLiveNotOwned ==
  ASSUME Types, RefcntsOwned, NEW o \in Objects, state[o] # "live"
  PROVE  /\ refcnt[o] = 0
         /\ o \notin mapped /\ o \notin shown
         /\ \A i \in DOMAIN queue : ~IsAnnouncement(queue[i], o)
         /\ \A n \in Nodes : device[n] # o
BY OwnersKeepAlive DEF RefcntsOwned, Types, TypeOK

\* node_unref and device_unref (node.c:572-610, device.c:470-496): the counts
\* fall by what is dropped, an object dies if none is left, and a node that dies
\* holds nothing.
LEMMA UnrefDrops ==
  ASSUME Types, RefcntsOwned, HoldersLive, NEW o \in Objects, NEW count \in {1, 2},
         refcnt[o] >= count, Unref(o, count)
  PROVE  /\ state' \in [Objects -> {"absent", "live", "destroyed"}]
         /\ refcnt' \in [Objects -> Nat]
         /\ device' \in [Nodes -> Devices \union {None}]
         /\ watching' \subseteq watching
         /\ IsFiniteSet(watching')
         /\ IsFiniteSet({n \in Nodes : device[n] # None}')
         /\ \A x \in Objects : Holders(x)' \in Nat
         /\ \A x \in Objects :
              refcnt'[x] = refcnt[x] - (IF x = o THEN count ELSE 0)
                             + 2 * (Holders(x)' - Holders(x))
         /\ \A x \in Objects : state'[x] = "live" <=> refcnt'[x] > 0
         /\ HoldersLive'
<1>. DEFINE dies == refcnt[o] = count
            dev  == IF dies /\ o \in Nodes THEN device[o] ELSE None
            dead == (IF dies THEN {o} ELSE {})
                      \union {d \in Devices : d = dev /\ refcnt[d] = 2}
<1>1. /\ refcnt' = [x \in Objects |-> refcnt[x] - (IF x = o THEN count ELSE 0)
                                               - (IF x = dev THEN 2 ELSE 0)]
      /\ state' = [x \in Objects |-> IF x \in dead THEN "destroyed" ELSE state[x]]
      /\ device' = [n \in Nodes |-> IF n \in dead THEN None ELSE device[n]]
      /\ watching' = watching \ dead
  BY DEF Unref
<1>2. /\ device \in [Nodes -> Devices \union {None}] /\ watching \subseteq Nodes
      /\ state \in [Objects -> {"absent", "live", "destroyed"}]
      /\ refcnt \in [Objects -> Nat]
      /\ Nodes \intersect Devices = {} /\ None \notin Objects
      /\ Nodes \subseteq Objects /\ Devices \subseteq Objects
      /\ \A x \in Objects : state[x] = "live" <=> refcnt[x] > 0
  BY LifecycleAssumption DEF Types, TypeOK, Objects, RefcntsOwned
<1>3. dev \in Devices \union {None} /\ dev # o
  BY <1>2
<1>4. dev # None => /\ dev \in Objects /\ refcnt[dev] >= 2
                    /\ o \in Nodes /\ device[o] = dev /\ dies
  BY <1>2, <1>3, OwnersKeepAlive
<1>5. \A n \in Nodes : n \in dead <=> dies /\ n = o
  BY <1>2
<1>6. \A x \in Objects : x \in dead <=> (dies /\ x = o) \/ (x = dev /\ refcnt[x] = 2)
  BY <1>2, <1>3
<1>. HIDE DEF dead
<1>7. /\ state' \in [Objects -> {"absent", "live", "destroyed"}]
      /\ device' \in [Nodes -> Devices \union {None}]
      /\ watching' \subseteq watching
  BY <1>1, <1>2
<1>8. refcnt' \in [Objects -> Nat]
  BY <1>1, <1>2, <1>3, <1>4
<1>9. IsFiniteSet(watching') /\ IsFiniteSet({n \in Nodes : device'[n] # None})
  <2>1. /\ watching' \in SUBSET watching
        /\ {n \in Nodes : device'[n] # None} \in SUBSET {n \in Nodes : device[n] # None}
    BY <1>1
  <2>. QED  BY <2>1, FS_Subset DEF Types
<1>10. \A x \in Objects :
         Holders(x)' = Holders(x) - (IF x = dev THEN 1 ELSE 0) /\ Holders(x)' \in Nat
  <2>. SUFFICES ASSUME NEW x \in Objects
                PROVE  /\ Holders(x)' = Holders(x) - (IF x = dev THEN 1 ELSE 0)
                       /\ Holders(x)' \in Nat
    OBVIOUS
  <2>1. IsFiniteSet(HoldersOf(x)) /\ Holders(x) \in Nat
    BY HoldersFinite
  <2>2. HoldersOf(x)' = {n \in Nodes : device'[n] = x}
    BY DEF HoldersOf
  <2>3. CASE x = dev
    <3>1. HoldersOf(x)' = HoldersOf(x) \ {o} /\ o \in HoldersOf(x)
      BY <1>1, <1>2, <1>4, <1>5, <2>2, <2>3 DEF HoldersOf
    <3>2. /\ IsFiniteSet(HoldersOf(x)')
          /\ Cardinality(HoldersOf(x)') = Cardinality(HoldersOf(x)) - 1
      BY <2>1, <3>1, FS_RemoveElement
    <3>. QED  BY <2>1, <2>3, <3>2, FS_CardinalityType DEF Holders
  <2>4. CASE x # dev
    <3>1. HoldersOf(x)' = HoldersOf(x)
      BY <1>1, <1>2, <1>5, <2>2, <2>4 DEF HoldersOf
    <3>. QED  BY <2>1, <2>4, <3>1 DEF Holders
  <2>. QED  BY <2>3, <2>4
<1>11. \A x \in Objects :
         refcnt'[x] = refcnt[x] - (IF x = o THEN count ELSE 0)
                        + 2 * (Holders(x)' - Holders(x))
  BY <1>1, <1>2, <1>10, HoldersFinite
<1>12. \A x \in Objects : state'[x] = "live" <=> refcnt'[x] > 0
  BY <1>1, <1>2, <1>3, <1>4, <1>6
<1>13. HoldersLive'
  BY <1>1, <1>2, <1>4, <1>6 DEF HoldersLive
<1>. HIDE DEF dies, dev
<1>. QED  BY <1>7, <1>8, <1>9, <1>10, <1>11, <1>12, <1>13

-----------------------------------------------------------------------------
(* What the actions do to the queue.                                       *)

Tells(e, kind) == e.kind = kind /\ Item \in e.to

\* Events that neither show an item nor take one away.
Ordinary(r) ==
  /\ r \in Seq(Queued)
  /\ \A i \in DOMAIN r : /\ ~Tells(r[i], "announce") /\ r[i].kind # "removed"
                         /\ r[i].kind # "default" => r[i].of \in Objects

\* A step that emits nothing but such events.
Quietly == \E r : Ordinary(r) /\ Emit(r)

LEMMA OrdinaryEmpty == Ordinary(<<>>)
BY EmptySeq DEF Ordinary

LEMMA OrdinaryOne ==
  ASSUME NEW e \in Queued, ~Tells(e, "announce"), e.kind # "removed",
         e.kind # "default" => e.of \in Objects
  PROVE  Ordinary(<<e>>)
BY DEF Ordinary

LEMMA OrdinaryConcat ==
  ASSUME NEW r, Ordinary(r), NEW t, Ordinary(t)
  PROVE  Ordinary(r \o t)
<1>1. /\ r \o t \in Seq(Queued)
      /\ DOMAIN (r \o t) = 1..Len(r) + Len(t)
      /\ \A i \in 1..Len(r) + Len(t) :
           (r \o t)[i] = IF i <= Len(r) THEN r[i] ELSE t[i - Len(r)]
      /\ DOMAIN r = 1..Len(r) /\ DOMAIN t = 1..Len(t)
      /\ Len(r) \in Nat /\ Len(t) \in Nat
  BY ConcatProperties, LenProperties DEF Ordinary
<1>2. ASSUME NEW i \in 1..Len(r) + Len(t)
      PROVE  \/ i \in DOMAIN r /\ (r \o t)[i] = r[i]
             \/ i - Len(r) \in DOMAIN t /\ (r \o t)[i] = t[i - Len(r)]
  BY <1>1
<1>. QED  BY <1>1, <1>2 DEF Ordinary

QueueTyped(q) ==
  /\ q \in Seq(Queued)
  /\ \A i \in DOMAIN q : q[i].kind # "default" => q[i].of \in Objects

\* The events in the queue agree with what will be shown when the step is done.
StillFits ==
  \A i \in DOMAIN queue : i # 1 \/ pc' # "after" =>
    /\ Tells(queue[i], "announce") => queue[i].of \notin shown'
    /\ Tells(queue[i], "removed") => queue[i].of \in shown'

\* And so do those that are emitted.
NewsFits(r) ==
  /\ Ordinary(r) \/ Len(r) = 1
  /\ \A i \in DOMAIN r :
       /\ Tells(r[i], "announce") =>
            /\ r[i].of \notin shown'
            /\ \A j \in DOMAIN queue : Tells(queue[j], "announce") => queue[j].of # r[i].of
       /\ r[i].kind = "removed" => r[i].of \in gone' \ gone
       /\ Tells(r[i], "removed") => r[i].of \in shown'

\* event_emit: the invariants of the queue, and its announcements.
LEMMA EmitKeeps ==
  ASSUME Types, ShownOnce, RemovedOnce, NEW r, QueueTyped(r), Emit(r),
         gone \subseteq gone', StillFits, NewsFits(r)
  PROVE  /\ QueueTyped(queue)' /\ (queue # <<>> => queue' # <<>>)
         /\ ShownOnce' /\ RemovedOnce'
         /\ \A o : Announced(queue, o)' = Announced(queue, o) + Announced(r, o)
<1>1. /\ queue' = queue \o r /\ queue' \in Seq(Queued)
      /\ DOMAIN queue' = 1..Len(queue) + Len(r)
      /\ \A i \in 1..Len(queue) + Len(r) :
           queue'[i] = IF i <= Len(queue) THEN queue[i] ELSE r[i - Len(queue)]
      /\ DOMAIN queue = 1..Len(queue) /\ DOMAIN r = 1..Len(r)
      /\ Len(queue) \in Nat /\ Len(r) \in Nat
      /\ queue \in Seq(Queued) /\ r \in Seq(Queued)
  BY ConcatProperties, LenProperties DEF Types, QueueTyped, Emit
<1>2. ASSUME NEW i \in DOMAIN queue'
      PROVE  \/ i \in DOMAIN queue /\ queue'[i] = queue[i]
             \/ i \notin DOMAIN queue /\ i - Len(queue) \in DOMAIN r
                /\ queue'[i] = r[i - Len(queue)]
  BY <1>1
<1>3. QueueTyped(queue')
  BY <1>1, <1>2 DEF QueueTyped, Types
<1>4. queue # <<>> => queue' # <<>>
  BY <1>1, ConcatEqualIffEmpty
<1>5. \A o : Announced(queue', o) = Announced(queue, o) + Announced(r, o)
  BY <1>1, EmitAnnounces
<1>6. ASSUME NEW i \in DOMAIN queue', NEW j \in DOMAIN queue', queue'[i].of = queue'[j].of,
             \/ Tells(queue'[i], "announce") /\ Tells(queue'[j], "announce")
             \/ queue'[i].kind = "removed" /\ queue'[j].kind = "removed"
      PROVE  i = j
  <2>1. CASE i \in DOMAIN queue /\ j \in DOMAIN queue
    BY <1>2, <1>6, <2>1 DEF ShownOnce, RemovedOnce, Tells
  <2>2. CASE i \notin DOMAIN queue /\ j \notin DOMAIN queue
    <3>1. i - Len(queue) \in DOMAIN r /\ ~Ordinary(r)
      BY <1>2, <1>6, <2>2 DEF Ordinary
    <3>2. Len(r) = 1
      BY <3>1 DEF NewsFits
    <3>. QED  BY <1>1, <2>2, <3>2
  <2>3. CASE i \in DOMAIN queue /\ j \notin DOMAIN queue
    BY <1>2, <1>6, <2>3 DEF NewsFits, RemovedOnce
  <2>4. CASE j \in DOMAIN queue /\ i \notin DOMAIN queue
    BY <1>2, <1>6, <2>4 DEF NewsFits, RemovedOnce
  <2>. QED  BY <2>1, <2>2, <2>3, <2>4
<1>7. ShownOnce'
  BY <1>2, <1>6 DEF ShownOnce, Tells, Delivered, StillFits, NewsFits
<1>8. RemovedOnce'
  BY <1>2, <1>6 DEF RemovedOnce, Tells, Delivered, StillFits, NewsFits
<1>. QED  BY <1>3, <1>4, <1>5, <1>7, <1>8

\* A step that leaves the queue and the screen alone.
LEMMA QuietKeeps ==
  ASSUME Types, ShownOnce, RemovedOnce, UNCHANGED <<queue, shown, gone>>,
         pc' = pc \/ pc # "after"
  PROVE  ShownOnce' /\ RemovedOnce'
BY DEF ShownOnce, RemovedOnce, Delivered

\* The events of a queue before any of them is delivered.
LEMMA FitsUntilDelivered ==
  ASSUME Types, ShownOnce, RemovedOnce, pc # "after", UNCHANGED shown
  PROVE  StillFits
BY DEF StillFits, Tells, ShownOnce, RemovedOnce, Delivered

\* The end of the event at the head of the queue.
LEMMA RetireKeeps ==
  ASSUME Types, ShownOnce, RemovedOnce, queue # <<>>, pc = "after", pc' # "after",
         queue' = Tail(queue), UNCHANGED <<shown, gone>>
  PROVE  /\ QueueTyped(queue)'
         /\ ShownOnce' /\ RemovedOnce'
         /\ \A o : Announced(queue, o)' = Announced(queue, o) -
                     (IF IsAnnouncement(Current, o) THEN 1 ELSE 0)
<1>1. /\ queue' \in Seq(Queued) /\ Len(queue') = Len(queue) - 1
      /\ \A i \in 1..Len(queue') : queue'[i] = queue[i + 1]
      /\ DOMAIN queue = 1..Len(queue) /\ DOMAIN queue' = 1..Len(queue')
      /\ Len(queue) \in Nat \ {0}
  BY HeadTailProperties, LenProperties, EmptySeq DEF Types
<1>2. \A i \in DOMAIN queue' : i + 1 \in DOMAIN queue /\ queue'[i] = queue[i + 1] /\ i # 0
  BY <1>1
<1>3. \A i, j \in DOMAIN queue' : i + 1 = j + 1 => i = j
  BY <1>1
<1>4. \A i \in DOMAIN queue' : i + 1 # 1
  BY <1>1
<1>5. QueueTyped(queue')
  BY <1>1, <1>2 DEF QueueTyped, Types
<1>6. ShownOnce'
  BY <1>2, <1>3, <1>4 DEF ShownOnce, Delivered
<1>7. RemovedOnce'
  BY <1>2, <1>3, <1>4 DEF RemovedOnce, Delivered
<1>8. \A o : Announced(queue', o) = Announced(queue, o) -
                (IF IsAnnouncement(Current, o) THEN 1 ELSE 0)
  BY RetireAnnouncement DEF Types, Current
<1>. QED  BY <1>5, <1>6, <1>7, <1>8

-----------------------------------------------------------------------------
(* Putting a step together.                                                *)

\* The types of what has no part in the rest of the invariant.
PlainTypes ==
  /\ gone \subseteq Objects /\ hasInfo \subseteq Objects /\ late \subseteq Objects
  /\ created \in [Objects -> Nat]
  /\ metadata \in BOOLEAN
  /\ messages \in 0..MaxMessages
  /\ pc \in {"idle", "deliver", "after"} /\ (pc # "idle" => queue # <<>>)

OwnedTypes ==
  /\ state \in [Objects -> {"absent", "live", "destroyed"}]
  /\ refcnt \in [Objects -> Nat]
  /\ mapped \subseteq Objects /\ shown \subseteq Objects /\ watching \subseteq Nodes
  /\ device \in [Nodes -> Devices \union {None}]
  /\ IsFiniteSet(mapped) /\ IsFiniteSet(watching)
  /\ IsFiniteSet({n \in Nodes : device[n] # None})

LEMMA TypesOfParts == Types <=> PlainTypes /\ OwnedTypes /\ QueueTyped(queue)
<1>1. queue \in Seq(Queued) => \A i \in DOMAIN queue : queue[i] \in Queued
  BY LenProperties
<1>. QED  BY <1>1 DEF Types, TypeOK, PlainTypes, OwnedTypes, QueueTyped, Queued

LEMMA TypesOfPartsNext == Types' <=> PlainTypes' /\ OwnedTypes' /\ QueueTyped(queue)'
BY TypesOfParts, PTL

\* A step that changes the counts by as much as the owners keeps them exact.
LEMMA CountsFollowOwners ==
  ASSUME Types, Types', RefcntsOwned,
         \A x \in Objects :
           refcnt'[x] = refcnt[x] + (In(mapped, x)' - In(mapped, x))
                          + (Announced(queue, x)' - Announced(queue, x))
                          + 2 * (In(shown, x)' - In(shown, x))
                          + 2 * (Holders(x)' - Holders(x)),
         \A x \in Objects : state'[x] = "live" <=> refcnt'[x] > 0
  PROVE  RefcntsOwned'
<1>1. Counted /\ Counted'
  BY OwnersAreCounted, OwnersAreCountedNext
<1>2. \A x \in Objects : Owners(x) = refcnt[x] /\ refcnt[x] \in Nat
  BY DEF RefcntsOwned, Types, TypeOK
<1>3. ASSUME NEW x \in Objects
      PROVE  refcnt'[x] = Owners(x)'
  <2>1. /\ Owners(x) = In(mapped, x) + Announced(queue, x)
                         + 2 * In(shown, x) + 2 * Holders(x)
        /\ Announced(queue, x) \in Nat /\ Holders(x) \in Nat
    BY <1>1 DEF Counted
  <2>2. /\ Owners(x)' = In(mapped, x)' + Announced(queue, x)'
                          + 2 * In(shown, x)' + 2 * Holders(x)'
        /\ Announced(queue, x)' \in Nat /\ Holders(x)' \in Nat
    BY <1>1 DEF Counted
  <2>3. In(mapped, x) \in Nat /\ In(shown, x) \in Nat
        /\ In(mapped, x)' \in Nat /\ In(shown, x)' \in Nat
    BY DEF In
  <2>. QED  BY <1>2, <2>1, <2>2, <2>3
<1>. QED  BY <1>3 DEF RefcntsOwned

\* A step that leaves the objects and who holds them alone.
LEMMA EmitStep ==
  ASSUME Inv, NEW r, QueueTyped(r), NewsFits(r), StillFits, Emit(r),
         gone \subseteq gone', \A x : Announced(r, x) = 0,
         UNCHANGED <<state, refcnt, device, watching, mapped, shown>>,
         PlainTypes'
  PROVE  Inv'
<1>1. /\ QueueTyped(queue)' /\ ShownOnce' /\ RemovedOnce'
      /\ \A x : Announced(queue, x)' = Announced(queue, x) + 0
  BY EmitKeeps DEF Inv
<1>2. OwnedTypes'
  BY TypesOfParts DEF Inv, OwnedTypes
<1>3. Types'
  BY <1>1, <1>2, TypesOfPartsNext
<1>4. \A x : /\ In(mapped, x)' = In(mapped, x) /\ In(shown, x)' = In(shown, x)
             /\ Holders(x)' = Holders(x)
  BY DEF In, Holders, HoldersOf
<1>5. RefcntsOwned'
  <2>1. \A x \in Objects : Announced(queue, x) \in Nat /\ Holders(x) \in Nat
    BY OwnersAreCounted DEF Inv, Counted
  <2>2. \A x \in Objects : In(mapped, x) \in Nat /\ In(shown, x) \in Nat
    BY DEF In
  <2>3. \A x \in Objects : refcnt[x] \in Nat /\ (state[x] = "live" <=> refcnt[x] > 0)
    BY DEF Inv, RefcntsOwned, Types, TypeOK
  <2>4. \A x \in Objects :
          refcnt'[x] = refcnt[x] + (In(mapped, x)' - In(mapped, x))
                         + (Announced(queue, x)' - Announced(queue, x))
                         + 2 * (In(shown, x)' - In(shown, x))
                         + 2 * (Holders(x)' - Holders(x))
    BY <1>1, <1>4, <2>1, <2>2, <2>3
  <2>. QED  BY <1>3, <2>3, <2>4, CountsFollowOwners DEF Inv
<1>6. HoldersLive'
  BY DEF Inv, HoldersLive
<1>. QED  BY <1>1, <1>3, <1>5, <1>6 DEF Inv

\* Events that announce nothing and neither show an item nor take one away.
Silent(r) == Ordinary(r) /\ \A x : Announced(r, x) = 0

LEMMA OrdinaryFits ==
  ASSUME NEW r, Ordinary(r)  PROVE  QueueTyped(r) /\ NewsFits(r)
BY DEF Ordinary, QueueTyped, NewsFits, Tells

LEMMA SilentEmpty == Silent(<<>>)
BY OrdinaryEmpty, NoAnnouncement DEF Silent

LEMMA SilentOne ==
  ASSUME NEW e \in Queued, e.kind \in {"update", "default"},
         e.kind # "default" => e.of \in Objects
  PROVE  Silent(<<e>>)
<1>1. Ordinary(<<e>>)
  BY OrdinaryOne DEF Tells
<1>. QED  BY <1>1, NoAnnouncement DEF Silent

LEMMA UpdateIsSilent ==
  ASSUME NEW o \in Objects  PROVE  Silent(<<Update(o)>>)
<1>1. Update(o) \in Queued /\ Update(o).kind = "update" /\ Update(o).of = o
  BY DEF Update, Event, Queued, Kinds, Listeners
<1>. QED  BY <1>1, SilentOne

LEMMA ReplayIsSilent ==
  ASSUME NEW o \in Objects \union {None}, NEW to \in Nodes \union {Item},
         o = None => o \notin hasInfo
  PROVE  Silent(Replay(o, to))
<1>1. CASE o \in hasInfo /\ o \in Objects
  <2>1. /\ Event("update", o, {to}) \in Queued
        /\ Event("update", o, {to}).kind = "update" /\ Event("update", o, {to}).of = o
    BY <1>1 DEF Event, Queued, Kinds
  <2>. QED  BY <1>1, <2>1, SilentOne DEF Replay
<1>2. CASE o \notin hasInfo
  BY <1>2, SilentEmpty DEF Replay
<1>. QED  BY <1>1, <1>2

LEMMA DefaultIsSilent ==
  ASSUME NEW to \in SUBSET Nodes  PROVE  Silent(<<Event("default", None, to)>>)
<1>1. /\ Event("default", None, to) \in Queued
      /\ Event("default", None, to).kind = "default"
  BY DEF Event, Queued, Kinds
<1>. QED  BY <1>1, SilentOne

\* Updates of several objects, in some order.
LEMMA UpdatesAreSilent ==
  ASSUME NEW S \in SUBSET Nodes, IsFiniteSet(S), NEW order \in SetToSeqs(S)
  PROVE  Silent([i \in DOMAIN order |-> Update(order[i])])
<1>. DEFINE q == [i \in DOMAIN order |-> Update(order[i])]
<1>1. /\ DOMAIN order = 1..Cardinality(S) /\ Cardinality(S) \in Nat
      /\ order \in [1..Cardinality(S) -> S]
  BY OrderCoversOnce
<1>2. ASSUME NEW i \in 1..Cardinality(S)
      PROVE  q[i] \in Queued /\ q[i].kind = "update" /\ q[i].of \in Objects
  BY <1>1 DEF Update, Event, Queued, Kinds, Listeners, Objects
<1>3. q \in [1..Cardinality(S) -> Queued]
  BY <1>1, <1>2
<1>4. q \in Seq(Queued)
  BY <1>1, <1>3, SeqDef
<1>5. \A i \in DOMAIN q : q[i].kind = "update" /\ q[i].of \in Objects
  BY <1>1, <1>2
<1>. HIDE DEF q
<1>6. \A x : Announced(q, x) = 0
  BY <1>5, NoAnnouncement
<1>7. Ordinary(q)
  BY <1>4, <1>5 DEF Ordinary, Tells
<1>8. Silent(q)
  BY <1>6, <1>7 DEF Silent
<1>. QED  BY <1>8 DEF q

-----------------------------------------------------------------------------
(* The steps.                                                              *)

LEMMA InitInv == Init => Inv
<1>. SUFFICES ASSUME Init PROVE Inv
  OBVIOUS
<1>1. OwnedTypes
  <2>1. {n \in Nodes : device[n] # None} = {}
    BY DEF Init
  <2>2. /\ IsFiniteSet(mapped) /\ IsFiniteSet(watching)
        /\ IsFiniteSet({n \in Nodes : device[n] # None})
    BY <2>1, FS_EmptySet DEF Init
  <2>. QED  BY <2>2 DEF Init, OwnedTypes
<1>2. PlainTypes
  <2>1. messages \in 0..MaxMessages
    BY LifecycleAssumption DEF Init
  <2>2. created \in [Objects -> Nat]
    BY DEF Init
  <2>. QED  BY <2>1, <2>2 DEF Init, PlainTypes
<1>3. QueueTyped(queue)
  BY EmptySeq DEF Init, QueueTyped
<1>4. Types
  BY <1>1, <1>2, <1>3, TypesOfParts
<1>5. \A x \in Objects : Announced(queue, x) = 0 /\ Holders(x) = 0
  <2>1. \A x \in Objects : HoldersOf(x) = {}
    BY LifecycleAssumption DEF Init, HoldersOf
  <2>2. \A x : Announced(queue, x) = 0
    BY NoAnnouncement DEF Init
  <2>. QED  BY <2>1, <2>2, FS_EmptySet DEF Holders
<1>6. RefcntsOwned
  BY <1>4, <1>5, OwnersAreCounted DEF Init, RefcntsOwned, Counted, In
<1>7. HoldersLive
  BY DEF Init, HoldersLive
<1>8. ShownOnce /\ RemovedOnce
  BY DEF Init, ShownOnce, RemovedOnce
<1>. QED  BY <1>4, <1>6, <1>7, <1>8 DEF Inv

\* A step that emits events of no consequence (metadata, properties, volumes).
LEMMA SilentStep ==
  ASSUME Inv, NEW r, Silent(r), Emit(r), pc # "after",
         UNCHANGED <<state, refcnt, device, watching, mapped, shown, gone>>,
         PlainTypes'
  PROVE  Inv'
<1>1. QueueTyped(r) /\ NewsFits(r)
  BY OrdinaryFits DEF Silent
<1>2. StillFits
  BY FitsUntilDelivered DEF Inv
<1>. QED  BY <1>1, <1>2, EmitStep DEF Silent

LEMMA EmitsNothing ==
  ASSUME Types, UNCHANGED queue  PROVE  Emit(<<>>)
BY ConcatEmptySeq DEF Emit, Types

\* The queue is not emptied by what is emitted.
LEMMA EmitLeavesSome ==
  ASSUME Types, NEW r \in Seq(Queued), Emit(r), queue # <<>>
  PROVE  queue' # <<>>
BY ConcatEqualIffEmpty DEF Types, Emit

LEMMA MetadataAppearsInv ==
  ASSUME Inv, MetadataAppears  PROVE  Inv'
<1>1. PlainTypes'
  BY TypesOfParts DEF Inv, PlainTypes, MetadataAppears, screen, owned
<1>2. Emit(<<>>)
  BY EmitsNothing DEF Inv, MetadataAppears
<1>. QED
  BY <1>1, <1>2, SilentEmpty, SilentStep DEF MetadataAppears, owned, screen

LEMMA DefaultChangesInv ==
  ASSUME Inv, DefaultChanges  PROVE  Inv'
<1>. DEFINE r == <<Event("default", None, watching)>>
<1>1. Types /\ PlainTypes
  BY TypesOfParts DEF Inv
<1>2. Silent(r) /\ Emit(r)
  BY <1>1, DefaultIsSilent DEF DefaultChanges, Types, TypeOK
<1>3. PlainTypes'
  BY <1>1, LifecycleAssumption
     DEF PlainTypes, DefaultChanges, Message, screen, owned, registry
<1>. HIDE DEF r
<1>. QED  BY <1>2, <1>3, SilentStep DEF DefaultChanges, Message, screen, owned, registry

LEMMA DeviceInfoInv ==
  ASSUME Inv, NEW d \in Devices, DeviceInfo(d)  PROVE  Inv'
<1>1. Types /\ PlainTypes /\ d \in Objects
  BY TypesOfParts DEF Inv, Objects
<1>2. Silent(<<Update(d)>>) /\ Emit(<<Update(d)>>)
  BY <1>1, UpdateIsSilent DEF DeviceInfo
<1>3. PlainTypes'
  BY <1>1, LifecycleAssumption DEF PlainTypes, DeviceInfo, Message, screen, owned
<1>. QED  BY <1>2, <1>3, SilentStep DEF DeviceInfo, Message, screen, owned

LEMMA NodeParamInv ==
  ASSUME Inv, NEW n \in Nodes, NodeParam(n)  PROVE  Inv'
<1>1. Types /\ PlainTypes /\ n \in Objects
  BY TypesOfParts DEF Inv, Objects
<1>2. Silent(<<Update(n)>>) /\ Emit(<<Update(n)>>)
  BY <1>1, UpdateIsSilent DEF NodeParam
<1>3. PlainTypes'
  BY <1>1, LifecycleAssumption
     DEF PlainTypes, NodeParam, Message, screen, owned, registry
<1>. QED  BY <1>2, <1>3, SilentStep DEF NodeParam, Message, screen, owned, registry

LEMMA DispatchBeginInv ==
  ASSUME Inv, DispatchBegin  PROVE  Inv'
<1>1. PlainTypes'
  BY TypesOfParts DEF Inv, PlainTypes, DispatchBegin, screen, owned, registry
<1>2. Emit(<<>>)
  BY EmitsNothing DEF Inv, DispatchBegin
<1>. QED
  BY <1>1, <1>2, SilentEmpty, SilentStep DEF DispatchBegin, owned, screen, registry

LEMMA DeliverDefaultInv ==
  ASSUME Inv, DeliverDefault  PROVE  Inv' /\ Quietly
<1>1. Types /\ PlainTypes
  BY TypesOfParts DEF Inv
<1>2. PICK changed \in SUBSET (Current.to \intersect watching) :
        \E order \in SetToSeqs(changed) :
          Emit([i \in DOMAIN order |-> Update(order[i])])
  BY DEF DeliverDefault
<1>3. PICK order \in SetToSeqs(changed) : Emit([i \in DOMAIN order |-> Update(order[i])])
  BY <1>2
<1>. DEFINE r == [i \in DOMAIN order |-> Update(order[i])]
<1>4. changed \in SUBSET Nodes /\ IsFiniteSet(changed)
  BY <1>1, FS_Subset DEF Types, TypeOK
<1>5. Silent(r)
  BY <1>4, UpdatesAreSilent
<1>. HIDE DEF r
<1>6. queue' # <<>>
  BY <1>1, <1>3, <1>5, EmitLeavesSome DEF Silent, Ordinary, r, PlainTypes, DeliverDefault
<1>7. PlainTypes'
  BY <1>1, <1>6 DEF PlainTypes, DeliverDefault, screen, owned, registry
<1>8. Quietly
  BY <1>3, <1>5 DEF Silent, Quietly, r
<1>. QED
  BY <1>3, <1>5, <1>7, <1>8, SilentStep DEF DeliverDefault, screen, owned, registry, r

LEMMA DeliverUpdateInv ==
  ASSUME Inv, DeliverUpdate  PROVE  Inv' /\ Quietly
<1>1. Types /\ PlainTypes
  BY TypesOfParts DEF Inv
<1>. DEFINE S == {n \in Current.to \intersect Nodes : device[n] = Current.of}
<1>3. PICK order \in SetToSeqs(S) : Emit([i \in DOMAIN order |-> Update(order[i])])
  BY DEF DeliverUpdate
<1>. DEFINE r == [i \in DOMAIN order |-> Update(order[i])]
<1>4. S \in SUBSET Nodes /\ IsFiniteSet(S)
  <2>1. Current.of \in Objects
    <3>1. queue # <<>> /\ 1 \in DOMAIN queue /\ Current = queue[1]
      BY <1>1, EmptySeq, LenProperties DEF DeliverUpdate, PlainTypes, Types, Current
    <3>. QED  BY <1>1, <3>1 DEF Types, DeliverUpdate
  <2>2. S \in SUBSET {n \in Nodes : device[n] # None}
    BY <2>1, LifecycleAssumption
  <2>. QED  BY <1>1, <2>2, FS_Subset DEF Types
<1>5. Silent(r)
  BY <1>4, UpdatesAreSilent
<1>. HIDE DEF r, S
<1>6. queue' # <<>>
  BY <1>1, <1>3, <1>5, EmitLeavesSome DEF Silent, Ordinary, r, PlainTypes, DeliverUpdate
<1>7. PlainTypes'
  BY <1>1, <1>6 DEF PlainTypes, DeliverUpdate, screen, owned, registry
<1>8. Quietly
  BY <1>3, <1>5 DEF Silent, Quietly, r
<1>. QED
  BY <1>3, <1>5, <1>7, <1>8, SilentStep DEF DeliverUpdate, screen, owned, registry, r

\* on_proxy_removed: the event goes to an item only if there is one, and once.
LEMMA ProxyRemovedInv ==
  ASSUME Inv, NEW o \in Objects, ProxyRemoved(o)  PROVE  Inv'
<1>. DEFINE e == Event("removed", o, Listeners(o))
<1>1. Types /\ PlainTypes
  BY TypesOfParts DEF Inv
<1>2. /\ e \in Queued /\ e.kind = "removed" /\ e.of = o
      /\ Item \in e.to => o \in shown
  BY LifecycleAssumption DEF Event, Queued, Kinds, Listeners, Objects
<1>. HIDE DEF e
<1>3. Emit(<<e>>) /\ QueueTyped(<<e>>)
  BY <1>2 DEF ProxyRemoved, QueueTyped, e
<1>4. \A x : Announced(<<e>>, x) = 0
  BY <1>2, NoAnnouncement
<1>5. NewsFits(<<e>>)
  BY <1>2 DEF NewsFits, Tells, ProxyRemoved, Bound, screen
<1>6. StillFits
  BY FitsUntilDelivered DEF Inv, ProxyRemoved, screen
<1>7. PlainTypes'
  BY <1>1 DEF PlainTypes, ProxyRemoved, screen, owned
<1>. QED
  BY <1>3, <1>4, <1>5, <1>6, <1>7, EmitStep DEF ProxyRemoved, screen, owned

LEMMA AnnouncementCounts ==
  ASSUME NEW o \in Objects, NEW to \in SUBSET (Nodes \union {Item})
  PROVE  /\ QueueTyped(<<Event("announce", o, to)>>)
         /\ \A x : Announced(<<Event("announce", o, to)>>, x) = IF x = o THEN 1 ELSE 0
<1>. DEFINE e == Event("announce", o, to)
<1>1. e \in Queued /\ e.kind = "announce" /\ e.of = o
  BY DEF Event, Queued, Kinds
<1>. HIDE DEF e
<1>2. QueueTyped(<<e>>)
  BY <1>1 DEF QueueTyped
<1>3. ASSUME NEW x  PROVE  Announced(<<e>>, x) = IF x = o THEN 1 ELSE 0
  <2>1. CASE x = o
    <3>1. Announcing(<<e>>, x) = {1}
      BY <1>1, <2>1 DEF Announcing, IsAnnouncement
    <3>. QED  BY <2>1, <3>1, FS_Singleton DEF Announced
  <2>2. CASE x # o
    <3>1. Announcing(<<e>>, x) = {}
      BY <1>1, <2>2 DEF Announcing, IsAnnouncement
    <3>. QED  BY <2>2, <3>1, FS_EmptySet DEF Announced
  <2>. QED  BY <2>1, <2>2
<1>. QED  BY <1>2, <1>3 DEF e

\* What the counts are made of, before the step and after it.
LEMMA Numbers ==
  ASSUME Inv, NEW x \in Objects
  PROVE  /\ Announced(queue, x) \in Nat /\ Holders(x) \in Nat /\ refcnt[x] \in Nat
         /\ In(mapped, x) \in Nat /\ In(shown, x) \in Nat
         /\ In(mapped, x)' \in Nat /\ In(shown, x)' \in Nat
         /\ state[x] = "live" <=> refcnt[x] > 0
BY OwnersAreCounted DEF Inv, Counted, RefcntsOwned, Types, TypeOK, In

\* The head of a queue that is being emptied.
LEMMA HeadOfQueue ==
  ASSUME Types, pc # "idle"
  PROVE  /\ queue # <<>> /\ 1 \in DOMAIN queue /\ Current = queue[1]
         /\ Current \in Queued
         /\ Current.kind # "default" => Current.of \in Objects
BY EmptySeq, LenProperties DEF Types, Current

\* on_registry_global: a new object has had no part in anything.
LEMMA GlobalAppearsInv ==
  ASSUME Inv, NEW o \in Objects, GlobalAppears(o)  PROVE  Inv'
<1>. DEFINE e == Event("announce", o, watching \union {Item})
<1>1. Types /\ PlainTypes /\ OwnedTypes /\ pc = "idle"
  BY TypesOfParts DEF Inv, GlobalAppears
<1>2. QueueTyped(<<e>>) /\ \A x : Announced(<<e>>, x) = IF x = o THEN 1 ELSE 0
  BY <1>1, AnnouncementCounts DEF OwnedTypes
<1>3. /\ refcnt[o] = 0 /\ o \notin mapped /\ o \notin shown
      /\ \A i \in DOMAIN queue : ~IsAnnouncement(queue[i], o)
  BY NotLiveNotOwned DEF Inv, GlobalAppears
<1>4. e.kind = "announce" /\ e.of = o
  BY DEF Event
<1>. HIDE DEF e
<1>5. NewsFits(<<e>>) /\ Emit(<<e>>)
  BY <1>3, <1>4 DEF NewsFits, Tells, IsAnnouncement, GlobalAppears, screen, e
<1>6. /\ QueueTyped(queue)' /\ ShownOnce' /\ RemovedOnce'
      /\ \A x : Announced(queue, x)' = Announced(queue, x) + (IF x = o THEN 1 ELSE 0)
  <2>1. StillFits /\ gone \subseteq gone'
    BY <1>1, FitsUntilDelivered DEF Inv, GlobalAppears, screen
  <2>. QED  BY <1>2, <1>5, <2>1, EmitKeeps DEF Inv
<1>7. OwnedTypes'
  <2>1. IsFiniteSet(mapped')
    BY <1>1, FS_AddElement DEF OwnedTypes, GlobalAppears
  <2>. QED  BY <1>1, <2>1 DEF OwnedTypes, GlobalAppears, screen
<1>8. PlainTypes'
  BY <1>1 DEF PlainTypes, GlobalAppears, screen
<1>9. Types'
  BY <1>6, <1>7, <1>8, TypesOfPartsNext
<1>10. /\ refcnt' = [refcnt EXCEPT ![o] = 2]
       /\ state' = [state EXCEPT ![o] = "live"]
       /\ refcnt \in [Objects -> Nat]
       /\ state \in [Objects -> {"absent", "live", "destroyed"}]
  BY <1>1 DEF GlobalAppears, OwnedTypes
<1>11. RefcntsOwned'
  <2>1. \A x : /\ In(mapped, x)' = In(mapped, x) + (IF x = o THEN 1 ELSE 0)
               /\ In(shown, x)' = In(shown, x) /\ Holders(x)' = Holders(x)
    BY <1>3 DEF GlobalAppears, screen, In, Holders, HoldersOf
  <2>2. ASSUME NEW x \in Objects
        PROVE  /\ refcnt'[x] = refcnt[x] + (In(mapped, x)' - In(mapped, x))
                     + (Announced(queue, x)' - Announced(queue, x))
                     + 2 * (In(shown, x)' - In(shown, x))
                     + 2 * (Holders(x)' - Holders(x))
               /\ state'[x] = "live" <=> refcnt'[x] > 0
    BY <1>3, <1>6, <1>10, <2>1, Numbers
  <2>. QED  BY <1>9, <2>2, CountsFollowOwners DEF Inv
<1>12. HoldersLive'
  BY <1>1, <1>10 DEF Inv, HoldersLive, GlobalAppears, OwnedTypes, Objects
<1>. QED  BY <1>6, <1>9, <1>11, <1>12 DEF Inv

\* on_registry_global_remove: the map gives its reference up.
LEMMA GlobalRemovedInv ==
  ASSUME Inv, NEW o \in Objects, GlobalRemoved(o)  PROVE  Inv'
<1>1. Types /\ PlainTypes /\ OwnedTypes /\ QueueTyped(queue) /\ pc = "idle"
  BY TypesOfParts DEF Inv, GlobalRemoved
<1>2. refcnt[o] >= 1 /\ o \in mapped
  BY OwnersKeepAlive DEF Inv, GlobalRemoved
<1>3. /\ state' \in [Objects -> {"absent", "live", "destroyed"}]
      /\ refcnt' \in [Objects -> Nat]
      /\ device' \in [Nodes -> Devices \union {None}]
      /\ watching' \subseteq watching /\ IsFiniteSet(watching')
      /\ IsFiniteSet({n \in Nodes : device[n] # None}')
      /\ \A x \in Objects : Holders(x)' \in Nat
      /\ \A x \in Objects :
           refcnt'[x] = refcnt[x] - (IF x = o THEN 1 ELSE 0)
                          + 2 * (Holders(x)' - Holders(x))
      /\ \A x \in Objects : state'[x] = "live" <=> refcnt'[x] > 0
      /\ HoldersLive'
  BY <1>2, UnrefDrops DEF Inv, GlobalRemoved
<1>4. OwnedTypes'
  <2>1. IsFiniteSet(mapped')
    BY <1>1, FS_RemoveElement DEF OwnedTypes, GlobalRemoved
  <2>. QED  BY <1>1, <1>3, <2>1 DEF OwnedTypes, GlobalRemoved, screen
<1>5. PlainTypes' /\ QueueTyped(queue)'
  BY <1>1 DEF PlainTypes, GlobalRemoved, screen, QueueTyped
<1>6. Types'
  BY <1>4, <1>5, TypesOfPartsNext
<1>7. ShownOnce' /\ RemovedOnce'
  BY <1>1, QuietKeeps DEF Inv, GlobalRemoved, screen
<1>8. RefcntsOwned'
  <2>1. \A x : /\ In(mapped, x)' = In(mapped, x) - (IF x = o THEN 1 ELSE 0)
               /\ In(shown, x)' = In(shown, x)
               /\ Announced(queue, x)' = Announced(queue, x)
    BY <1>2 DEF GlobalRemoved, screen, In, Announced, Announcing
  <2>2. ASSUME NEW x \in Objects
        PROVE  refcnt'[x] = refcnt[x] + (In(mapped, x)' - In(mapped, x))
                     + (Announced(queue, x)' - Announced(queue, x))
                     + 2 * (In(shown, x)' - In(shown, x))
                     + 2 * (Holders(x)' - Holders(x))
    BY <1>3, <2>1, Numbers
  <2>. QED  BY <1>3, <1>6, <2>2, CountsFollowOwners DEF Inv
<1>. QED  BY <1>3, <1>6, <1>7, <1>8 DEF Inv

LEMMA SilentConcat ==
  ASSUME NEW r, Ordinary(r), NEW t, Silent(t)
  PROVE  /\ Ordinary(r \o t)
         /\ \A x : Announced(r \o t, x) = Announced(r, x)
<1>1. Ordinary(r \o t)
  BY OrdinaryConcat DEF Silent
<1>2. \A x : Announced(r \o t, x) = Announced(r, x) + 0 /\ Announced(r, x) \in Nat
  BY EmitAnnounces, AnnouncingFinite DEF Silent, Ordinary
<1>. QED  BY <1>1, <1>2

\* on_node_info: the node may take its device, and may start to watch the default
\* metadata, in which case everything in the registry is announced to it.
LEMMA NodeInfoInv ==
  ASSUME Inv, NEW n \in Nodes, NodeInfo(n)  PROVE  Inv' /\ Quietly
<1>1. /\ Types /\ PlainTypes /\ OwnedTypes /\ pc = "idle"
      /\ n \in Objects /\ state[n] = "live" /\ None \notin Objects
      /\ Devices \subseteq Objects /\ Item \notin Nodes
  BY TypesOfParts, LifecycleAssumption
     DEF Inv, NodeInfo, Message, Bound, Objects
<1>. DEFINE known    == IF n \in Defaultable \ watching THEN mapped ELSE {}
            defaults == IF n \in Defaultable \ watching /\ metadata
                        THEN <<Event("default", None, {n})>> ELSE <<>>
<1>2. PICK d \in IF device[n] = None THEN (mapped \intersect Devices) \union {None}
                                     ELSE {None} :
        /\ device' = IF d # None THEN [device EXCEPT ![n] = d] ELSE device
        /\ refcnt' = [o \in Objects |-> refcnt[o] + (IF o \in known THEN 1 ELSE 0)
                                                  + (IF o = d THEN 2 ELSE 0)]
        /\ \E order \in SetToSeqs(known) :
             Emit([i \in DOMAIN order |-> Event("announce", order[i], {n})]
                    \o defaults \o Replay(d, n) \o <<Update(n)>>)
  BY DEF NodeInfo
<1>3. PICK order \in SetToSeqs(known) :
             Emit([i \in DOMAIN order |-> Event("announce", order[i], {n})]
                    \o defaults \o Replay(d, n) \o <<Update(n)>>)
  BY <1>2
<1>. DEFINE news == [i \in DOMAIN order |-> Event("announce", order[i], {n})]
            r    == news \o defaults \o Replay(d, n) \o <<Update(n)>>
<1>4. known \in SUBSET Objects /\ known \subseteq mapped /\ IsFiniteSet(known)
  BY <1>1, FS_EmptySet DEF OwnedTypes
<1>5. Silent(defaults)
  BY DefaultIsSilent, SilentEmpty
<1>6. d \in Objects \union {None} /\ (d # None => d \in Devices /\ d \in mapped
                                                  /\ device[n] = None)
  BY <1>1
<1>7. Silent(Replay(d, n))
  BY <1>1, <1>6, ReplayIsSilent DEF PlainTypes
<1>8. Silent(<<Update(n)>>)
  BY <1>1, UpdateIsSilent
<1>. HIDE DEF known, defaults
<1>9. Ordinary(news) /\ \A x : Announced(news, x) = In(known, x)
  <2>1. /\ news \in Seq(Queued)
        /\ \A x : Announced(news, x) = In(known, x)
        /\ \A i \in DOMAIN news : /\ news[i].kind = "announce" /\ news[i].to = {n}
                                  /\ news[i].of \in known
    <3>1. {n} \in SUBSET (Nodes \union {Item})
      OBVIOUS
    <3>2. order \in SetToSeqs(known)
      BY <1>3
    <3>3. order \in [DOMAIN order -> known]
      BY <1>4, <3>2, OrderCoversOnce
    <3>4. /\ news \in [DOMAIN order -> Queued]
          /\ \A i \in DOMAIN order : news[i] = Event("announce", order[i], {n})
      BY <1>4, <3>3 DEF Event, Queued, Kinds
    <3>. HIDE DEF news
    <3>5. news \in Seq(Queued)
      BY <1>4, <3>1, <3>2, <3>4, OrderAnnounces
    <3>6. \A x : Announced(news, x) = In(known, x)
      BY <1>4, <3>1, <3>2, <3>4, OrderAnnounces, Zenon
    <3>7. \A i \in DOMAIN news : /\ news[i].kind = "announce" /\ news[i].to = {n}
                                  /\ news[i].of \in known
      BY <3>3, <3>4 DEF Event
    <3>. QED  BY <3>5, <3>6, <3>7
  <2>2. \A i \in DOMAIN news : news[i].of \in Objects
    BY <1>4, <2>1
  <2>3. Item \notin {n}
    BY <1>1
  <2>. HIDE DEF news
  <2>4. Ordinary(news)
    BY <2>1, <2>2, <2>3 DEF Ordinary, Tells
  <2>. QED  BY <2>1, <2>4
<1>. HIDE DEF news
<1>10. Ordinary(r) /\ \A x : Announced(r, x) = In(known, x)
  <2>1. /\ Ordinary(news \o defaults)
        /\ \A x : Announced(news \o defaults, x) = Announced(news, x)
    BY <1>5, <1>9, SilentConcat
  <2>2. /\ Ordinary(news \o defaults \o Replay(d, n))
        /\ \A x : Announced(news \o defaults \o Replay(d, n), x) = Announced(news, x)
    BY <1>7, <2>1, SilentConcat
  <2>3. Ordinary(r) /\ \A x : Announced(r, x) = Announced(news, x)
    BY <1>8, <2>2, SilentConcat
  <2>. QED  BY <1>9, <2>3
<1>11. Emit(r)
  BY <1>3 DEF news
<1>. HIDE DEF r
<1>12. /\ QueueTyped(queue)' /\ ShownOnce' /\ RemovedOnce'
       /\ \A x : Announced(queue, x)' = Announced(queue, x)
                                          + In(known, x)
  <2>1. StillFits /\ gone \subseteq gone'
    BY <1>1, FitsUntilDelivered DEF Inv, NodeInfo, screen
  <2>. QED  BY <1>10, <1>11, <2>1, OrdinaryFits, EmitKeeps DEF Inv
<1>13. device' \in [Nodes -> Devices \union {None}] /\ refcnt' \in [Objects -> Nat]
  BY <1>1, <1>2, <1>6 DEF OwnedTypes
<1>14. OwnedTypes'
  <2>1. IsFiniteSet(watching \union ({n} \intersect Defaultable))
    <3>1. {n} \intersect Defaultable \in SUBSET {n}
      OBVIOUS
    <3>. QED  BY <1>1, <3>1, FS_Singleton, FS_Subset, FS_Union DEF OwnedTypes
  <2>2. IsFiniteSet({m \in Nodes : device'[m] # None})
    <3>1. {m \in Nodes : device'[m] # None} \in
            SUBSET ({m \in Nodes : device[m] # None} \union {n})
      BY <1>1, <1>2 DEF OwnedTypes
    <3>2. IsFiniteSet({m \in Nodes : device[m] # None} \union {n})
      BY <1>1, FS_AddElement DEF OwnedTypes
    <3>. QED  BY <3>1, <3>2, FS_Subset
  <2>. QED  BY <1>1, <1>13, <2>1, <2>2 DEF OwnedTypes, NodeInfo, screen
<1>15. PlainTypes'
  BY <1>1, LifecycleAssumption DEF PlainTypes, NodeInfo, Message, screen
<1>16. Types'
  BY <1>12, <1>14, <1>15, TypesOfPartsNext
<1>17. \A x \in Objects : Holders(x)' = Holders(x) + (IF x = d THEN 1 ELSE 0)
  <2>. SUFFICES ASSUME NEW x \in Objects
                PROVE  Holders(x)' = Holders(x) + (IF x = d THEN 1 ELSE 0)
    OBVIOUS
  <2>1. IsFiniteSet(HoldersOf(x)) /\ Holders(x) \in Nat
    BY <1>1, HoldersFinite
  <2>2. CASE x = d
    <3>1. HoldersOf(x)' = HoldersOf(x) \union {n} /\ n \notin HoldersOf(x)
      BY <1>1, <1>2, <1>6, <2>2 DEF HoldersOf, OwnedTypes
    <3>2. Cardinality(HoldersOf(x)') = Cardinality(HoldersOf(x)) + 1
      BY <2>1, <3>1, FS_AddElement
    <3>. QED  BY <2>2, <3>2 DEF Holders
  <2>3. CASE x # d
    <3>1. HoldersOf(x)' = HoldersOf(x)
      BY <1>1, <1>2, <1>6, <2>3 DEF HoldersOf, OwnedTypes
    <3>. QED  BY <2>1, <2>3, <3>1 DEF Holders
  <2>. QED  BY <2>2, <2>3
<1>18. RefcntsOwned'
  <2>1. \A x : In(mapped, x)' = In(mapped, x) /\ In(shown, x)' = In(shown, x)
    BY DEF NodeInfo, screen, In
  <2>2. ASSUME NEW x \in Objects
        PROVE  /\ refcnt'[x] = refcnt[x] + In(known, x) + (IF x = d THEN 2 ELSE 0)
               /\ In(known, x) \in Nat /\ (x \in known <=> In(known, x) # 0)
    BY <1>2 DEF In
  <2>3. ASSUME NEW x \in Objects
        PROVE  refcnt'[x] = refcnt[x] + (In(mapped, x)' - In(mapped, x))
                     + (Announced(queue, x)' - Announced(queue, x))
                     + 2 * (In(shown, x)' - In(shown, x))
                     + 2 * (Holders(x)' - Holders(x))
    BY <1>12, <1>17, <2>1, <2>2, Numbers
  <2>4. ASSUME NEW x \in Objects
        PROVE  state'[x] = "live" <=> refcnt'[x] > 0
    <3>1. x \in known \/ x = d => refcnt[x] >= 1 /\ state[x] = "live"
      BY <1>1, <1>4, <1>6, OwnersKeepAlive DEF Inv
    <3>2. state'[x] = state[x]
      BY DEF NodeInfo
    <3>. QED  BY <2>2, <3>1, <3>2, Numbers
  <2>. QED  BY <1>16, <2>3, <2>4, CountsFollowOwners DEF Inv
<1>19. HoldersLive'
  BY <1>1, <1>2 DEF Inv, HoldersLive, NodeInfo, OwnedTypes
<1>20. Quietly
  BY <1>10, <1>11 DEF Quietly
<1>. QED  BY <1>12, <1>16, <1>18, <1>19, <1>20 DEF Inv

\* on_pipewire_node, on_pipewire_device: the item and its hook take a reference
\* each, while the announcement keeps the object alive.
LEMMA DeliverAnnounceInv ==
  ASSUME Inv, DeliverAnnounce  PROVE  Inv'
<1>. DEFINE o == Current.of
<1>1. /\ Types /\ PlainTypes /\ OwnedTypes /\ pc = "deliver" /\ pc' = "after"
      /\ queue # <<>> /\ 1 \in DOMAIN queue /\ Current = queue[1]
      /\ o \in Objects /\ Current.kind = "announce"
  BY TypesOfParts, HeadOfQueue DEF Inv, DeliverAnnounce
<1>2. CASE Item \in Current.to /\ o \in Tabbed
  <2>1. ShowItem(o)
    BY <1>2 DEF DeliverAnnounce
  <2>2. o \notin shown
    BY <1>1, <1>2 DEF Inv, ShownOnce, Delivered
  <2>3. state[o] = "live" /\ refcnt[o] >= 1
    BY <1>1, OwnersKeepAlive DEF Inv, IsAnnouncement
  <2>4. Silent(Replay(o, Item)) /\ Emit(Replay(o, Item))
    BY <1>1, <2>1, ReplayIsSilent, LifecycleAssumption DEF ShowItem
  <2>5. StillFits
    <3>1. ASSUME NEW i \in DOMAIN queue, i # 1
          PROVE  /\ Tells(queue[i], "announce") => queue[i].of \notin shown
                 /\ Tells(queue[i], "announce") => queue[i].of # o
                 /\ Tells(queue[i], "removed") => queue[i].of \in shown
      BY <1>1, <1>2, <3>1 DEF Inv, ShownOnce, RemovedOnce, Delivered, Tells
    <3>. QED  BY <1>1, <2>1, <3>1 DEF StillFits, ShowItem
  <2>6. QueueTyped(Replay(o, Item)) /\ NewsFits(Replay(o, Item))
    BY <2>4, OrdinaryFits DEF Silent
  <2>7. /\ QueueTyped(queue)' /\ ShownOnce' /\ RemovedOnce' /\ queue' # <<>>
        /\ \A x : Announced(queue, x)' = Announced(queue, x) + 0
    BY <1>1, <2>4, <2>5, <2>6, EmitKeeps DEF Inv, Silent, DeliverAnnounce, registry
  <2>8. OwnedTypes'
    BY <1>1, <2>1 DEF OwnedTypes, ShowItem, DeliverAnnounce, registry
  <2>9. PlainTypes'
    <3>1. created' \in [Objects -> Nat] /\ late' \subseteq Objects
      BY <1>1, <2>1 DEF PlainTypes, ShowItem
    <3>. QED  BY <1>1, <2>7, <3>1 DEF PlainTypes, DeliverAnnounce, registry
  <2>10. Types'
    BY <2>7, <2>8, <2>9, TypesOfPartsNext
  <2>11. refcnt' = [refcnt EXCEPT ![o] = @ + 2] /\ refcnt \in [Objects -> Nat]
    BY <1>1, <2>1 DEF ShowItem, OwnedTypes
  <2>12. RefcntsOwned'
    <3>1. \A x : /\ In(mapped, x)' = In(mapped, x) /\ Holders(x)' = Holders(x)
                 /\ In(shown, x)' = In(shown, x) + (IF x = o THEN 1 ELSE 0)
      BY <2>1, <2>2 DEF ShowItem, DeliverAnnounce, registry, In, Holders, HoldersOf
    <3>2. ASSUME NEW x \in Objects
          PROVE  /\ refcnt'[x] = refcnt[x] + (In(mapped, x)' - In(mapped, x))
                       + (Announced(queue, x)' - Announced(queue, x))
                       + 2 * (In(shown, x)' - In(shown, x))
                       + 2 * (Holders(x)' - Holders(x))
                 /\ state'[x] = "live" <=> refcnt'[x] > 0
      <4>1. state'[x] = state[x]
        BY DEF DeliverAnnounce
      <4>2. refcnt'[x] = refcnt[x] + (IF x = o THEN 2 ELSE 0) /\ refcnt[x] \in Nat
        BY <2>11
      <4>3. /\ Announced(queue, x)' = Announced(queue, x) + 0
            /\ In(mapped, x)' = In(mapped, x) /\ Holders(x)' = Holders(x)
            /\ In(shown, x)' = In(shown, x) + (IF x = o THEN 1 ELSE 0)
        BY <2>7, <3>1
      <4>4. /\ Announced(queue, x) \in Nat /\ Holders(x) \in Nat
            /\ In(mapped, x) \in Nat /\ In(shown, x) \in Nat
            /\ state[x] = "live" <=> refcnt[x] > 0
        BY Numbers
      <4>. HIDE DEF o
      <4>5. state'[x] = "live" <=> refcnt'[x] > 0
        BY <2>3, <4>1, <4>2, <4>4
      <4>. QED  BY <4>2, <4>3, <4>4, <4>5
    <3>. QED  BY <2>10, <3>2, CountsFollowOwners DEF Inv
  <2>13. HoldersLive'
    BY DEF Inv, HoldersLive, DeliverAnnounce
  <2>. QED  BY <2>7, <2>10, <2>12, <2>13 DEF Inv
<1>3. CASE ~(Item \in Current.to /\ o \in Tabbed)
  <2>1. UNCHANGED <<refcnt, screen, queue>>
    BY <1>3 DEF DeliverAnnounce
  <2>2. Emit(<<>>)
    BY <1>1, <2>1, EmitsNothing
  <2>3. PlainTypes'
    BY <1>1, <2>1 DEF PlainTypes, DeliverAnnounce, screen, registry
  <2>. QED
    BY <1>1, <2>1, <2>2, <2>3, SilentEmpty, SilentStep DEF DeliverAnnounce, screen, registry
<1>. QED  BY <1>2, <1>3

\* on_node_removed, on_device_removed: the item and its hook give theirs back.
LEMMA DeliverRemovedInv ==
  ASSUME Inv, DeliverRemoved  PROVE  Inv'
<1>. DEFINE o == Current.of
<1>1. /\ Types /\ PlainTypes /\ OwnedTypes /\ QueueTyped(queue)
      /\ pc = "deliver" /\ pc' = "after"
      /\ queue # <<>> /\ 1 \in DOMAIN queue /\ Current = queue[1]
      /\ o \in Objects /\ Current.kind = "removed"
  BY TypesOfParts, HeadOfQueue DEF Inv, DeliverRemoved
<1>2. CASE Item \in Current.to
  <2>1. shown' = shown \ {o} /\ Unref(o, 2)
    BY <1>2 DEF DeliverRemoved
  <2>2. o \in shown
    BY <1>1, <1>2 DEF Inv, RemovedOnce, Delivered
  <2>3. refcnt[o] >= 2
    BY <1>1, <2>2, OwnersKeepAlive DEF Inv
  <2>4. /\ state' \in [Objects -> {"absent", "live", "destroyed"}]
        /\ refcnt' \in [Objects -> Nat]
        /\ device' \in [Nodes -> Devices \union {None}]
        /\ watching' \subseteq watching /\ IsFiniteSet(watching')
        /\ IsFiniteSet({n \in Nodes : device[n] # None}')
        /\ \A x \in Objects : Holders(x)' \in Nat
        /\ \A x \in Objects :
             refcnt'[x] = refcnt[x] - (IF x = o THEN 2 ELSE 0)
                            + 2 * (Holders(x)' - Holders(x))
        /\ \A x \in Objects : state'[x] = "live" <=> refcnt'[x] > 0
        /\ HoldersLive'
    BY <1>1, <2>1, <2>3, UnrefDrops DEF Inv
  <2>5. OwnedTypes'
    BY <1>1, <2>1, <2>4 DEF OwnedTypes, DeliverRemoved, registry
  <2>6. PlainTypes' /\ QueueTyped(queue)'
    BY <1>1 DEF PlainTypes, DeliverRemoved, registry, QueueTyped
  <2>7. Types'
    BY <2>5, <2>6, TypesOfPartsNext
  <2>8. ShownOnce'
    BY <1>1, <2>1 DEF Inv, ShownOnce, Delivered, DeliverRemoved
  <2>9. RemovedOnce'
    <3>1. ASSUME NEW i \in DOMAIN queue, queue[i].kind = "removed", i # 1
          PROVE  queue[i].of # o
      BY <1>1, <3>1 DEF Inv, RemovedOnce
    <3>. QED  BY <1>1, <2>1, <3>1 DEF Inv, RemovedOnce, Delivered, DeliverRemoved, registry
  <2>10. RefcntsOwned'
    <3>1. \A x : /\ In(mapped, x)' = In(mapped, x)
                 /\ In(shown, x)' = In(shown, x) - (IF x = o THEN 1 ELSE 0)
                 /\ Announced(queue, x)' = Announced(queue, x)
      BY <2>1, <2>2 DEF DeliverRemoved, registry, In, Announced, Announcing
    <3>2. ASSUME NEW x \in Objects
          PROVE  refcnt'[x] = refcnt[x] + (In(mapped, x)' - In(mapped, x))
                       + (Announced(queue, x)' - Announced(queue, x))
                       + 2 * (In(shown, x)' - In(shown, x))
                       + 2 * (Holders(x)' - Holders(x))
      BY <2>4, <3>1, Numbers
    <3>. QED  BY <2>4, <2>7, <3>2, CountsFollowOwners DEF Inv
  <2>. QED  BY <2>4, <2>7, <2>8, <2>9, <2>10 DEF Inv
<1>3. CASE Item \notin Current.to
  <2>1. UNCHANGED <<owned, shown>>
    BY <1>3 DEF DeliverRemoved
  <2>2. Emit(<<>>)
    BY <1>1, EmitsNothing DEF DeliverRemoved
  <2>3. PlainTypes'
    BY <1>1 DEF PlainTypes, DeliverRemoved, registry
  <2>. QED
    BY <1>1, <2>1, <2>2, <2>3, SilentEmpty, SilentStep DEF DeliverRemoved, owned, registry
<1>. QED  BY <1>2, <1>3

\* after_emit_node, after_emit_device: an announcement that is over gives its
\* reference back.
LEMMA AfterInv ==
  ASSUME Inv, After  PROVE  Inv'
<1>. DEFINE o == Current.of
<1>1. /\ Types /\ PlainTypes /\ OwnedTypes /\ QueueTyped(queue) /\ pc = "after"
      /\ queue # <<>> /\ 1 \in DOMAIN queue /\ Current = queue[1] /\ queue' = Tail(queue)
      /\ Current.kind # "default" => o \in Objects
      /\ pc' \in {"idle", "deliver"} /\ UNCHANGED <<shown, gone, mapped>>
  BY TypesOfParts, HeadOfQueue DEF Inv, After, registry, screen
<1>2. /\ QueueTyped(queue)' /\ ShownOnce' /\ RemovedOnce'
      /\ \A x : Announced(queue, x)' = Announced(queue, x) -
                  (IF IsAnnouncement(Current, x) THEN 1 ELSE 0)
  BY <1>1, RetireKeeps DEF Inv
<1>3. PlainTypes'
  <2>1. pc' # "idle" => queue' # <<>>
    <3>1. Len(queue') = Len(queue) - 1
      BY <1>1, HeadTailProperties DEF QueueTyped
    <3>2. pc' # "idle" => Len(queue) # 1 /\ Len(queue) \in Nat
      BY <1>1, LenProperties DEF After, QueueTyped
    <3>. QED  BY <3>1, <3>2
  <2>. QED  BY <1>1, <2>1 DEF PlainTypes, After, registry, screen
<1>4. \A x : In(mapped, x)' = In(mapped, x) /\ In(shown, x)' = In(shown, x)
  BY <1>1 DEF In
<1>5. CASE Current.kind = "announce"
  <2>1. Unref(o, 1) /\ o \in Objects
    BY <1>1, <1>5 DEF After
  <2>2. refcnt[o] >= 1
    BY <1>1, <1>5, <2>1, OwnersKeepAlive DEF Inv, IsAnnouncement
  <2>3. /\ state' \in [Objects -> {"absent", "live", "destroyed"}]
        /\ refcnt' \in [Objects -> Nat]
        /\ device' \in [Nodes -> Devices \union {None}]
        /\ watching' \subseteq watching /\ IsFiniteSet(watching')
        /\ IsFiniteSet({n \in Nodes : device[n] # None}')
        /\ \A x \in Objects : Holders(x)' \in Nat
        /\ \A x \in Objects :
             refcnt'[x] = refcnt[x] - (IF x = o THEN 1 ELSE 0)
                            + 2 * (Holders(x)' - Holders(x))
        /\ \A x \in Objects : state'[x] = "live" <=> refcnt'[x] > 0
        /\ HoldersLive'
    BY <2>1, <2>2, UnrefDrops DEF Inv
  <2>4. OwnedTypes'
    BY <1>1, <2>3 DEF OwnedTypes
  <2>5. Types'
    BY <1>2, <1>3, <2>4, TypesOfPartsNext
  <2>6. RefcntsOwned'
    <3>1. \A x : Announced(queue, x)' = Announced(queue, x) - (IF x = o THEN 1 ELSE 0)
      BY <1>2, <1>5 DEF IsAnnouncement
    <3>2. ASSUME NEW x \in Objects
          PROVE  refcnt'[x] = refcnt[x] + (In(mapped, x)' - In(mapped, x))
                       + (Announced(queue, x)' - Announced(queue, x))
                       + 2 * (In(shown, x)' - In(shown, x))
                       + 2 * (Holders(x)' - Holders(x))
      BY <1>4, <2>3, <3>1, Numbers
    <3>. QED  BY <2>3, <2>5, <3>2, CountsFollowOwners DEF Inv
  <2>. QED  BY <1>2, <2>3, <2>5, <2>6 DEF Inv
<1>6. CASE Current.kind # "announce"
  <2>1. UNCHANGED owned
    BY <1>6 DEF After
  <2>2. OwnedTypes'
    BY <1>1, <2>1 DEF OwnedTypes, owned
  <2>3. Types'
    BY <1>2, <1>3, <2>2, TypesOfPartsNext
  <2>4. HoldersLive'
    BY <2>1 DEF Inv, HoldersLive, owned
  <2>5. RefcntsOwned'
    <3>1. \A x : /\ Announced(queue, x)' = Announced(queue, x) - 0
                 /\ Holders(x)' = Holders(x)
      BY <1>2, <1>6, <2>1 DEF IsAnnouncement, owned, Holders, HoldersOf
    <3>2. ASSUME NEW x \in Objects
          PROVE  /\ refcnt'[x] = refcnt[x] + (In(mapped, x)' - In(mapped, x))
                       + (Announced(queue, x)' - Announced(queue, x))
                       + 2 * (In(shown, x)' - In(shown, x))
                       + 2 * (Holders(x)' - Holders(x))
                 /\ state'[x] = "live" <=> refcnt'[x] > 0
      BY <1>4, <2>1, <3>1, Numbers DEF owned
    <3>. QED  BY <2>3, <3>2, CountsFollowOwners DEF Inv
  <2>. QED  BY <1>2, <2>3, <2>4, <2>5 DEF Inv
<1>. QED  BY <1>5, <1>6

-----------------------------------------------------------------------------
(* The invariant holds, and what follows from it.                          *)

LEMMA StutterInv ==
  ASSUME Inv, UNCHANGED vars  PROVE  Inv'
<1>. SUFFICES Types' /\ RefcntsOwned' /\ HoldersLive' /\ ShownOnce' /\ RemovedOnce'
  BY DEF Inv
<1>1. Types'
  BY DEF Inv, vars, Types, TypeOK
<1>2. RefcntsOwned'
  BY DEF Inv, vars, RefcntsOwned, Owners, Announcements
<1>3. HoldersLive'
  BY DEF Inv, vars, HoldersLive
<1>4. ShownOnce' /\ RemovedOnce'
  BY DEF Inv, vars, ShownOnce, RemovedOnce, Delivered
<1>. QED  BY <1>1, <1>2, <1>3, <1>4

LEMMA NextInv == Inv /\ [Next]_vars => Inv'
<1>. SUFFICES ASSUME Inv, [Next]_vars  PROVE  Inv'
  OBVIOUS
<1>1. CASE Dispatch
  <2>1. CASE DispatchBegin
    BY <2>1, DispatchBeginInv
  <2>2. CASE DeliverAnnounce
    BY <2>2, DeliverAnnounceInv
  <2>3. CASE DeliverDefault
    BY <2>3, DeliverDefaultInv
  <2>4. CASE DeliverUpdate
    BY <2>4, DeliverUpdateInv
  <2>5. CASE DeliverRemoved
    BY <2>5, DeliverRemovedInv
  <2>6. CASE After
    BY <2>6, AfterInv
  <2>. QED  BY <1>1, <2>1, <2>2, <2>3, <2>4, <2>5, <2>6 DEF Dispatch
<1>2. CASE Server
  <2>1. CASE MetadataAppears
    BY <2>1, MetadataAppearsInv
  <2>2. CASE DefaultChanges
    BY <2>2, DefaultChangesInv
  <2>3. ASSUME NEW o \in Objects, GlobalAppears(o)  PROVE  Inv'
    BY <2>3, GlobalAppearsInv
  <2>4. ASSUME NEW o \in Objects, GlobalRemoved(o)  PROVE  Inv'
    BY <2>4, GlobalRemovedInv
  <2>5. ASSUME NEW o \in Objects, ProxyRemoved(o)  PROVE  Inv'
    BY <2>5, ProxyRemovedInv
  <2>6. ASSUME NEW d \in Devices, DeviceInfo(d)  PROVE  Inv'
    BY <2>6, DeviceInfoInv
  <2>7. ASSUME NEW n \in Nodes, NodeInfo(n)  PROVE  Inv'
    BY <2>7, NodeInfoInv
  <2>8. ASSUME NEW n \in Nodes, NodeParam(n)  PROVE  Inv'
    BY <2>8, NodeParamInv
  <2>. QED  BY <1>2, <2>1, <2>2, <2>3, <2>4, <2>5, <2>6, <2>7, <2>8 DEF Server
<1>3. CASE UNCHANGED vars
  BY <1>3, StutterInv
<1>. QED  BY <1>1, <1>2, <1>3 DEF Next

\* Every reachable state of the registry satisfies the invariant.
THEOREM InvHolds == Spec => []Inv
<1>1. Init => Inv
  BY InitInv
<1>2. Inv /\ [Next]_vars => Inv'
  BY NextInv
<1>. QED  BY <1>1, <1>2, PTL DEF Spec

\* The registry's state is well typed: of every number of nodes and devices, and
\* however many messages arrive.
THEOREM TypesCorrect == Spec => []TypeOK
<1>1. Inv => TypeOK
  BY DEF Inv, Types
<1>. QED  BY <1>1, InvHolds, PTL

\* Every reference to a node or a device has an owner and the other way round, so
\* that it is destroyed with the last of them and not before: node_ref, node_unref,
\* device_ref and device_unref balance (node.c:572-610, device.c:470-496).
THEOREM RefcntsAreOwned == Spec => []RefcntsOwned
<1>1. Inv => RefcntsOwned
  BY DEF Inv
<1>. QED  BY <1>1, InvHolds, PTL

\* No callback is given an object that was freed: those of announcements, items and
\* hooks are live (private_data and callbacks_data are plain pointers).
THEOREM NothingIsUsedAfterFree == Spec => []NothingUsedAfterFree
<1>1. Inv => NothingUsedAfterFree
  <2>. SUFFICES ASSUME Inv, NEW o \in Objects,
                       \/ Announcements(o) # {} \/ o \in shown \/ o \in watching
                       \/ \E n \in Nodes : o \in {n, device[n]} /\ device[n] # None
                PROVE  state[o] = "live"
    BY DEF NothingUsedAfterFree
  <2>1. CASE Announcements(o) # {}
    <3>1. PICK i \in DOMAIN queue : IsAnnouncement(queue[i], o)
      BY <2>1 DEF Announcements, IsAnnouncement
    <3>. QED  BY <3>1, OwnersKeepAlive DEF Inv
  <2>2. CASE o \in shown
    BY <2>2, OwnersKeepAlive DEF Inv
  <2>3. CASE o \in watching
    BY <2>3 DEF Inv, HoldersLive
  <2>4. CASE \E n \in Nodes : o \in {n, device[n]} /\ device[n] # None
    <3>1. PICK n \in Nodes : o \in {n, device[n]} /\ device[n] # None
      BY <2>4
    <3>2. CASE o = n
      BY <3>1, <3>2 DEF Inv, HoldersLive
    <3>3. CASE o = device[n]
      BY <3>3, OwnersKeepAlive DEF Inv
    <3>. QED  BY <3>1, <3>2, <3>3
  <2>. QED  BY <2>1, <2>2, <2>3, <2>4
<1>. QED  BY <1>1, InvHolds, PTL

-----------------------------------------------------------------------------
(***************************************************************************)
(* The screen matches the registry, on top of what is shown above of       *)
(* references and of events in the queue.                                  *)
(***************************************************************************)

\* The TUI has yet to be told of o.
Awaits(kind, o) ==
  \E i \in DOMAIN queue : Tells(queue[i], kind) /\ queue[i].of = o /\ ~Delivered(i)

\* An item is created once; it is shown, or its announcement is on the way, for as
\* long as the proxy is there; and an item that came in time hears of the removal.
ScreenInv ==
  \A o \in Objects :
    /\ created[o] <= 1
    /\ created[o] = 1 => state[o] # "absent" /\ ~Awaits("announce", o)
    /\ o \in Tabbed /\ state[o] = "live" /\ o \notin gone =>
         o \in shown \/ Awaits("announce", o)
    /\ o \in late => o \in shown /\ o \in gone /\ ~Awaits("removed", o)
    /\ o \in shown /\ o \in gone /\ o \notin late => Awaits("removed", o)

-----------------------------------------------------------------------------
(* The events that the TUI waits for.                                      *)

LEMMA EmitAwaits ==
  ASSUME Types, NEW r \in Seq(Queued), Emit(r), queue # <<>> \/ pc' # "after",
         NEW kind, NEW o
  PROVE  Awaits(kind, o)' <=>
           \/ \E i \in DOMAIN queue : /\ Tells(queue[i], kind) /\ queue[i].of = o
                                      /\ ~(i = 1 /\ pc' = "after")
           \/ \E j \in DOMAIN r : Tells(r[j], kind) /\ r[j].of = o
<1>1. /\ queue' = queue \o r
      /\ DOMAIN queue' = 1..Len(queue) + Len(r)
      /\ \A i \in 1..Len(queue) + Len(r) :
           queue'[i] = IF i <= Len(queue) THEN queue[i] ELSE r[i - Len(queue)]
      /\ DOMAIN queue = 1..Len(queue) /\ DOMAIN r = 1..Len(r)
      /\ Len(queue) \in Nat /\ Len(r) \in Nat
      /\ queue # <<>> => Len(queue) # 0
  BY ConcatProperties, LenProperties, EmptySeq DEF Types, Emit
<1>2. ASSUME NEW i \in DOMAIN queue'
      PROVE  \/ i \in DOMAIN queue /\ queue'[i] = queue[i]
             \/ i - Len(queue) \in DOMAIN r /\ queue'[i] = r[i - Len(queue)]
  BY <1>1
<1>3. ASSUME NEW i \in DOMAIN queue
      PROVE  i \in DOMAIN queue' /\ queue'[i] = queue[i]
  BY <1>1
<1>4. ASSUME NEW j \in DOMAIN r
      PROVE  /\ j + Len(queue) \in DOMAIN queue' /\ queue'[j + Len(queue)] = r[j]
             /\ ~(j + Len(queue) = 1 /\ pc' = "after")
  BY <1>1
<1>5. Awaits(kind, o)' <=>
        \E i \in DOMAIN queue' : /\ Tells(queue'[i], kind) /\ queue'[i].of = o
                                 /\ ~(i = 1 /\ pc' = "after")
  BY DEF Awaits, Delivered, Tells
<1>. QED  BY <1>2, <1>3, <1>4, <1>5

\* Nothing is delivered and nothing is emitted that the TUI waits for.
LEMMA QuietAwaits ==
  ASSUME Types, Quietly, pc # "after", pc' # "after"
  PROVE  \A kind \in {"announce", "removed"} : \A o : Awaits(kind, o)' <=> Awaits(kind, o)
<1>1. PICK r : Ordinary(r) /\ Emit(r)
  BY DEF Quietly
<1>2. r \in Seq(Queued) /\ \A kind \in {"announce", "removed"} :
        \A j \in DOMAIN r : ~Tells(r[j], kind)
  BY <1>1 DEF Ordinary, Tells
<1>3. ASSUME NEW kind \in {"announce", "removed"}, NEW o
      PROVE  Awaits(kind, o)' <=> Awaits(kind, o)
  <2>1. Awaits(kind, o)' <=>
          \E i \in DOMAIN queue : Tells(queue[i], kind) /\ queue[i].of = o
    BY <1>1, <1>2, EmitAwaits
  <2>2. Awaits(kind, o) <=>
          \E i \in DOMAIN queue : Tells(queue[i], kind) /\ queue[i].of = o
    BY DEF Awaits, Delivered
  <2>. QED  BY <2>1, <2>2
<1>. QED  BY <1>3

\* The head of the queue is delivered.
LEMMA DeliveryAwaits ==
  ASSUME Types, Quietly, queue # <<>>, pc = "deliver", pc' = "after"
  PROVE  \A kind \in {"announce", "removed"} : \A o :
           Awaits(kind, o)' <=>
             \E i \in DOMAIN queue : Tells(queue[i], kind) /\ queue[i].of = o /\ i # 1
<1>1. PICK r : Ordinary(r) /\ Emit(r)
  BY DEF Quietly
<1>2. r \in Seq(Queued) /\ \A kind \in {"announce", "removed"} :
        \A j \in DOMAIN r : ~Tells(r[j], kind)
  BY <1>1 DEF Ordinary, Tells
<1>. QED  BY <1>1, <1>2, EmitAwaits

\* What was delivered leaves the queue.
LEMMA RetireAwaits ==
  ASSUME Types, queue # <<>>, pc = "after", pc' # "after", queue' = Tail(queue)
  PROVE  \A kind : \A o : Awaits(kind, o)' <=> Awaits(kind, o)
<1>1. /\ Len(queue') = Len(queue) - 1
      /\ \A i \in 1..Len(queue') : queue'[i] = queue[i + 1]
      /\ DOMAIN queue = 1..Len(queue) /\ DOMAIN queue' = 1..Len(queue')
      /\ Len(queue) \in Nat \ {0}
  BY HeadTailProperties, LenProperties, EmptySeq DEF Types
<1>2. ASSUME NEW i \in DOMAIN queue'
      PROVE  i + 1 \in DOMAIN queue /\ queue'[i] = queue[i + 1] /\ i + 1 # 1
  BY <1>1
<1>3. ASSUME NEW i \in DOMAIN queue, i # 1
      PROVE  i - 1 \in DOMAIN queue' /\ queue'[i - 1] = queue[i]
  <2>1. i - 1 \in 1..Len(queue')
    BY <1>1, <1>3
  <2>2. queue'[i - 1] = queue[(i - 1) + 1] /\ (i - 1) + 1 = i
    BY <1>1, <2>1
  <2>. QED  BY <1>1, <2>1, <2>2
<1>. QED  BY <1>2, <1>3 DEF Awaits, Delivered, Tells

-----------------------------------------------------------------------------
(* The steps.                                                              *)

\* No object appears, and none that was there is as if it had never been.
StatesMoveOn ==
  \A o \in Objects : /\ state'[o] = "live" => state[o] = "live"
                     /\ state[o] # "absent" => state'[o] # "absent"

LEMMA UnrefMovesOn ==
  ASSUME NEW o, NEW count, Unref(o, count)  PROVE  StatesMoveOn
BY DEF Unref, StatesMoveOn

\* A step that leaves the screen alone, and the news that it waits for but for
\* objects that are not to be shown.
LEMMA ScreenKept ==
  ASSUME ScreenInv, StatesMoveOn, UNCHANGED <<created, shown, late, gone>>,
         \A o \in Objects :
           /\ Awaits("announce", o)' => Awaits("announce", o)
           /\ o \in Tabbed /\ Awaits("announce", o) => Awaits("announce", o)'
           /\ Awaits("removed", o)' <=> Awaits("removed", o)
  PROVE  ScreenInv'
<1>. SUFFICES ASSUME NEW o \in Objects
              PROVE  /\ created'[o] <= 1
                     /\ created'[o] = 1 => state'[o] # "absent" /\ ~Awaits("announce", o)'
                     /\ o \in Tabbed /\ state'[o] = "live" /\ o \notin gone' =>
                          o \in shown' \/ Awaits("announce", o)'
                     /\ o \in late' =>
                          o \in shown' /\ o \in gone' /\ ~Awaits("removed", o)'
                     /\ o \in shown' /\ o \in gone' /\ o \notin late' =>
                          Awaits("removed", o)'
  BY DEF ScreenInv
<1>. QED  BY DEF ScreenInv, StatesMoveOn

\* Messages that tell the TUI nothing it waits for.
LEMMA QuietStep ==
  ASSUME Inv, ScreenInv, Quietly, pc # "after", pc' # "after", StatesMoveOn,
         UNCHANGED <<created, shown, late, gone>>
  PROVE  ScreenInv'
BY QuietAwaits, ScreenKept DEF Inv

\* Events that the TUI has no callback for, or ignores.
LEMMA QuietDelivery ==
  ASSUME Inv, ScreenInv, Quietly, pc = "deliver", pc' = "after", StatesMoveOn,
         UNCHANGED <<created, shown, late, gone>>,
         ~Tells(Current, "removed"),
         Tells(Current, "announce") => Current.of \notin Tabbed
  PROVE  ScreenInv'
<1>1. Types /\ queue # <<>> /\ 1 \in DOMAIN queue /\ Current = queue[1]
  BY HeadOfQueue DEF Inv
<1>2. ASSUME NEW o \in Objects
      PROVE  /\ Awaits("announce", o)' => Awaits("announce", o)
             /\ o \in Tabbed /\ Awaits("announce", o) => Awaits("announce", o)'
             /\ Awaits("removed", o)' <=> Awaits("removed", o)
  <2>1. \A kind \in {"announce", "removed"} :
          /\ Awaits(kind, o)' <=>
               \E i \in DOMAIN queue : Tells(queue[i], kind) /\ queue[i].of = o /\ i # 1
          /\ Awaits(kind, o) <=>
               \E i \in DOMAIN queue : Tells(queue[i], kind) /\ queue[i].of = o
    <3>1. \A kind \in {"announce", "removed"} :
            Awaits(kind, o)' <=>
              \E i \in DOMAIN queue : Tells(queue[i], kind) /\ queue[i].of = o /\ i # 1
      BY <1>1, DeliveryAwaits
    <3>2. \A kind \in {"announce", "removed"} :
            Awaits(kind, o) <=>
              \E i \in DOMAIN queue : Tells(queue[i], kind) /\ queue[i].of = o
      BY DEF Awaits, Delivered
    <3>. QED  BY <3>1, <3>2
  <2>. QED  BY <1>1, <2>1
<1>. QED  BY <1>2, ScreenKept

\* on_registry_global: a new object is announced.
LEMMA GlobalAppearsScreen ==
  ASSUME Inv, ScreenInv, NEW x \in Objects, GlobalAppears(x)  PROVE  ScreenInv'
<1>. DEFINE e == Event("announce", x, watching \union {Item})
<1>1. Types /\ OwnedTypes /\ pc = "idle" /\ pc' = "idle" /\ created \in [Objects -> Nat]
  BY TypesOfParts DEF Inv, GlobalAppears, PlainTypes
<1>2. <<e>> \in Seq(Queued) /\ Emit(<<e>>)
  BY <1>1, AnnouncementCounts DEF GlobalAppears, QueueTyped, OwnedTypes
<1>3. e.kind = "announce" /\ e.of = x /\ Item \in e.to
  BY DEF Event
<1>. DEFINE r == <<e>>
<1>. HIDE DEF e
<1>4. ASSUME NEW kind \in {"announce", "removed"}, NEW o
      PROVE  Awaits(kind, o)' <=> Awaits(kind, o) \/ (kind = "announce" /\ o = x)
  <2>1. Awaits(kind, o)' <=>
          \/ \E i \in DOMAIN queue : Tells(queue[i], kind) /\ queue[i].of = o
          \/ \E j \in DOMAIN r : Tells(r[j], kind) /\ r[j].of = o
    <3>. HIDE DEF r
    <3>1. r \in Seq(Queued) /\ Emit(r)
      BY <1>2 DEF r
    <3>. QED  BY <1>1, <3>1, EmitAwaits
  <2>2. Awaits(kind, o) <=>
          \E i \in DOMAIN queue : Tells(queue[i], kind) /\ queue[i].of = o
    BY <1>1 DEF Awaits, Delivered
  <2>3. (\E j \in DOMAIN r : Tells(r[j], kind) /\ r[j].of = o) <=>
          kind = "announce" /\ o = x
    BY <1>3 DEF Tells
  <2>. QED  BY <2>1, <2>2, <2>3
<1>5. /\ x \notin shown /\ state[x] = "absent"
      /\ state' = [state EXCEPT ![x] = "live"]
      /\ UNCHANGED <<created, shown, late, gone>>
  BY NotLiveNotOwned DEF Inv, GlobalAppears, screen
<1>6. ASSUME NEW o \in Objects, o # x
      PROVE  /\ created'[o] = created[o] /\ state'[o] = state[o]
             /\ Awaits("announce", o)' <=> Awaits("announce", o)
             /\ Awaits("removed", o)' <=> Awaits("removed", o)
  BY <1>1, <1>4, <1>5, <1>6 DEF OwnedTypes
<1>7. /\ created'[x] # 1 /\ created'[x] <= 1 /\ Awaits("announce", x)'
      /\ x \notin late'
  BY <1>1, <1>4, <1>5 DEF ScreenInv
<1>. QED  BY <1>5, <1>6, <1>7 DEF ScreenInv

\* on_proxy_removed: the item is told, if there is one.
LEMMA ProxyRemovedScreen ==
  ASSUME Inv, ScreenInv, NEW x \in Objects, ProxyRemoved(x)  PROVE  ScreenInv'
<1>. DEFINE e == Event("removed", x, Listeners(x))
<1>1. Types /\ pc = "idle" /\ pc' = "idle"
  BY DEF Inv, ProxyRemoved
<1>2. <<e>> \in Seq(Queued) /\ Emit(<<e>>)
  BY DEF ProxyRemoved, Event, Queued, Kinds, Listeners
<1>3. e.kind = "removed" /\ e.of = x /\ (Item \in e.to <=> x \in shown)
  BY LifecycleAssumption DEF Event, Listeners, Objects
<1>. DEFINE r == <<e>>
<1>. HIDE DEF e
<1>4. ASSUME NEW kind \in {"announce", "removed"}, NEW o
      PROVE  Awaits(kind, o)' <=>
               Awaits(kind, o) \/ (kind = "removed" /\ o = x /\ x \in shown)
  <2>1. Awaits(kind, o)' <=>
          \/ \E i \in DOMAIN queue : Tells(queue[i], kind) /\ queue[i].of = o
          \/ \E j \in DOMAIN r : Tells(r[j], kind) /\ r[j].of = o
    <3>. HIDE DEF r
    <3>1. r \in Seq(Queued) /\ Emit(r)
      BY <1>2 DEF r
    <3>. QED  BY <1>1, <3>1, EmitAwaits
  <2>2. Awaits(kind, o) <=>
          \E i \in DOMAIN queue : Tells(queue[i], kind) /\ queue[i].of = o
    BY <1>1 DEF Awaits, Delivered
  <2>3. (\E j \in DOMAIN r : Tells(r[j], kind) /\ r[j].of = o) <=>
          kind = "removed" /\ o = x /\ x \in shown
    BY <1>3 DEF Tells
  <2>. QED  BY <2>1, <2>2, <2>3
<1>5. /\ gone' = gone \union {x} /\ x \notin gone
      /\ UNCHANGED <<created, shown, late, state>>
  BY DEF ProxyRemoved, Bound, screen, owned
<1>6. ASSUME NEW o \in Objects
      PROVE  /\ Awaits("announce", o)' <=> Awaits("announce", o)
             /\ o # x => (Awaits("removed", o)' <=> Awaits("removed", o))
             /\ o = x /\ o \in shown => Awaits("removed", o)'
  BY <1>4
<1>. QED  BY <1>5, <1>6 DEF ScreenInv

\* on_pipewire_node, on_pipewire_device: the item of an object that has none.
LEMMA DeliverAnnounceScreen ==
  ASSUME Inv, ScreenInv, DeliverAnnounce  PROVE  ScreenInv'
<1>0. PICK x \in Objects : x = Current.of
  BY HeadOfQueue DEF Inv, DeliverAnnounce
<1>1. /\ Types /\ pc = "deliver" /\ pc' = "after" /\ queue # <<>> /\ 1 \in DOMAIN queue
      /\ Current = queue[1] /\ Current.of = x /\ Current.kind = "announce"
      /\ created \in [Objects -> Nat] /\ gone' = gone
      /\ \A o \in Objects : state'[o] = state[o]
  BY <1>0, HeadOfQueue DEF Inv, DeliverAnnounce, registry, Types, TypeOK
<1>2. CASE Item \in Current.to /\ x \in Tabbed
  <2>1. ShowItem(x)
    BY <1>1, <1>2 DEF DeliverAnnounce
  <2>2. Quietly
    BY <1>1, <2>1, ReplayIsSilent, LifecycleAssumption DEF ShowItem, Silent, Quietly
  <2>3. x \notin shown /\ state[x] = "live" /\ Awaits("announce", x)
    <3>1. x \notin shown /\ Awaits("announce", x)
      BY <1>1, <1>2 DEF Inv, ShownOnce, Delivered, Awaits, Tells
    <3>2. state[x] = "live"
      BY <1>1, OwnersKeepAlive DEF Inv, IsAnnouncement
    <3>. QED  BY <3>1, <3>2
  <2>4. /\ created' = [created EXCEPT ![x] = @ + 1] /\ shown' = shown \union {x}
        /\ late' = IF x \in gone THEN late \union {x} ELSE late
    BY <2>1 DEF ShowItem
  <2>5. created[x] # 1 /\ created[x] <= 1 /\ created[x] \in Nat
    BY <1>1, <2>3 DEF ScreenInv
  <2>6. ASSUME NEW i \in DOMAIN queue, i # 1
        PROVE  /\ Tells(queue[i], "announce") => queue[i].of # x
               /\ Tells(queue[i], "removed") => queue[i].of # x
    BY <1>1, <1>2, <2>3, <2>6 DEF Inv, ShownOnce, RemovedOnce, Delivered, Tells
  <2>7. ASSUME NEW o \in Objects, NEW kind \in {"announce", "removed"}
        PROVE  /\ o # x => (Awaits(kind, o)' <=> Awaits(kind, o))
               /\ ~Awaits(kind, x)'
    <3>1. \A y : Awaits(kind, y)' <=>
            \E i \in DOMAIN queue : Tells(queue[i], kind) /\ queue[i].of = y /\ i # 1
      BY <1>1, <2>2, DeliveryAwaits
    <3>2. Awaits(kind, o) <=>
            \E i \in DOMAIN queue : Tells(queue[i], kind) /\ queue[i].of = o
      BY <1>1 DEF Awaits, Delivered
    <3>3. o # x => (Awaits(kind, o)' <=> Awaits(kind, o))
      BY <1>1, <3>1, <3>2
    <3>4. ~Awaits(kind, x)'
      <4>1. CASE kind = "announce"
        BY <2>6, <3>1, <4>1
      <4>2. CASE kind = "removed"
        BY <2>6, <3>1, <4>2
      <4>. QED  BY <4>1, <4>2
    <3>. QED  BY <3>3, <3>4
  <2>8. ASSUME NEW o \in Objects, o # x
        PROVE  /\ created'[o] = created[o] /\ state'[o] = state[o]
               /\ (o \in shown' <=> o \in shown) /\ (o \in late' <=> o \in late)
               /\ Awaits("announce", o)' <=> Awaits("announce", o)
               /\ Awaits("removed", o)' <=> Awaits("removed", o)
    BY <1>1, <2>4, <2>7, <2>8
  <2>9. /\ created'[x] = 1 /\ state'[x] # "absent" /\ x \in shown'
        /\ (x \in gone => x \in late') /\ (x \in late' => x \in gone)
        /\ ~Awaits("announce", x)' /\ ~Awaits("removed", x)'
    <3>1. created'[x] = 1
      BY <1>1, <2>4, <2>5
    <3>2. ~Awaits("announce", x)' /\ ~Awaits("removed", x)'
      BY <1>1, <2>7
    <3>. QED  BY <1>1, <2>3, <2>4, <3>1, <3>2 DEF ScreenInv
  <2>10. x \in shown' /\ gone' = gone
    BY <1>1, <2>9
  <2>11. ASSUME NEW o \in Objects
         PROVE  /\ created'[o] <= 1
                /\ created'[o] = 1 => state'[o] # "absent" /\ ~Awaits("announce", o)'
                /\ o \in Tabbed /\ state'[o] = "live" /\ o \notin gone' =>
                     o \in shown' \/ Awaits("announce", o)'
                /\ o \in late' => o \in shown' /\ o \in gone' /\ ~Awaits("removed", o)'
                /\ o \in shown' /\ o \in gone' /\ o \notin late' => Awaits("removed", o)'
    <3>1. CASE o = x
      BY <2>9, <2>10, <3>1
    <3>2. CASE o # x
      BY <2>8, <2>10, <3>2 DEF ScreenInv
    <3>. QED  BY <3>1, <3>2
  <2>. QED  BY <2>11 DEF ScreenInv
<1>3. CASE ~(Item \in Current.to /\ x \in Tabbed)
  <2>1. UNCHANGED <<screen, queue>>
    BY <1>1, <1>3 DEF DeliverAnnounce
  <2>2. Quietly
    BY <1>1, <2>1, EmitsNothing, OrdinaryEmpty DEF Quietly
  <2>3. StatesMoveOn
    BY <1>1 DEF StatesMoveOn
  <2>. QED  BY <1>1, <1>3, <2>1, <2>2, <2>3, QuietDelivery DEF Tells, screen
<1>. QED  BY <1>2, <1>3

\* on_node_removed, on_device_removed: the item goes, and with it what it waited for.
LEMMA DeliverRemovedScreen ==
  ASSUME Inv, ScreenInv, DeliverRemoved  PROVE  ScreenInv'
<1>. DEFINE x == Current.of
<1>1. /\ Types /\ pc = "deliver" /\ pc' = "after" /\ queue # <<>> /\ 1 \in DOMAIN queue
      /\ Current = queue[1] /\ x \in Objects /\ Current.kind = "removed"
      /\ UNCHANGED <<gone, created, late, queue>>
  BY HeadOfQueue DEF Inv, DeliverRemoved, registry
<1>2. Quietly
  BY <1>1, EmitsNothing, OrdinaryEmpty DEF Quietly
<1>3. CASE Item \in Current.to
  <2>1. shown' = shown \ {x} /\ StatesMoveOn
    BY <1>3, UnrefMovesOn DEF DeliverRemoved
  <2>2. x \in gone /\ Awaits("removed", x)
    BY <1>1, <1>3 DEF Inv, RemovedOnce, Delivered, Awaits, Tells
  <2>3. x \notin late'
    BY <1>1, <2>2 DEF ScreenInv
  <2>4. ASSUME NEW o \in Objects, NEW kind \in {"announce", "removed"}
        PROVE  /\ Awaits(kind, o)' => Awaits(kind, o)
               /\ o # x => (Awaits(kind, o)' <=> Awaits(kind, o))
    <3>1. Awaits(kind, o)' <=>
            \E i \in DOMAIN queue : Tells(queue[i], kind) /\ queue[i].of = o /\ i # 1
      BY <1>1, <1>2, DeliveryAwaits
    <3>2. Awaits(kind, o) <=>
            \E i \in DOMAIN queue : Tells(queue[i], kind) /\ queue[i].of = o
      BY <1>1 DEF Awaits, Delivered
    <3>. QED  BY <1>1, <3>1, <3>2
  <2>. HIDE DEF x
  <2>5. ASSUME NEW o \in Objects
        PROVE  /\ Awaits("announce", o)' => Awaits("announce", o)
               /\ o # x => /\ Awaits("announce", o)' <=> Awaits("announce", o)
                           /\ Awaits("removed", o)' <=> Awaits("removed", o)
    BY <2>4
  <2>. QED  BY <1>1, <2>1, <2>2, <2>3, <2>5 DEF ScreenInv, StatesMoveOn
<1>4. CASE Item \notin Current.to
  <2>1. UNCHANGED <<owned, shown>>
    BY <1>4 DEF DeliverRemoved
  <2>2. StatesMoveOn
    BY <2>1 DEF StatesMoveOn, owned
  <2>. QED  BY <1>1, <1>2, <1>4, <2>1, <2>2, QuietDelivery DEF Tells
<1>. QED  BY <1>3, <1>4

\* after_emit_node, after_emit_device: what was delivered is no longer awaited.
LEMMA AfterScreen ==
  ASSUME Inv, ScreenInv, After  PROVE  ScreenInv'
<1>1. /\ Types /\ queue # <<>> /\ pc = "after" /\ pc' # "after" /\ queue' = Tail(queue)
      /\ UNCHANGED <<created, shown, late, gone>>
  BY HeadOfQueue DEF Inv, After, screen, registry
<1>2. StatesMoveOn
  <2>1. CASE UNCHANGED owned
    BY <2>1 DEF StatesMoveOn, owned
  <2>. QED  BY <2>1, UnrefMovesOn DEF After
<1>. QED  BY <1>1, <1>2, RetireAwaits, ScreenKept

\* The other events have no part in it.
LEMMA DeliverOtherScreen ==
  ASSUME Inv, ScreenInv, DeliverDefault \/ DeliverUpdate  PROVE  ScreenInv'
<1>1. Quietly
  BY DeliverDefaultInv, DeliverUpdateInv
<1>. QED
  BY <1>1, QuietDelivery
     DEF DeliverDefault, DeliverUpdate, StatesMoveOn, Tells, owned, screen, registry

\* Nor do most messages.
LEMMA MessageScreen ==
  ASSUME Inv, ScreenInv,
         \/ MetadataAppears \/ DefaultChanges \/ DispatchBegin
         \/ \E o \in Objects : GlobalRemoved(o)
         \/ \E d \in Devices : DeviceInfo(d)
         \/ \E n \in Nodes : NodeInfo(n) \/ NodeParam(n)
  PROVE  ScreenInv'
<1>1. CASE MetadataAppears \/ DispatchBegin
  <2>1. Quietly
    BY <1>1, EmitsNothing, OrdinaryEmpty DEF Quietly, Inv, MetadataAppears, DispatchBegin
  <2>. QED
    BY <1>1, <2>1, QuietStep
       DEF MetadataAppears, DispatchBegin, StatesMoveOn, owned, screen, registry
<1>2. CASE DefaultChanges
  <2>1. Quietly
    BY <1>2, DefaultIsSilent DEF DefaultChanges, Quietly, Silent, Inv, Types, TypeOK
  <2>. QED
    BY <1>2, <2>1, QuietStep
       DEF DefaultChanges, Message, StatesMoveOn, owned, screen, registry
<1>3. ASSUME NEW o \in Objects, GlobalRemoved(o)  PROVE  ScreenInv'
  <2>1. Quietly
    BY <1>3, EmitsNothing, OrdinaryEmpty DEF Quietly, Inv, GlobalRemoved
  <2>2. StatesMoveOn
    BY <1>3, UnrefMovesOn DEF GlobalRemoved
  <2>. QED  BY <1>3, <2>1, <2>2, QuietStep DEF GlobalRemoved, screen
<1>4. ASSUME NEW d \in Devices, DeviceInfo(d)  PROVE  ScreenInv'
  <2>1. Quietly
    BY <1>4, UpdateIsSilent DEF DeviceInfo, Quietly, Silent, Objects
  <2>. QED
    BY <1>4, <2>1, QuietStep DEF DeviceInfo, Message, StatesMoveOn, owned, screen
<1>5. ASSUME NEW n \in Nodes, NodeParam(n)  PROVE  ScreenInv'
  <2>1. Quietly
    BY <1>5, UpdateIsSilent DEF NodeParam, Quietly, Silent, Objects
  <2>. QED
    BY <1>5, <2>1, QuietStep DEF NodeParam, Message, StatesMoveOn, owned, screen, registry
<1>6. ASSUME NEW n \in Nodes, NodeInfo(n)  PROVE  ScreenInv'
  <2>1. Quietly
    BY <1>6, NodeInfoInv
  <2>. QED
    BY <1>6, <2>1, QuietStep DEF NodeInfo, Message, StatesMoveOn, screen
<1>. QED  BY <1>1, <1>2, <1>3, <1>4, <1>5, <1>6

LEMMA ScreenStutter ==
  ASSUME ScreenInv, UNCHANGED vars  PROVE  ScreenInv'
BY DEF ScreenInv, vars, Awaits, Delivered, Tells

LEMMA ScreenNext == Inv /\ ScreenInv /\ [Next]_vars => ScreenInv'
<1>. SUFFICES ASSUME Inv, ScreenInv, [Next]_vars  PROVE  ScreenInv'
  OBVIOUS
<1>1. CASE Dispatch
  BY <1>1, MessageScreen, DeliverAnnounceScreen, DeliverOtherScreen,
     DeliverRemovedScreen, AfterScreen DEF Dispatch
<1>2. CASE Server
  <2>1. ASSUME NEW o \in Objects, GlobalAppears(o)  PROVE  ScreenInv'
    BY <2>1, GlobalAppearsScreen
  <2>2. ASSUME NEW o \in Objects, ProxyRemoved(o)  PROVE  ScreenInv'
    BY <2>2, ProxyRemovedScreen
  <2>. QED  BY <1>2, <2>1, <2>2, MessageScreen DEF Server
<1>3. CASE UNCHANGED vars
  BY <1>3, ScreenStutter
<1>. QED  BY <1>1, <1>2, <1>3 DEF Next

\* The screen's part of every reachable state.
THEOREM ScreenInvHolds == Spec => []ScreenInv
<1>1. Init => ScreenInv
  BY EmptySeq DEF Init, ScreenInv, Awaits
<1>2. Inv /\ ScreenInv /\ [Next]_vars => ScreenInv'
  BY ScreenNext
<1>. QED  BY <1>1, <1>2, InvHolds, PTL DEF Spec

\* No object gets two items, and once the queue is empty an object with a tab is
\* shown exactly from its announcement to the removal of its proxy, unless its item
\* came after the REMOVED event (common.c:94-114, 227, tui.c:1194, 1267).
THEOREM ScreenAgrees == Spec => []ScreenMatchesRegistry
<1>1. ScreenInv => ScreenMatchesRegistry
  <2>. SUFFICES ASSUME ScreenInv
                PROVE  /\ \A o \in Objects : created[o] <= 1
                       /\ queue = <<>> =>
                            \A o \in Tabbed :
                              state[o] = "live" => (o \in shown <=> o \notin gone \/ o \in late)
    BY DEF ScreenMatchesRegistry
  <2>1. queue = <<>> => \A o : ~Awaits("announce", o) /\ ~Awaits("removed", o)
    BY EmptySeq DEF Awaits
  <2>. QED  BY <2>1, LifecycleAssumption DEF ScreenInv
<1>. QED  BY <1>1, ScreenInvHolds, PTL
=============================================================================
