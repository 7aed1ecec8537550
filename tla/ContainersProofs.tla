-------------------------- MODULE ContainersProofs --------------------------
(***************************************************************************)
(* Theorems about the containers, each for itself: the ring of EventQueue, *)
(* for any events, any first size and any number of growths; the array of  *)
(* Dict, for any keys, values and capacities; the table of Map, for any    *)
(* ids, objects and hash.                                                  *)
(***************************************************************************)
EXTENDS EventQueue, Dict, Map, SequenceTheorems, FiniteSetTheorems,
        WellFoundedInduction, TLAPS

(***************************************************************************)
(* The ring is a FIFO.                                                     *)
(***************************************************************************)

\* A ring that exists has room for two, and its ends are slots.
RingInv ==
  /\ TypeOK
  /\ size = 0 => read = 0 /\ write = 0
  /\ size # 0 => size >= 2 /\ read < size /\ write < size

Cells == Values \union {Garbage}

-----------------------------------------------------------------------------
(* Facts about the definitions.                                            *)

\* Indices run over the end of the ring once at most.
LEMMA ModOnce ==
  ASSUME NEW n \in Nat, n > 0, NEW x \in 0..2 * n - 1
  PROVE  x % n = IF x < n THEN x ELSE x - n
<1>1. CASE x < n
  BY <1>1
<1>2. CASE x >= n
  BY <1>2, Z3
<1>. QED  BY <1>1, <1>2

\* The length of the queue, without the remainder.
LEMMA LengthIs ==
  ASSUME RingInv
  PROVE  /\ size = 0 => Length = 0
         /\ size # 0 => /\ Length = IF read <= write THEN write - read
                                                     ELSE write - read + size
                        /\ Length \in 0..size - 1
         /\ Length \in Nat
<1>1. CASE size = 0
  BY <1>1 DEF Length
<1>2. CASE size # 0
  <2>1. size \in Nat /\ size > 0 /\ read \in 0..size - 1 /\ write \in 0..size - 1
    BY <1>2 DEF RingInv, TypeOK
  <2>2. write - read + size \in 0..2 * size - 1
    BY <2>1
  <2>3. Length = IF write - read + size < size THEN write - read + size
                                               ELSE write - read
    BY <1>2, <2>1, <2>2, ModOnce DEF Length
  <2>4. Length = IF read <= write THEN write - read ELSE write - read + size
    BY <2>1, <2>3
  <2>. QED  BY <1>2, <2>1, <2>4
<1>. QED  BY <1>1, <1>2

LengthFacts ==
  /\ Length \in Nat
  /\ size = 0 => Length = 0
  /\ size # 0 => Length = IF read <= write THEN write - read ELSE write - read + size

\* The same of the state after a step.
LEMMA LengthIsNext ==
  RingInv' => /\ size' = 0 => Length' = 0
              /\ size' # 0 => Length' = IF read' <= write' THEN write' - read'
                                                           ELSE write' - read' + size'
<1>1. RingInv => LengthFacts
  BY LengthIs DEF LengthFacts
<1>2. RingInv' => LengthFacts'
  BY <1>1, PTL
<1>. QED  BY <1>2 DEF LengthFacts

\* The slot of the i-th event from the first, without the remainder.
LEMMA SlotIs ==
  ASSUME RingInv, size # 0, NEW i \in 0..size - 1
  PROVE  /\ (read + i) % size = IF read + i < size THEN read + i ELSE read + i - size
         /\ (read + i) % size \in 0..size - 1
<1>1. size \in Nat /\ size > 0 /\ read \in 0..size - 1 /\ i \in 0..size - 1
  BY DEF RingInv, TypeOK
<1>2. read + i \in 0..2 * size - 1
  BY <1>1
<1>3. (read + i) % size = IF read + i < size THEN read + i ELSE read + i - size
  BY <1>1, <1>2, ModOnce
<1>. QED  BY <1>1, <1>3

\* The write index after a push that fits.
LEMMA NextWrite ==
  ASSUME RingInv, size # 0
  PROVE  /\ (write + 1) % size = IF write + 1 < size THEN write + 1 ELSE 0
         /\ (read + 1) % size = IF read + 1 < size THEN read + 1 ELSE 0
<1>1. /\ size \in Nat /\ size >= 2 /\ read \in 0..size - 1 /\ write \in 0..size - 1
  BY DEF RingInv, TypeOK
<1>2. write + 1 \in 0..2 * size - 1 /\ read + 1 \in 0..2 * size - 1 /\ size > 0
  BY <1>1
<1>3. /\ (write + 1) % size = IF write + 1 < size THEN write + 1 ELSE write + 1 - size
      /\ (read + 1) % size = IF read + 1 < size THEN read + 1 ELSE read + 1 - size
  BY <1>1, <1>2, ModOnce
<1>. QED  BY <1>1, <1>3

\* A ring that is not full has room for one more event and the empty slot.
LEMMA RoomForOne ==
  ASSUME RingInv, ~IsFull
  PROVE  size # 0 /\ Length + 1 < size /\ Length + 1 \in 0..size - 1
<1>1. size # 0 /\ (write + 1) % size # read
  BY DEF IsFull
<1>2. /\ size \in Nat /\ size >= 2 /\ read \in 0..size - 1 /\ write \in 0..size - 1
  BY <1>1 DEF RingInv, TypeOK
<1>3. (write + 1) % size = IF write + 1 < size THEN write + 1 ELSE 0
  BY <1>1, NextWrite
<1>4. Length = IF read <= write THEN write - read ELSE write - read + size
  BY <1>1, LengthIs
<1>. QED  BY <1>1, <1>2, <1>3, <1>4

\* The new ring has room for what was in the old one, and for one more event.
LEMMA RoomInGrown ==
  ASSUME RingInv
  PROVE  /\ NewSize \in Nat /\ NewSize >= 2 /\ Length \in 0..NewSize - 2
         /\ (Length + 1) % NewSize = Length + 1
         /\ Grown \in [0..NewSize - 1 -> Cells]
<1>1. NewSize \in Nat /\ NewSize >= 2 /\ Length \in Nat /\ Length \in 0..NewSize - 2
  <2>1. CASE size = 0
    BY <2>1, LengthIs, QueueAssumption DEF NewSize
  <2>2. CASE size # 0
    <3>1. size \in Nat /\ size >= 2 /\ NewSize = 2 * size
      BY <2>2 DEF RingInv, TypeOK, NewSize
    <3>. QED  BY <2>2, <3>1, LengthIs
  <2>. QED  BY <2>1, <2>2
<1>2. (Length + 1) % NewSize = Length + 1
  <2>1. Length + 1 \in 0..2 * NewSize - 1 /\ Length + 1 < NewSize /\ NewSize > 0
    BY <1>1
  <2>. QED  BY <1>1, <2>1, ModOnce
<1>3. ASSUME NEW i \in 0..NewSize - 1, i < Length
      PROVE  ring[(read + i) % size] \in Cells
  <2>0. size # 0
    BY <1>1, <1>3, LengthIs
  <2>1. size # 0 /\ i \in 0..size - 1
    BY <1>1, <1>3, <2>0, LengthIs DEF RingInv, TypeOK
  <2>2. (read + i) % size \in 0..size - 1
    BY <2>1, SlotIs
  <2>. QED  BY <2>2 DEF RingInv, TypeOK, Cells
<1>4. Grown \in [0..NewSize - 1 -> Cells]
  BY <1>3 DEF Grown, Cells
<1>. QED  BY <1>1, <1>2, <1>4

-----------------------------------------------------------------------------
(* The invariant.                                                          *)

THEOREM QueueInitInv == Init => RingInv
BY DEF Init, RingInv, TypeOK

LEMMA PushInPlaceInv ==
  ASSUME RingInv, NEW v \in Values, PushInPlace(v)
  PROVE  RingInv'
<1>1. /\ ~IsFull /\ ring' = [ring EXCEPT ![write] = v]
      /\ write' = (write + 1) % size
      /\ size' = size /\ read' = read
  BY DEF PushInPlace
<1>2. size # 0
  BY <1>1, RoomForOne
<1>3. /\ size \in Nat /\ size >= 2 /\ read \in 0..size - 1 /\ write \in 0..size - 1
      /\ ring \in [0..size - 1 -> Values \union {Garbage}]
  BY <1>2 DEF RingInv, TypeOK
<1>4. write' \in 0..size - 1
  BY <1>1, <1>2, <1>3, NextWrite
<1>5. ring' \in [0..size - 1 -> Values \union {Garbage}]
  BY <1>1, <1>3
<1>6. TypeOK'
  BY <1>1, <1>3, <1>4, <1>5 DEF RingInv, TypeOK
<1>. QED  BY <1>1, <1>2, <1>3, <1>4, <1>6 DEF RingInv

LEMMA PushGrowingInv ==
  ASSUME RingInv, NEW v \in Values, PushGrowing(v)
  PROVE  RingInv'
<1>1. /\ ring' = [Grown EXCEPT ![Length] = v]
      /\ write' = (Length + 1) % NewSize
      /\ size' = NewSize /\ read' = 0
  BY DEF PushGrowing
<1>2. /\ NewSize \in Nat /\ NewSize >= 2 /\ Length \in 0..NewSize - 2
      /\ (Length + 1) % NewSize = Length + 1
      /\ Grown \in [0..NewSize - 1 -> Values \union {Garbage}]
  BY RoomInGrown DEF Cells
<1>3. ring' \in [0..NewSize - 1 -> Values \union {Garbage}]
  BY <1>1, <1>2
<1>4. TypeOK'
  BY <1>1, <1>2, <1>3 DEF TypeOK
<1>. QED  BY <1>1, <1>2, <1>4 DEF RingInv

LEMMA PopInv == ASSUME RingInv, Pop  PROVE RingInv'
<1>1. /\ read # write /\ read' = (read + 1) % size
      /\ ring' = ring /\ size' = size /\ write' = write
  BY DEF Pop, IsEmpty
<1>2. size # 0
  BY <1>1 DEF RingInv
<1>3. /\ size \in Nat /\ size >= 2 /\ read \in 0..size - 1 /\ write \in 0..size - 1
  BY <1>2 DEF RingInv, TypeOK
<1>4. read' \in 0..size - 1
  BY <1>1, <1>2, <1>3, NextWrite
<1>5. TypeOK'
  BY <1>1, <1>3, <1>4 DEF RingInv, TypeOK
<1>. QED  BY <1>1, <1>2, <1>3, <1>4, <1>5 DEF RingInv

THEOREM QueueStepInv == RingInv /\ [Next]_vars => RingInv'
<1>. SUFFICES ASSUME RingInv, [Next]_vars PROVE RingInv'
  OBVIOUS
<1>1. CASE \E v \in Values : Push(v)
  BY <1>1, PushInPlaceInv, PushGrowingInv DEF Push
<1>2. CASE Pop
  BY <1>2, PopInv
<1>3. CASE UNCHANGED vars
  BY <1>3 DEF vars, RingInv, TypeOK
<1>. QED  BY <1>1, <1>2, <1>3 DEF Next

THEOREM RingInvHolds == Spec => []RingInv
<1>1. Init => RingInv
  BY QueueInitInv
<1>2. RingInv /\ [Next]_vars => RingInv'
  BY QueueStepInv
<1>. QED  BY <1>1, <1>2, PTL DEF Spec

-----------------------------------------------------------------------------
(* The queue.                                                              *)

ContentsAreSlots ==
  /\ Contents \in Seq(Cells) /\ Len(Contents) = Length /\ Length \in Nat
  /\ \A i \in 1..Length : Contents[i] = ring[(read + i - 1) % size]

\* The events in the ring are a sequence of what its slots hold.
LEMMA ContentsSeq == RingInv => ContentsAreSlots
<1>. SUFFICES ASSUME RingInv PROVE ContentsAreSlots
  OBVIOUS
<1>1. Length \in Nat
  BY LengthIs
<1>2. ASSUME NEW i \in 1..Length PROVE ring[(read + i - 1) % size] \in Cells
  <2>0. size # 0
    BY <1>1, LengthIs
  <2>1. size # 0 /\ size \in Nat /\ Length \in 0..size - 1
    BY <1>1, <2>0, LengthIs DEF RingInv, TypeOK
  <2>2. i - 1 \in 0..size - 1 /\ read + (i - 1) = read + i - 1
    BY <1>1, <2>1 DEF RingInv, TypeOK
  <2>3. (read + i - 1) % size \in 0..size - 1
    BY <2>1, <2>2, SlotIs
  <2>. QED  BY <2>3 DEF RingInv, TypeOK, Cells
<1>3. Contents \in Seq(Cells)
  BY <1>1, <1>2, IsASeq DEF Contents
<1>. QED  BY <1>1, <1>3 DEF Contents, ContentsAreSlots

\* The same of the state after a step.
LEMMA ContentsSeqNext == RingInv' => ContentsAreSlots'
BY ContentsSeq, PTL

\* Two sequences of events with the same events are the same.
LEMMA PushIsAppend ==
  ASSUME RingInv, RingInv', NEW v \in Values,
         Length' = Length + 1,
         \A i \in 1..Length : ring'[(read' + i - 1) % size'] = ring[(read + i - 1) % size],
         ring'[(read' + Length) % size'] = v
  PROVE  Queue!Push(v)
<1>1. ContentsAreSlots /\ ContentsAreSlots'
  BY ContentsSeq, ContentsSeqNext
<1>2. Contents \in Seq(Cells) /\ Contents' \in Seq(Cells) /\ v \in Cells
      /\ Length \in Nat /\ Len(Contents) = Length /\ Len(Contents') = Length + 1
  BY <1>1 DEF ContentsAreSlots, Cells
<1>3. /\ Append(Contents, v) \in Seq(Cells)
      /\ Len(Append(Contents, v)) = Length + 1
      /\ \A i \in 1..Length : Append(Contents, v)[i] = Contents[i]
      /\ Append(Contents, v)[Length + 1] = v
  BY <1>2, AppendProperties
<1>4. ASSUME NEW i \in 1..Length + 1 PROVE Contents'[i] = Append(Contents, v)[i]
  <2>1. Contents'[i] = ring'[(read' + i - 1) % size']
    BY <1>1, <1>2 DEF ContentsAreSlots
  <2>2. CASE i = Length + 1
    <3>1. read' \in Nat /\ read' + i - 1 = read' + Length
      BY <1>2, <2>2 DEF RingInv, TypeOK
    <3>. QED  BY <1>3, <2>1, <2>2, <3>1
  <2>3. CASE i \in 1..Length
    BY <1>1, <1>3, <2>1, <2>3 DEF ContentsAreSlots
  <2>. QED  BY <1>2, <2>2, <2>3
<1>5. Contents' = Append(Contents, v)
  BY <1>2, <1>3, <1>4, SeqEqual
<1>. QED  BY <1>5 DEF Queue!Push

\* A push that fits writes to the slot after the last event.
LEMMA PushInPlaceImplements ==
  ASSUME RingInv, NEW v \in Values, PushInPlace(v)
  PROVE  Queue!Push(v)
<1>1. /\ ring' = [ring EXCEPT ![write] = v]
      /\ write' = (write + 1) % size /\ size' = size /\ read' = read
  BY DEF PushInPlace
<1>2. size # 0 /\ Length + 1 < size /\ Length + 1 \in 0..size - 1
  BY RoomForOne DEF PushInPlace
<1>3. /\ size \in Nat /\ size >= 2 /\ read \in 0..size - 1 /\ write \in 0..size - 1
      /\ ring \in [0..size - 1 -> Values \union {Garbage}]
  BY <1>2 DEF RingInv, TypeOK
<1>4. Length = IF read <= write THEN write - read ELSE write - read + size
  BY <1>2, LengthIs
<1>5. RingInv'
  BY PushInPlaceInv
<1>6. Length' = Length + 1
  <2>1. write' = IF write + 1 < size THEN write + 1 ELSE 0
    BY <1>1, <1>2, NextWrite
  <2>. QED  BY <1>1, <1>2, <1>3, <1>4, <1>5, <2>1, LengthIsNext
<1>7. (read + Length) % size = write
  <2>1. Length \in 0..size - 1
    BY <1>2, <1>3, <1>4
  <2>2. (read + Length) % size
          = IF read + Length < size THEN read + Length ELSE read + Length - size
    BY <1>2, <2>1, SlotIs
  <2>. QED  BY <1>3, <1>4, <2>2
<1>8. ASSUME NEW i \in 1..Length
      PROVE  ring'[(read + i - 1) % size] = ring[(read + i - 1) % size]
  <2>1. i - 1 \in 0..size - 1 /\ read + (i - 1) = read + i - 1 /\ i - 1 < Length
    BY <1>2, <1>3, <1>4
  <2>2. /\ (read + i - 1) % size = IF read + i - 1 < size THEN read + i - 1
                                                         ELSE read + i - 1 - size
        /\ (read + i - 1) % size \in 0..size - 1
    BY <1>2, <2>1, SlotIs
  <2>3. (read + i - 1) % size # write
    BY <1>2, <1>3, <1>4, <2>1, <2>2
  <2>. QED  BY <1>1, <1>3, <2>2, <2>3
<1>9. ring'[(read + Length) % size] = v
  BY <1>1, <1>3, <1>7
<1>. QED  BY <1>1, <1>5, <1>6, <1>8, <1>9, PushIsAppend

\* Growth copies the events in their order to the front of the new ring.
LEMMA PushGrowingImplements ==
  ASSUME RingInv, NEW v \in Values, PushGrowing(v)
  PROVE  Queue!Push(v)
<1>1. /\ ring' = [Grown EXCEPT ![Length] = v]
      /\ write' = Length + 1 /\ size' = NewSize /\ read' = 0
      /\ NewSize \in Nat /\ NewSize >= 2 /\ Length \in 0..NewSize - 2
      /\ Grown \in [0..NewSize - 1 -> Cells]
  BY RoomInGrown DEF PushGrowing
<1>2. Length \in Nat /\ RingInv'
  BY LengthIs, PushGrowingInv
<1>3. Length' = Length + 1
  BY <1>1, <1>2, LengthIsNext
<1>4. ASSUME NEW i \in 0..NewSize - 1 PROVE (0 + i) % NewSize = i
  <2>1. i \in 0..2 * NewSize - 1 /\ i < NewSize /\ NewSize > 0 /\ 0 + i = i
    BY <1>1
  <2>. QED  BY <1>1, <2>1, ModOnce
<1>5. ASSUME NEW i \in 1..Length
      PROVE  ring'[(read' + i - 1) % size'] = ring[(read + i - 1) % size]
  <2>1. i - 1 \in 0..NewSize - 1 /\ i - 1 < Length /\ i - 1 # Length
        /\ read' + i - 1 = 0 + (i - 1)
    BY <1>1, <1>2
  <2>2. ring'[(read' + i - 1) % size'] = Grown[i - 1]
    BY <1>1, <1>4, <2>1
  <2>3. Grown[i - 1] = ring[(read + (i - 1)) % size]
    BY <2>1 DEF Grown
  <2>4. read + (i - 1) = read + i - 1
    BY <1>2 DEF RingInv, TypeOK
  <2>. QED  BY <2>2, <2>3, <2>4
<1>6. ring'[(read' + Length) % size'] = v
  <2>1. Length \in 0..NewSize - 1
    BY <1>1
  <2>2. (read' + Length) % size' = Length
    BY <1>1, <1>4, <2>1
  <2>. QED  BY <1>1, <2>1, <2>2
<1>. QED  BY <1>2, <1>3, <1>5, <1>6, PushIsAppend

\* A pop takes the first event.
LEMMA PopImplements == ASSUME RingInv, Pop  PROVE Queue!Pop
<1>1. /\ read # write /\ read' = (read + 1) % size
      /\ ring' = ring /\ size' = size /\ write' = write
  BY DEF Pop, IsEmpty
<1>2. size # 0
  BY <1>1 DEF RingInv
<1>3. /\ size \in Nat /\ size >= 2 /\ read \in 0..size - 1 /\ write \in 0..size - 1
  BY <1>2 DEF RingInv, TypeOK
<1>4. /\ Length = IF read <= write THEN write - read ELSE write - read + size
      /\ Length \in 0..size - 1 /\ Length > 0
  BY <1>1, <1>2, <1>3, LengthIs
<1>5. read' = IF read + 1 < size THEN read + 1 ELSE 0
  BY <1>1, <1>2, NextWrite
<1>6. RingInv'
  BY PopInv
<1>7. Length' = Length - 1
  BY <1>1, <1>2, <1>3, <1>4, <1>5, <1>6, LengthIsNext
<1>8. ContentsAreSlots /\ ContentsAreSlots'
  BY <1>6, ContentsSeq, ContentsSeqNext
<1>9. /\ Contents \in Seq(Cells) /\ Contents' \in Seq(Cells)
      /\ Len(Contents) = Length /\ Len(Contents') = Length - 1
  BY <1>7, <1>8 DEF ContentsAreSlots
<1>10. Contents # <<>>
  BY <1>4, <1>9, EmptySeq
<1>11. /\ Tail(Contents) \in Seq(Cells) /\ Len(Tail(Contents)) = Length - 1
       /\ \A i \in 1..Length - 1 : Tail(Contents)[i] = Contents[i + 1]
  BY <1>9, <1>10, HeadTailProperties
<1>12. ASSUME NEW i \in 1..Length - 1 PROVE Contents'[i] = Tail(Contents)[i]
  <2>1. /\ i - 1 \in 0..size - 1 /\ i \in 0..size - 1
        /\ i + 1 \in 1..Length /\ read + (i + 1) - 1 = read + i
    BY <1>3, <1>4
  <2>2. (read + i) % size = IF read + i < size THEN read + i ELSE read + i - size
    BY <1>2, <2>1, SlotIs
  <2>3. (read' + i - 1) % size = (read + i) % size
    <3>. DEFINE x == read' + i - 1
    <3>1. x \in 0..2 * size - 1 /\ size \in Nat /\ size > 0
      BY <1>3, <1>4, <1>5, <2>1
    <3>. HIDE DEF x
    <3>2. x % size = IF x < size THEN x ELSE x - size
      BY <3>1, ModOnce
    <3>. USE DEF x
    <3>. QED  BY <1>3, <1>4, <1>5, <2>2, <3>2
  <2>4. Contents[i + 1] = ring[(read + i) % size]
    BY <1>8, <2>1 DEF ContentsAreSlots
  <2>5. Contents'[i] = ring[(read' + i - 1) % size]
    BY <1>1, <1>7, <1>8 DEF ContentsAreSlots
  <2>. QED  BY <1>11, <2>3, <2>4, <2>5
<1>13. Contents' = Tail(Contents)
  BY <1>4, <1>9, <1>11, <1>12, SeqEqual
<1>. QED  BY <1>10, <1>13 DEF Queue!Pop

\* Every step of the ring is one of the FIFO.
THEOREM RingStepImplements == RingInv /\ [Next]_vars => [Queue!Next]_Contents
<1>. SUFFICES ASSUME RingInv, [Next]_vars
              PROVE  Queue!Next \/ UNCHANGED Contents
  OBVIOUS
<1>1. CASE \E v \in Values : Push(v)
  BY <1>1, PushInPlaceImplements, PushGrowingImplements DEF Push, Queue!Next
<1>2. CASE Pop
  BY <1>2, PopImplements DEF Queue!Next
<1>3. CASE UNCHANGED vars
  BY <1>3 DEF vars, Contents, Length
<1>. QED  BY <1>1, <1>2, <1>3 DEF Next

\* The ring is a FIFO: growth and wrap-around lose, repeat and reorder nothing
\* (events.c:71-108).
THEOREM RingIsFifo == Spec => FifoSpec
<1>1. Init => Queue!Init
  <2>1. Init => Contents \in Seq({}) /\ Len(Contents) = 0
    BY DEF Init, Contents, Length
  <2>. QED  BY <2>1, EmptySeq DEF Queue!Init
<1>2. RingInv /\ [Next]_vars => [Queue!Next]_Contents
  BY RingStepImplements
<1>. QED  BY <1>1, <1>2, RingInvHolds, PTL DEF Spec, FifoSpec, Queue!Spec

-----------------------------------------------------------------------------
(***************************************************************************)
(* The array stays sorted, the bisection in it is sound, and each call     *)
(* does to the map what FiniteMap says.                                    *)
(***************************************************************************)

-----------------------------------------------------------------------------
(* Facts about the definitions.                                            *)

\* The middle of an interval that is not empty lies in it.
LEMMA MiddleInBetween ==
  ASSUME l \in Int, r \in Int, l <= r
  PROVE  Middle \in Int /\ l <= Middle /\ Middle <= r
BY DEF Middle

\* dict_reserve makes the room it is asked for and takes none away.
LEMMA CapForSuffices ==
  ASSUME cap \in Nat, NEW n \in Nat
  PROVE  CapFor(n) \in Nat /\ CapFor(n) >= n /\ CapFor(n) >= cap
BY DEF CapFor

\* While it searches, a call is at an item of the array.
LEMMA SearchInSlots ==
  ASSUME DictInv, Searching
  PROVE  /\ Middle \in Slots /\ l <= Middle /\ Middle <= r
         /\ items[Middle] \in Item
         /\ call \in Calls /\ call.key \in Int /\ items[Middle].key \in Int
<1>1. call \in Calls /\ call.key \in Keys
  BY DEF DictInv, DictTypeOK, Searching, Calls
<1>2. /\ l \in Int /\ r \in Int /\ l <= r /\ 0 <= l /\ r < dict_size
      /\ dict_size \in Nat
  BY DEF DictInv, DictTypeOK, Searching, Bisects
<1>3. Middle \in Slots /\ l <= Middle /\ Middle <= r
  BY <1>2, MiddleInBetween DEF Slots
<1>4. items[Middle] \in Item
  BY <1>3 DEF DictInv
<1>. QED  BY <1>1, <1>3, <1>4, DictAssumption DEF Item

\* In an array without duplicates a key has the value of its slot.
LEMMA ContentsAt ==
  ASSUME NEW slots, NEW n \in Nat,
         \A i, j \in 0..n - 1 : i < j => slots[i].key # slots[j].key,
         NEW k \in Keys, NEW i \in 0..n - 1, slots[i].key = k
  PROVE  ContentsOf(slots, n)[k] = slots[i].val
<1>1. \A j \in 0..n - 1 : slots[j].key = k => j = i
  OBVIOUS
<1>2. (CHOOSE j \in 0..n - 1 : slots[j].key = k) = i
  BY <1>1
<1>. QED  BY <1>2 DEF ContentsOf

\* A key that has no slot has no value.
LEMMA ContentsAway ==
  ASSUME NEW slots, NEW n \in Nat, NEW k \in Keys,
         \A i \in 0..n - 1 : slots[i].key # k
  PROVE  ContentsOf(slots, n)[k] = Missing
BY DEF ContentsOf

\* Sorted strictly, the slots have different keys.
LEMMA SortedDiffers ==
  ASSUME DictInv
  PROVE  \A i, j \in 0..dict_size - 1 : i < j => items[i].key # items[j].key
<1>. SUFFICES ASSUME NEW i \in Slots, NEW j \in Slots, i < j
              PROVE  items[i].key # items[j].key
  BY DEF Slots
<1>1. items[i].key \in Int /\ items[j].key \in Int
  BY DictAssumption DEF DictInv, Item
<1>. QED  BY <1>1 DEF DictInv, Sorted

-----------------------------------------------------------------------------
(* The invariant.                                                          *)

THEOREM DictInitInv == DictInit => DictInv
<1>. SUFFICES ASSUME DictInit PROVE DictInv
  OBVIOUS
<1>1. DictTypeOK
  BY DEF DictInit, DictTypeOK, NoCall
<1>. QED  BY <1>1 DEF DictInit, DictInv, Slots, Sorted, Bisects, NoCall

LEMMA DictReserveInv ==
  ASSUME DictInv, NEW n \in 0..MaxCap, DictReserve(n)
  PROVE  DictInv'
<1>. USE DEF DictInv, DictReserve
<1>1. /\ cap \in Nat /\ cap' \in Nat /\ dict_size \in 0..cap /\ dict_size' \in 0..cap'
      /\ Slots \subseteq 0..cap - 1 /\ Slots \subseteq 0..cap' - 1
  <2>1. cap \in Nat /\ dict_size \in 0..cap /\ dict_size' = dict_size
    BY DEF DictTypeOK
  <2>2. cap' \in Nat /\ cap' >= cap
    BY <2>1, DictAssumption, CapForSuffices
  <2>. QED  BY <2>1, <2>2 DEF Slots
<1>2. \A i \in Slots : items'[i] = items[i]
  BY <1>1 DEF Slot
<1>3. items' \in [0..cap' - 1 -> Item \union {Unset}]
  BY <1>1 DEF DictTypeOK, Slot
<1>4. DictTypeOK'
  BY <1>1, <1>3 DEF DictTypeOK
<1>. QED  BY <1>1, <1>2, <1>4 DEF Slots, Sorted, Bisects

LEMMA DictClearInv == ASSUME DictInv, DictClear  PROVE DictInv'
<1>1. DictTypeOK'
  BY DEF DictInv, DictClear, DictTypeOK
<1>. QED  BY <1>1 DEF DictInv, DictClear, Slots, Sorted, Bisects

LEMMA DictFreeInv == ASSUME DictInv, DictFree  PROVE DictInv'
<1>1. DictTypeOK'
  BY DEF DictInv, DictFree, DictTypeOK
<1>. QED  BY <1>1 DEF DictInv, DictFree, Slots, Sorted, Bisects

\* A call starts with the whole array.
LEMMA DictCallInv ==
  ASSUME DictInv, NEW c \in Calls, DictCall(c)
  PROVE  DictInv'
<1>. USE DEF DictInv, DictCall
<1>1. DictTypeOK'
  BY DEF DictTypeOK
<1>2. Bisects'
  BY DEF DictTypeOK, Bisects
<1>. QED  BY <1>1, <1>2 DEF Slots, Sorted

\* What is left of the middle is smaller than the key, for the array is sorted.
LEMMA GoRightInv == ASSUME DictInv, GoRight  PROVE DictInv'
<1>. USE DEF GoRight
<1>1. /\ Middle \in Slots /\ l <= Middle /\ Middle <= r
      /\ call.key \in Int /\ items[Middle].key \in Int
  BY SearchInSlots
<1>2. /\ l \in Int /\ r \in Int /\ dict_size \in Nat /\ 0 <= l /\ r < dict_size
      /\ l' = Middle + 1
  BY DEF DictInv, DictTypeOK, Bisects, Searching
<1>3. DictTypeOK'
  BY <1>1, <1>2 DEF DictInv, DictTypeOK, Slots
<1>4. \A i \in 0..Middle : items[i].key < call.key
  <2>. SUFFICES ASSUME NEW i \in 0..Middle, i # Middle PROVE items[i].key < call.key
    BY <1>1
  <2>1. i \in Slots /\ i < Middle
    BY <1>1, <1>2 DEF Slots
  <2>2. items[i].key < items[Middle].key /\ items[i].key \in Int
    BY <1>1, <2>1, DictAssumption DEF DictInv, Sorted, Item
  <2>. QED  BY <1>1, <2>2
<1>5. Bisects'
  BY <1>1, <1>2, <1>4 DEF DictInv, Bisects, Searching, Slots
<1>. QED  BY <1>3, <1>5 DEF DictInv, Slots, Sorted

LEMMA GoLeftInv == ASSUME DictInv, GoLeft  PROVE DictInv'
<1>. USE DEF GoLeft
<1>1. /\ Middle \in Slots /\ l <= Middle /\ Middle <= r
      /\ call.key \in Int /\ items[Middle].key \in Int
  BY SearchInSlots
<1>2. /\ l \in Int /\ r \in Int /\ dict_size \in Nat /\ 0 <= l /\ r < dict_size
      /\ r' = Middle - 1
  BY DEF DictInv, DictTypeOK, Bisects, Searching
<1>3. DictTypeOK'
  BY <1>1, <1>2 DEF DictInv, DictTypeOK, Slots
<1>4. \A i \in Middle..dict_size - 1 : items[i].key > call.key
  <2>. SUFFICES ASSUME NEW i \in Middle..dict_size - 1, i # Middle
                PROVE  items[i].key > call.key
    BY <1>1
  <2>1. i \in Slots /\ Middle < i
    BY <1>1, <1>2 DEF Slots
  <2>2. items[Middle].key < items[i].key /\ items[i].key \in Int
    BY <1>1, <2>1, DictAssumption DEF DictInv, Sorted, Item
  <2>. QED  BY <1>1, <2>2
<1>5. Bisects'
  BY <1>1, <1>2, <1>4 DEF DictInv, Bisects, Searching, Slots
<1>. QED  BY <1>3, <1>5 DEF DictInv, Slots, Sorted

\* What holds where the search has ended without the key: l is its place.
LEMMA PlaceOfAbsent ==
  ASSUME DictInv, Absent
  PROVE  /\ l \in 0..dict_size /\ dict_size \in Nat /\ cap \in Nat /\ dict_size <= cap
         /\ call \in Calls /\ call.key \in Keys /\ call.key \in Int
         /\ \A i \in 0..l - 1 : items[i].key < call.key
         /\ \A i \in l..dict_size - 1 : items[i].key > call.key
         /\ \A i \in Slots : items[i] \in Item /\ items[i].key \in Int
<1>1. /\ l \in Int /\ r \in Int /\ dict_size \in Nat /\ cap \in Nat /\ dict_size <= cap
      /\ l > r /\ call # NoCall
  BY DEF DictInv, DictTypeOK, Absent
<1>2. l = r + 1 /\ l \in 0..dict_size
  BY <1>1 DEF DictInv, Bisects
<1>3. call \in Calls /\ call.key \in Keys
  BY <1>1 DEF DictInv, DictTypeOK, Calls
<1>4. \A i \in Slots : items[i] \in Item /\ items[i].key \in Int
  BY DictAssumption DEF DictInv, Item
<1>. QED  BY <1>1, <1>2, <1>3, <1>4, DictAssumption DEF DictInv, Bisects

\* A call that only looks leaves the array alone.
LEMMA FindInv == ASSUME DictInv, GetPresent \/ FindAbsent  PROVE DictInv'
<1>1. /\ items' = items /\ dict_size' = dict_size /\ cap' = cap
      /\ call' = NoCall /\ l' = l /\ r' = r
  BY DEF GetPresent, FindAbsent, Return
<1>2. found' \in Strings \union {Missing}
  <2>1. CASE GetPresent
    BY <2>1, SearchInSlots DEF GetPresent, Present, Item
  <2>2. CASE FindAbsent
    BY <2>2 DEF FindAbsent
  <2>. QED  BY <2>1, <2>2
<1>3. DictTypeOK'
  BY <1>1, <1>2 DEF DictInv, DictTypeOK
<1>. QED  BY <1>1, <1>3 DEF DictInv, Slots, Sorted, Bisects

\* Replacing a value disturbs no key.
LEMMA InsertPresentInv == ASSUME DictInv, InsertPresent  PROVE DictInv'
<1>. USE DEF InsertPresent, Return
<1>1. /\ Middle \in Slots /\ items[Middle] \in Item /\ call \in Calls
      /\ call.op = "insert"
  BY SearchInSlots DEF Present
<1>2. call.val \in Strings
  BY <1>1 DEF Calls
<1>3. /\ cap \in Nat /\ dict_size \in 0..cap /\ Slots \subseteq 0..cap - 1
      /\ items \in [0..cap - 1 -> Item \union {Unset}]
  BY DEF DictInv, DictTypeOK, Slots
<1>4. /\ items'[Middle] = [items[Middle] EXCEPT !.val = call.val]
      /\ items'[Middle] \in Item /\ items'[Middle].key = items[Middle].key
  BY <1>1, <1>2, <1>3 DEF Item
<1>5. \A i \in 0..cap - 1 : i # Middle => items'[i] = items[i]
  BY <1>3
<1>6. items' \in [0..cap - 1 -> Item \union {Unset}]
  BY <1>3, <1>4, <1>5
<1>7. \A i \in Slots : items'[i] \in Item /\ items'[i].key = items[i].key
  BY <1>3, <1>4, <1>5 DEF DictInv
<1>8. found' \in Strings
  BY <1>1 DEF Item
<1>9. DictTypeOK'
  BY <1>6, <1>8 DEF DictInv, DictTypeOK
<1>. QED  BY <1>7, <1>9 DEF DictInv, Slots, Sorted, Bisects

\* The new item goes where the search ended: what is smaller stays below, what
\* is greater moves above it.
LEMMA InsertAbsentInv == ASSUME DictInv, InsertAbsent  PROVE DictInv'
<1>. USE DEF InsertAbsent, Return
<1>. DEFINE new == [key |-> call.key, val |-> call.val]
<1>1. /\ l \in 0..dict_size /\ dict_size \in Nat /\ cap \in Nat /\ dict_size <= cap
      /\ call \in Calls /\ call.key \in Keys /\ call.key \in Int
      /\ \A i \in 0..l - 1 : items[i].key < call.key
      /\ \A i \in l..dict_size - 1 : items[i].key > call.key
      /\ \A i \in Slots : items[i] \in Item /\ items[i].key \in Int
  BY PlaceOfAbsent
<1>2. new \in Item /\ new.key = call.key
  BY <1>1 DEF Calls, Item
<1>3. cap' \in Nat /\ cap' >= dict_size + 1 /\ cap' >= cap /\ dict_size' = dict_size + 1
  BY <1>1, CapForSuffices
<1>4. items' = [i \in 0..cap' - 1 |->
                  IF i = l THEN new
                  ELSE IF l < i /\ i <= dict_size THEN items[i - 1] ELSE Slot(i)]
  OBVIOUS
<1>5. \A i \in 0..cap' - 1 : Slot(i) \in Item \union {Unset}
  BY <1>1 DEF DictInv, DictTypeOK, Slot
<1>6. /\ items'[l] = new
      /\ \A i \in 0..l - 1 : items'[i] = items[i]
      /\ \A i \in l + 1..dict_size : items'[i] = items[i - 1]
  BY <1>1, <1>3, <1>4 DEF Slot
<1>7. \A i \in l + 1..dict_size : i - 1 \in Slots /\ i - 1 \in l..dict_size - 1
  BY <1>1 DEF Slots
<1>8. items' \in [0..cap' - 1 -> Item \union {Unset}]
  BY <1>1, <1>2, <1>4, <1>5, <1>7
<1>9. DictTypeOK'
  BY <1>1, <1>3, <1>8 DEF DictInv, DictTypeOK
<1>10. Slots' = (0..l - 1) \union {l} \union (l + 1..dict_size)
  BY <1>1, <1>3 DEF Slots
<1>11. \A i \in Slots' : items'[i] \in Item
  BY <1>1, <1>2, <1>6, <1>7, <1>10 DEF Slots
<1>12. Sorted'
  <2>. SUFFICES ASSUME NEW i \in Slots', NEW j \in Slots', i < j
                PROVE  items'[i].key < items'[j].key
    BY DEF Sorted
  <2>0. \A a, b \in Slots : a < b => items[a].key < items[b].key
    BY DEF DictInv, Sorted
  <2>1. i \in 0..dict_size /\ j \in 0..dict_size /\ l \in Int
    BY <1>1, <1>3 DEF Slots
  <2>2. CASE i = l
    <3>1. j \in l + 1..dict_size
      BY <2>1, <2>2
    <3>2. items'[j] = items[j - 1] /\ items[j - 1].key > call.key
      BY <1>1, <1>6, <1>7, <3>1
    <3>3. items[j - 1].key \in Int /\ call.key \in Int
      BY <1>1, <1>7, <3>1
    <3>. QED  BY <1>2, <1>6, <2>2, <3>2, <3>3
  <2>3. CASE j = l
    <3>1. i \in 0..l - 1
      BY <2>1, <2>3
    <3>. QED  BY <1>1, <1>2, <1>6, <2>3, <3>1
  <2>4. CASE i < l /\ j < l
    <3>1. i \in 0..l - 1 /\ j \in 0..l - 1 /\ i \in Slots /\ j \in Slots
      BY <1>1, <2>1, <2>4 DEF Slots
    <3>. QED  BY <1>6, <2>0, <3>1
  <2>5. CASE i < l /\ j > l
    <3>1. i \in 0..l - 1 /\ j \in l + 1..dict_size
      BY <2>1, <2>5
    <3>2. i \in Slots /\ j - 1 \in Slots /\ i < j - 1
      BY <1>1, <2>1, <3>1 DEF Slots
    <3>3. items[i].key < items[j - 1].key
      BY <2>0, <3>2
    <3>. QED  BY <1>6, <3>1, <3>3
  <2>6. CASE i > l
    <3>1. i \in l + 1..dict_size /\ j \in l + 1..dict_size
      BY <2>1, <2>6
    <3>2. i - 1 \in Slots /\ j - 1 \in Slots /\ i - 1 < j - 1
      BY <1>1, <2>1, <3>1 DEF Slots
    <3>3. items[i - 1].key < items[j - 1].key
      BY <2>0, <3>2
    <3>. QED  BY <1>6, <3>1, <3>3
  <2>. QED  BY <2>1, <2>2, <2>3, <2>4, <2>5, <2>6
<1>. QED  BY <1>9, <1>11, <1>12 DEF DictInv, Bisects

\* The item that goes is overwritten by those that follow.
LEMMA RemovePresentInv == ASSUME DictInv, RemovePresent  PROVE DictInv'
<1>. USE DEF RemovePresent, Return
<1>1. /\ Middle \in Slots /\ items[Middle] \in Item
  BY SearchInSlots DEF Present
<1>2. /\ cap \in Nat /\ dict_size \in 0..cap /\ dict_size \in Nat /\ dict_size <= cap
      /\ items \in [0..cap - 1 -> Item \union {Unset}]
      /\ \A i \in Slots : items[i] \in Item
  BY DEF DictInv, DictTypeOK
<1>3. /\ dict_size' = dict_size - 1 /\ dict_size' \in 0..cap
      /\ Slots' \subseteq Slots /\ \A i \in Slots' : i + 1 \in Slots
  BY <1>1, <1>2 DEF Slots
<1>4. items' \in [0..cap - 1 -> Item \union {Unset}]
  BY <1>2 DEF Slots
<1>5. \A i \in Slots' : items'[i] = IF Middle <= i THEN items[i + 1] ELSE items[i]
  BY <1>2, <1>3 DEF Slots
<1>6. \A i \in Slots' : items'[i] \in Item
  BY <1>2, <1>3, <1>5
<1>7. found' \in Strings
  BY <1>1 DEF Item
<1>8. DictTypeOK'
  BY <1>3, <1>4, <1>7 DEF DictInv, DictTypeOK
<1>9. Sorted'
  <2>. SUFFICES ASSUME NEW i \in Slots', NEW j \in Slots', i < j
                PROVE  items'[i].key < items'[j].key
    BY DEF Sorted
  <2>1. /\ i \in Slots /\ j \in Slots /\ i + 1 \in Slots /\ j + 1 \in Slots
        /\ i \in Int /\ j \in Int /\ Middle \in Int
    BY <1>1, <1>3 DEF Slots
  <2>2. \A a, b \in Slots : a < b => items[a].key < items[b].key
    BY DEF DictInv, Sorted
  <2>3. CASE Middle <= i
    <3>1. items'[i] = items[i + 1] /\ items'[j] = items[j + 1]
      <4>1. Middle <= j
        BY <2>1, <2>3
      <4>. QED  BY <1>5, <2>3, <4>1
    <3>2. i + 1 < j + 1
      BY <2>1
    <3>. QED  BY <2>1, <2>2, <3>1, <3>2
  <2>4. CASE ~(Middle <= i) /\ Middle <= j
    BY <1>5, <2>1, <2>2, <2>4
  <2>5. CASE ~(Middle <= i) /\ ~(Middle <= j)
    BY <1>5, <2>1, <2>2, <2>5
  <2>. QED  BY <2>1, <2>3, <2>4, <2>5
<1>. QED  BY <1>6, <1>8, <1>9 DEF DictInv, Bisects

THEOREM DictStepInv == DictInv /\ [DictNext]_dict_vars => DictInv'
<1>. SUFFICES ASSUME DictInv, [DictNext]_dict_vars PROVE DictInv'
  OBVIOUS
<1>1. CASE Turn
  BY <1>1, GoLeftInv, GoRightInv, FindInv, InsertPresentInv, InsertAbsentInv,
     RemovePresentInv DEF Turn
<1>2. CASE DictClear \/ DictFree
  BY <1>2, DictClearInv, DictFreeInv
<1>3. CASE \E n \in 0..MaxCap : DictReserve(n)
  BY <1>3, DictReserveInv
<1>4. CASE \E c \in Calls : DictCall(c)
  BY <1>4, DictCallInv
<1>5. CASE UNCHANGED dict_vars
  BY <1>5 DEF dict_vars, DictInv, DictTypeOK, Slots, Sorted, Bisects
<1>. QED  BY <1>1, <1>2, <1>3, <1>4, <1>5 DEF DictNext

\* In every behaviour the array is sorted without duplicates, and a search
\* excludes only what is not the key (dict.c:37-61).
THEOREM DictInvHolds == DictSpec => []DictInv
<1>1. DictInit => DictInv
  BY DictInitInv
<1>2. DictInv /\ [DictNext]_dict_vars => DictInv'
  BY DictStepInv
<1>. QED  BY <1>1, <1>2, PTL DEF DictSpec

-----------------------------------------------------------------------------
(* The map.                                                                *)

\* The map is a function on the keys, whatever the slots hold.
LEMMA ContentsDomain ==
  /\ DictContents = [k \in Keys |-> DictContents[k]]
  /\ DictContents' = [k \in Keys |-> DictContents'[k]]
<1>1. /\ DictContents = ContentsOf(items, dict_size)
      /\ DictContents' = ContentsOf(items', dict_size')
  BY DEF DictContents
<1>2. \A slots, n : ContentsOf(slots, n) = [k \in Keys |-> ContentsOf(slots, n)[k]]
  BY DEF ContentsOf
<1>. QED  BY <1>1, <1>2

\* The same slots make the same map.
LEMMA ContentsSame ==
  ASSUME dict_size' = dict_size, \A i \in Slots : items'[i] = items[i]
  PROVE  DictContents' = DictContents
BY DEF DictContents, ContentsOf, Slots

\* A search that ends at a slot has found the value of the key.
LEMMA FoundPresent ==
  ASSUME DictInv, Present
  PROVE  DictContents[call.key] = items[Middle].val /\ call.key \in Keys
<1>1. Middle \in 0..dict_size - 1 /\ items[Middle].key = call.key /\ call \in Calls
  BY SearchInSlots DEF Present, Slots
<1>2. call.key \in Keys /\ dict_size \in Nat
  BY <1>1 DEF Calls, DictInv, DictTypeOK
<1>. QED  BY <1>1, <1>2, SortedDiffers, ContentsAt DEF DictContents

\* A search that ends elsewhere has found that the key has none.
LEMMA FoundAbsent ==
  ASSUME DictInv, Absent
  PROVE  DictContents[call.key] = Missing /\ call.key \in Keys
<1>1. /\ l \in 0..dict_size /\ dict_size \in Nat
      /\ call.key \in Keys /\ call.key \in Int
      /\ \A i \in 0..l - 1 : items[i].key < call.key
      /\ \A i \in l..dict_size - 1 : items[i].key > call.key
      /\ \A i \in Slots : items[i].key \in Int
  BY PlaceOfAbsent
<1>2. ASSUME NEW i \in 0..dict_size - 1 PROVE items[i].key # call.key
  BY <1>1 DEF Slots
<1>. QED  BY <1>1, <1>2, ContentsAway DEF DictContents

\* What the map has at a key, read from the slots after a step.
LEMMA ContentsAfter ==
  ASSUME DictInv', NEW k \in Keys
  PROVE  /\ \A i \in Slots' : items'[i].key = k => DictContents'[k] = items'[i].val
         /\ (\A i \in Slots' : items'[i].key # k) => DictContents'[k] = Missing
<1>1. dict_size' \in Nat /\ Slots' = 0..dict_size' - 1
      /\ DictContents' = ContentsOf(items', dict_size')
  BY DEF DictInv, DictTypeOK, Slots, DictContents
<1>2. \A i, j \in 0..dict_size' - 1 : i < j => items'[i].key # items'[j].key
  <2>. SUFFICES ASSUME NEW i \in Slots', NEW j \in Slots', i < j
                PROVE  items'[i].key # items'[j].key
    BY <1>1
  <2>1. items'[i].key \in Int /\ items'[j].key \in Int
    BY DictAssumption DEF DictInv, Item
  <2>. QED  BY <2>1 DEF DictInv, Sorted
<1>3. ASSUME NEW i \in Slots', items'[i].key = k
      PROVE  DictContents'[k] = items'[i].val
  BY <1>1, <1>2, <1>3, ContentsAt
<1>4. ASSUME \A i \in Slots' : items'[i].key # k PROVE DictContents'[k] = Missing
  BY <1>1, <1>4, ContentsAway
<1>. QED  BY <1>3, <1>4

\* And before it.
LEMMA ContentsBefore ==
  ASSUME DictInv, NEW k \in Keys
  PROVE  /\ \A i \in Slots : items[i].key = k => DictContents[k] = items[i].val
         /\ (\A i \in Slots : items[i].key # k) => DictContents[k] = Missing
<1>1. dict_size \in Nat /\ Slots = 0..dict_size - 1
      /\ DictContents = ContentsOf(items, dict_size)
  BY DEF DictInv, DictTypeOK, Slots, DictContents
<1>2. ASSUME NEW i \in Slots, items[i].key = k PROVE DictContents[k] = items[i].val
  BY <1>1, <1>2, SortedDiffers, ContentsAt
<1>3. ASSUME \A i \in Slots : items[i].key # k PROVE DictContents[k] = Missing
  BY <1>1, <1>3, ContentsAway
<1>. QED  BY <1>2, <1>3

LEMMA GetImplements ==
  ASSUME DictInv, GetPresent \/ FindAbsent
  PROVE  \E k \in Keys : AsMap!Get(k) \/ AsMap!Remove(k)
<1>1. DictContents' = DictContents
  BY ContentsSame DEF GetPresent, FindAbsent
<1>2. CASE GetPresent
  <2>1. call.key \in Keys /\ found' = DictContents[call.key]
    BY <1>2, FoundPresent DEF GetPresent
  <2>. QED  BY <1>1, <2>1 DEF AsMap!Get
<1>3. CASE FindAbsent
  <2>1. call.key \in Keys /\ found' = DictContents[call.key]
    BY <1>3, FoundAbsent DEF FindAbsent
  <2>. QED  BY <1>1, <2>1 DEF AsMap!Get
<1>. QED  BY <1>2, <1>3

LEMMA InsertPresentImplements ==
  ASSUME DictInv, InsertPresent
  PROVE  \E k \in Keys : \E v \in Strings : AsMap!Insert(k, v)
<1>. USE DEF InsertPresent, Return
<1>1. call.key \in Keys /\ found' = DictContents[call.key]
  BY FoundPresent
<1>2. /\ Middle \in Slots /\ items[Middle] \in Item /\ call \in Calls
      /\ call.op = "insert" /\ items[Middle].key = call.key
  BY SearchInSlots DEF Present
<1>3. call.val \in Strings
  BY <1>2 DEF Calls
<1>4. Slots' = Slots /\ Slots \subseteq 0..cap - 1
      /\ items \in [0..cap - 1 -> Item \union {Unset}]
  BY DEF Slots, DictInv, DictTypeOK
<1>5. /\ items'[Middle].val = call.val /\ items'[Middle].key = call.key
      /\ \A i \in Slots : i # Middle => items'[i] = items[i]
  BY <1>2, <1>4 DEF Item
<1>6. \A i \in Slots : i # Middle => items[i].key # call.key
  <2>. SUFFICES ASSUME NEW i \in Slots, i # Middle PROVE items[i].key # call.key
    OBVIOUS
  <2>1. i < Middle \/ Middle < i
    BY <1>2 DEF Slots
  <2>. QED  BY <1>2, <2>1, SortedDiffers DEF Slots
<1>7. DictInv'
  BY InsertPresentInv
<1>8. ASSUME NEW k \in Keys
      PROVE  DictContents'[k] = IF k = call.key THEN call.val ELSE DictContents[k]
  <2>1. CASE k = call.key
    BY <1>2, <1>4, <1>5, <1>7, <2>1, ContentsAfter
  <2>2. CASE k # call.key /\ \A i \in Slots : items[i].key # k
    <3>1. \A i \in Slots' : items'[i].key # k
      BY <1>4, <1>5, <2>2
    <3>. QED  BY <1>7, <2>2, <3>1, ContentsAfter, ContentsBefore
  <2>3. CASE k # call.key /\ \E i \in Slots : items[i].key = k
    <3>1. PICK i \in Slots : items[i].key = k
      BY <2>3
    <3>2. i # Middle /\ i \in Slots' /\ items'[i] = items[i]
      BY <1>2, <1>4, <1>5, <2>3, <3>1
    <3>. QED  BY <1>7, <2>3, <3>1, <3>2, ContentsAfter, ContentsBefore
  <2>. QED  BY <2>1, <2>2, <2>3
<1>9. DictContents' = [DictContents EXCEPT ![call.key] = call.val]
  BY <1>8, ContentsDomain
<1>. QED  BY <1>1, <1>3, <1>9 DEF AsMap!Insert

LEMMA InsertAbsentImplements ==
  ASSUME DictInv, InsertAbsent
  PROVE  \E k \in Keys : \E v \in Strings : AsMap!Insert(k, v)
<1>. USE DEF InsertAbsent, Return
<1>1. call.key \in Keys /\ found' = DictContents[call.key]
  BY FoundAbsent
<1>2. /\ l \in 0..dict_size /\ dict_size \in Nat /\ cap \in Nat /\ dict_size <= cap
      /\ call \in Calls
  BY PlaceOfAbsent
<1>3. call.val \in Strings
  BY <1>2 DEF Calls
<1>4. CapFor(dict_size + 1) >= dict_size + 1 /\ CapFor(dict_size + 1) \in Nat
  BY <1>2, CapForSuffices
<1>5. /\ items'[l].key = call.key /\ items'[l].val = call.val
      /\ \A i \in 0..l - 1 : items'[i] = items[i]
      /\ \A i \in l + 1..dict_size : items'[i] = items[i - 1]
  BY <1>2, <1>4 DEF Slot
<1>6. DictInv'
  BY InsertAbsentInv
<1>7. Slots = (0..l - 1) \union (l..dict_size - 1)
      /\ Slots' = (0..l - 1) \union {l} \union (l + 1..dict_size)
  BY <1>2 DEF Slots
<1>8. ASSUME NEW k \in Keys
      PROVE  DictContents'[k] = IF k = call.key THEN call.val ELSE DictContents[k]
  <2>1. CASE k = call.key
    BY <1>5, <1>6, <1>7, <2>1, ContentsAfter
  <2>2. CASE k # call.key /\ \A i \in Slots : items[i].key # k
    <3>1. \A i \in l + 1..dict_size : i - 1 \in Slots
      BY <1>2 DEF Slots
    <3>2. \A i \in Slots' : items'[i].key # k
      BY <1>5, <1>7, <2>2, <3>1
    <3>. QED  BY <1>6, <2>2, <3>2, ContentsAfter, ContentsBefore
  <2>3. CASE k # call.key /\ \E i \in Slots : items[i].key = k
    <3>1. PICK i \in Slots : items[i].key = k
      BY <2>3
    <3>2. CASE i \in 0..l - 1
      <4>1. i \in Slots' /\ items'[i] = items[i]
        BY <1>5, <1>7, <3>2
      <4>2. DictContents'[k] = items'[i].val /\ DictContents[k] = items[i].val
        BY <1>6, <3>1, <4>1, ContentsAfter, ContentsBefore
      <4>. QED  BY <2>3, <4>1, <4>2
    <3>3. CASE i \in l..dict_size - 1
      <4>1. i + 1 \in l + 1..dict_size /\ (i + 1) - 1 = i
        BY <1>2, <3>3
      <4>2. i + 1 \in Slots' /\ items'[i + 1] = items[i]
        BY <1>5, <1>7, <4>1
      <4>3. DictContents'[k] = items'[i + 1].val /\ DictContents[k] = items[i].val
        BY <1>6, <3>1, <4>2, ContentsAfter, ContentsBefore
      <4>. QED  BY <2>3, <4>2, <4>3
    <3>. QED  BY <1>7, <3>2, <3>3
  <2>. QED  BY <2>1, <2>2, <2>3
<1>9. DictContents' = [DictContents EXCEPT ![call.key] = call.val]
  BY <1>8, ContentsDomain
<1>. QED  BY <1>1, <1>3, <1>9 DEF AsMap!Insert

LEMMA RemovePresentImplements ==
  ASSUME DictInv, RemovePresent
  PROVE  \E k \in Keys : AsMap!Remove(k)
<1>. USE DEF RemovePresent, Return
<1>1. call.key \in Keys /\ found' = DictContents[call.key]
  BY FoundPresent
<1>2. Middle \in Slots /\ items[Middle].key = call.key
  BY SearchInSlots DEF Present
<1>3. dict_size \in Nat /\ cap \in Nat /\ dict_size <= cap /\ Middle \in Int
  BY <1>2 DEF DictInv, DictTypeOK, Slots
<1>4. /\ Slots = 0..dict_size - 1 /\ Slots' = 0..dict_size - 2
  BY <1>3 DEF Slots
<1>5. \A i \in Slots' : items'[i] = IF Middle <= i THEN items[i + 1] ELSE items[i]
  BY <1>3, <1>4
<1>6. DictInv'
  BY RemovePresentInv
<1>7. \A i \in Slots : i # Middle => items[i].key # call.key
  <2>. SUFFICES ASSUME NEW i \in Slots, i # Middle PROVE items[i].key # call.key
    OBVIOUS
  <2>1. i < Middle \/ Middle < i
    BY <1>2 DEF Slots
  <2>. QED  BY <1>2, <2>1, SortedDiffers DEF Slots
<1>8. \A i \in Slots' : \E j \in Slots : j # Middle /\ items'[i] = items[j]
  <2>. SUFFICES ASSUME NEW i \in Slots'
                PROVE  \E j \in Slots : j # Middle /\ items'[i] = items[j]
    OBVIOUS
  <2>1. CASE Middle <= i
    <3>1. i + 1 \in Slots /\ i + 1 # Middle
      BY <1>3, <1>4, <2>1
    <3>. QED  BY <1>5, <2>1, <3>1
  <2>2. CASE ~(Middle <= i)
    <3>1. i \in Slots /\ i # Middle
      BY <1>3, <1>4, <2>2
    <3>. QED  BY <1>5, <2>2, <3>1
  <2>. QED  BY <2>1, <2>2
<1>9. ASSUME NEW j \in Slots, j # Middle PROVE \E i \in Slots' : items'[i] = items[j]
  <2>1. CASE j < Middle
    <3>1. j \in Slots' /\ ~(Middle <= j)
      BY <1>2, <1>3, <1>4, <2>1
    <3>. QED  BY <1>5, <3>1
  <2>2. CASE Middle < j
    <3>1. j - 1 \in Slots' /\ Middle <= j - 1 /\ (j - 1) + 1 = j
      BY <1>2, <1>3, <1>4, <2>2
    <3>. QED  BY <1>5, <3>1
  <2>3. j < Middle \/ Middle < j
    BY <1>3, <1>4, <1>9
  <2>. QED  BY <2>1, <2>2, <2>3
<1>10. ASSUME NEW k \in Keys
       PROVE  DictContents'[k] = IF k = call.key THEN Missing ELSE DictContents[k]
  <2>1. CASE k = call.key
    <3>1. \A i \in Slots' : items'[i].key # k
      BY <1>7, <1>8, <2>1
    <3>. QED  BY <1>6, <2>1, <3>1, ContentsAfter
  <2>2. CASE k # call.key /\ \A i \in Slots : items[i].key # k
    <3>1. \A i \in Slots' : items'[i].key # k
      BY <1>8, <2>2
    <3>. QED  BY <1>6, <2>2, <3>1, ContentsAfter, ContentsBefore
  <2>3. CASE k # call.key /\ \E i \in Slots : items[i].key = k
    <3>1. PICK j \in Slots : items[j].key = k
      BY <2>3
    <3>2. PICK i \in Slots' : items'[i] = items[j]
      BY <1>2, <1>9, <2>3, <3>1
    <3>3. DictContents'[k] = items'[i].val
      BY <1>6, <3>1, <3>2, ContentsAfter
    <3>4. DictContents[k] = items[j].val
      BY <3>1, ContentsBefore
    <3>. QED  BY <2>3, <3>2, <3>3, <3>4
  <2>. QED  BY <2>1, <2>2, <2>3
<1>11. DictContents' = [DictContents EXCEPT ![call.key] = Missing]
  BY <1>10, ContentsDomain
<1>. QED  BY <1>1, <1>11 DEF AsMap!Remove

\* Emptying the array empties the map.
LEMMA ClearImplements ==
  ASSUME DictInv, DictClear \/ DictFree
  PROVE  AsMap!Clear
<1>1. dict_size' = 0 /\ found' = found
  BY DEF DictClear, DictFree
<1>2. DictContents' = [k \in Keys |-> Missing]
  BY <1>1 DEF DictContents, ContentsOf
<1>. QED  BY <1>1, <1>2 DEF AsMap!Clear

\* Making room and searching change nothing of the map.
LEMMA OtherStepsStutter ==
  ASSUME DictInv,
         \/ GoLeft \/ GoRight
         \/ \E n \in 0..MaxCap : DictReserve(n)
         \/ \E c \in Calls : DictCall(c)
         \/ UNCHANGED dict_vars
  PROVE  UNCHANGED <<DictContents, found>>
<1>1. CASE GoLeft \/ GoRight \/ (\E c \in Calls : DictCall(c)) \/ UNCHANGED dict_vars
  <2>1. items' = items /\ dict_size' = dict_size /\ found' = found
    BY <1>1 DEF GoLeft, GoRight, DictCall, dict_vars
  <2>. QED  BY <2>1, ContentsSame
<1>2. CASE \E n \in 0..MaxCap : DictReserve(n)
  <2>1. PICK n \in 0..MaxCap : DictReserve(n)
    BY <1>2
  <2>2. /\ n \in Nat /\ cap \in Nat /\ dict_size \in 0..cap
        /\ dict_size' = dict_size /\ found' = found
    BY <2>1, DictAssumption DEF DictReserve, DictInv, DictTypeOK
  <2>3. CapFor(n) \in Nat /\ CapFor(n) >= cap
    BY <2>2, CapForSuffices
  <2>4. \A i \in Slots : items'[i] = items[i]
    BY <2>1, <2>2, <2>3 DEF DictReserve, Slots, Slot
  <2>. QED  BY <2>2, <2>4, ContentsSame
<1>. QED  BY <1>1, <1>2

\* Every step of dict.c is one of the finite map, or leaves it alone.
THEOREM DictStepImplements ==
  DictInv /\ [DictNext]_dict_vars => [AsMap!Next]_<<DictContents, found>>
<1>. SUFFICES ASSUME DictInv, [DictNext]_dict_vars
              PROVE  AsMap!Next \/ UNCHANGED <<DictContents, found>>
  OBVIOUS
<1>1. CASE GetPresent \/ FindAbsent
  BY <1>1, GetImplements DEF AsMap!Next
<1>2. CASE InsertPresent \/ InsertAbsent
  BY <1>2, InsertPresentImplements, InsertAbsentImplements DEF AsMap!Next
<1>3. CASE RemovePresent
  BY <1>3, RemovePresentImplements DEF AsMap!Next
<1>4. CASE DictClear \/ DictFree
  BY <1>4, ClearImplements DEF AsMap!Next
<1>5. CASE \/ GoLeft \/ GoRight
           \/ \E n \in 0..MaxCap : DictReserve(n)
           \/ \E c \in Calls : DictCall(c)
           \/ UNCHANGED dict_vars
  BY <1>5, OtherStepsStutter
<1>. QED  BY <1>1, <1>2, <1>3, <1>4, <1>5 DEF DictNext, Turn

\* dict.c implements the finite map: no call loses, repeats or misplaces a key
\* (dict.c:63-109).
THEOREM DictImplementsMap == DictSpec => DictIsMap
<1>1. DictInit => AsMap!Init
  BY DEF DictInit, AsMap!Init, DictContents, ContentsOf
<1>2. DictInv /\ [DictNext]_dict_vars => [AsMap!Next]_<<DictContents, found>>
  BY DictStepImplements
<1>. QED  BY <1>1, <1>2, DictInvHolds, PTL DEF DictSpec, DictIsMap, AsMap!Spec

-----------------------------------------------------------------------------
(***************************************************************************)
(* The table is a finite map, whatever the hash, and a loop over it gets   *)
(* each entry once.                                                        *)
(***************************************************************************)

Member(chain, e) == \E p \in 1..Len(chain) : chain[p] = e

DistinctKeys(chain) == \A p, q \in 1..Len(chain) : chain[p].key = chain[q].key => p = q

Stores(table, e) == \E i \in DOMAIN table : Member(table[i], e)

\* What the map has, on either side of a resize.
Holds(e) == Stores(buckets, e) \/ Stores(old_buckets, e)

MapTypes ==
  /\ n_buckets \in Nat
  /\ buckets \in [0..n_buckets - 1 -> Seq(Entry)]
  /\ \E m \in Nat : old_buckets \in [0..m - 1 -> Seq(Entry)]
  /\ old_i \in Nat
  /\ inserting \in Entry \union {NotInserting}
  /\ answer \in Objects \union {NoObject}
  /\ iter \in [i : Nat, pos : Nat] \union {NoIter}
  /\ visited \in Seq(Ids)

\* An entry is in the chain of its key, which has it once; the buckets are as
\* many as the shift in get_index is made for.
Placed ==
  /\ n_buckets # 0 => WordSize % n_buckets = 0
  /\ \A i \in 0..n_buckets - 1 :
       /\ DistinctKeys(buckets[i])
       /\ \A e \in Entry : Member(buckets[i], e) => GetIndex(e.key, n_buckets) = i

\* What has not been moved has other keys than what has, and than each other.
OldApart ==
  /\ \A i \in DOMAIN old_buckets : DistinctKeys(old_buckets[i])
  /\ \A i, j \in DOMAIN old_buckets : \A e, f \in Entry :
       Member(old_buckets[i], e) /\ Member(old_buckets[j], f) /\ e.key = f.key => i = j
  /\ \A e, f \in Entry : Stores(buckets, e) /\ Stores(old_buckets, f) => e.key # f.key

\* A bucket that the resize has left is empty.
Moved ==
  /\ inserting = NotInserting => old_buckets = NoBuckets
  /\ inserting # NotInserting => n_buckets # 0 /\ iter = NoIter
  /\ \A i \in DOMAIN old_buckets : i < old_i => old_buckets[i] = <<>>

\* The places a loop has passed.
Passed(i, p) == i < iter.i \/ (i = iter.i /\ p <= iter.pos)

\* The loop has been given the keys of the places it has passed.
LoopInv ==
  iter # NoIter =>
    /\ IF n_buckets = 0 THEN iter.i = 0 /\ iter.pos = 0
                        ELSE iter.i < n_buckets /\ iter.pos <= Len(buckets[iter.i])
    /\ \A p, q \in 1..Len(visited) : visited[p] = visited[q] => p = q
    /\ \A k \in Ids :
         (\E q \in 1..Len(visited) : visited[q] = k) <=>
           \E i \in 0..n_buckets - 1 : \E p \in 1..Len(buckets[i]) :
             buckets[i][p].key = k /\ Passed(i, p)

TableInv == MapTypes /\ Placed /\ OldApart /\ Moved

-----------------------------------------------------------------------------
(* The hash.                                                               *)

LEMMA DivIs ==
  ASSUME NEW x \in Int, NEW d \in Int, d > 0
  PROVE  /\ x \div d \in Int
         /\ d * (x \div d) <= x
         /\ x < d * (x \div d) + d
<1>1. x \div d \in Int
  BY Z3
<1>2. d * (x \div d) <= x /\ x < d * (x \div d) + d
  BY Z3
<1>. QED  BY <1>1, <1>2

LEMMA DividesIs ==
  ASSUME NEW x \in Int, NEW d \in Int, d > 0, x % d = 0
  PROVE  d * (x \div d) = x
BY Z3

\* A product of w bits has its upper bits in the range of the buckets.
LEMMA UpperBits ==
  ASSUME NEW w \in Nat \ {0}, NEW n \in Nat \ {0}, w % n = 0, NEW x \in 0..w - 1
  PROVE  x \div (w \div n) \in 0..n - 1
<1>. DEFINE d == w \div n
            q == x \div d
<1>1. d \in Int /\ n * d = w
  BY DivIs, DividesIs
<1>. HIDE DEF d
<1>2. d > 0
  <2>. SUFFICES ASSUME d <= 0 PROVE FALSE
    BY <1>1
  <2>1. n * (-d) \in Nat
    BY <1>1
  <2>2. n * (-d) = -(n * d)
    BY <1>1
  <2>. QED  BY <1>1, <2>1, <2>2
<1>3. q \in Int /\ d * q <= x /\ x < d * q + d
  BY <1>1, <1>2, DivIs
<1>. HIDE DEF q
<1>4. q < n
  <2>. SUFFICES ASSUME q >= n PROVE FALSE
    BY <1>3
  <2>1. q - n \in Nat /\ d \in Nat
    BY <1>1, <1>2, <1>3
  <2>2. d * (q - n) \in Nat
    BY <2>1
  <2>3. d * (q - n) = d * q - n * d
    BY <1>1, <1>3
  <2>4. d * q \in Int
    BY <1>1, <1>3
  <2>. QED  BY <1>1, <1>3, <2>2, <2>3, <2>4
<1>5. q >= 0
  <2>. SUFFICES ASSUME q < 0 PROVE FALSE
    BY <1>3
  <2>1. -1 - q \in Nat /\ d \in Nat
    BY <1>1, <1>2, <1>3
  <2>2. d * (-1 - q) \in Nat
    BY <2>1
  <2>3. d * (-1 - q) = -d - d * q
    BY <1>1, <1>3
  <2>4. d * q \in Int
    BY <1>1, <1>3
  <2>. QED  BY <1>1, <1>3, <2>2, <2>3, <2>4
<1>. QED  BY <1>3, <1>4, <1>5 DEF q, d

LEMMA IndexIs ==
  ASSUME NEW k \in Ids, NEW n \in Nat \ {0}, WordSize % n = 0
  PROVE  GetIndex(k, n) \in 0..n - 1
<1>. DEFINE y == k * Knuth
            x == y % WordSize
<1>1. k \in Nat /\ Knuth \in Nat /\ WordSize \in Nat \ {0}
  BY MapAssumption
<1>2. y \in Nat
  BY <1>1
<1>. HIDE DEF y
<1>3. x \in 0..WordSize - 1
  BY <1>1, <1>2
<1>. HIDE DEF x
<1>4. x \div (WordSize \div n) \in 0..n - 1
  BY <1>1, <1>3, UpperBits
<1>. QED  BY <1>4 DEF GetIndex, x, y

-----------------------------------------------------------------------------
(* Chains.                                                                 *)

LEMMA ChainAppend ==
  ASSUME NEW s \in Seq(Entry), NEW x \in Entry
  PROVE  /\ Append(s, x) \in Seq(Entry)
         /\ \A e : Member(Append(s, x), e) <=> Member(s, e) \/ e = x
         /\ DistinctKeys(s) /\ (\A e \in Entry : Member(s, e) => e.key # x.key)
              => DistinctKeys(Append(s, x))
<1>. DEFINE t == Append(s, x)
<1>1. /\ t \in Seq(Entry) /\ Len(t) = Len(s) + 1 /\ Len(s) \in Nat
      /\ \A p \in 1..Len(s) : t[p] = s[p] /\ s[p] \in Entry
      /\ t[Len(s) + 1] = x
  BY AppendProperties, LenProperties, ElementOfSeq
<1>. HIDE DEF t
<1>2. \A p \in 1..Len(t) : p \in 1..Len(s) \/ p = Len(s) + 1
  BY <1>1
<1>3. (\A p \in 1..Len(s) : p \in 1..Len(t)) /\ Len(s) + 1 \in 1..Len(t)
  BY <1>1
<1>4. ASSUME NEW e PROVE Member(t, e) <=> Member(s, e) \/ e = x
  BY <1>1, <1>2, <1>3 DEF Member
<1>5. ASSUME DistinctKeys(s), \A e \in Entry : Member(s, e) => e.key # x.key
      PROVE  DistinctKeys(t)
  <2>1. \A p \in 1..Len(s) : t[p].key # x.key
    BY <1>1, <1>5 DEF Member
  <2>. QED  BY <1>1, <1>2, <1>5, <2>1 DEF DistinctKeys
<1>. QED  BY <1>1, <1>4, <1>5 DEF t

LEMMA ChainTail ==
  ASSUME NEW s \in Seq(Entry), s # <<>>
  PROVE  /\ Tail(s) \in Seq(Entry) /\ Head(s) \in Entry /\ Member(s, Head(s))
         /\ \A e : Member(s, e) <=> e = Head(s) \/ Member(Tail(s), e)
         /\ DistinctKeys(s) => DistinctKeys(Tail(s))
         /\ DistinctKeys(s) => \A e : Member(Tail(s), e) => e.key # Head(s).key
<1>. DEFINE t == Tail(s)
<1>1. /\ t \in Seq(Entry) /\ Len(t) = Len(s) - 1 /\ Len(s) \in Nat \ {0}
      /\ \A p \in 1..Len(s) - 1 : t[p] = s[p + 1]
      /\ Head(s) = s[1] /\ Head(s) \in Entry
  OBVIOUS
<1>. HIDE DEF t
<1>2. \A p \in 1..Len(t) : p + 1 \in 1..Len(s) /\ p + 1 # 1 /\ t[p] = s[p + 1]
  BY <1>1
<1>3. 1 \in 1..Len(s) /\ \A p \in 1..Len(s) : p = 1 \/ (p - 1 \in 1..Len(t) /\ t[p - 1] = s[p])
  <2>. SUFFICES ASSUME NEW p \in 1..Len(s), p # 1
                PROVE  p - 1 \in 1..Len(t) /\ t[p - 1] = s[p]
    BY <1>1
  <2>1. p - 1 \in 1..Len(s) - 1 /\ p - 1 + 1 = p
    BY <1>1
  <2>. QED  BY <1>1, <2>1
<1>4. ASSUME NEW e PROVE Member(s, e) <=> e = Head(s) \/ Member(t, e)
  BY <1>1, <1>2, <1>3 DEF Member
<1>5. ASSUME DistinctKeys(s) PROVE DistinctKeys(t)
  <2>. SUFFICES ASSUME NEW p \in 1..Len(t), NEW q \in 1..Len(t), t[p].key = t[q].key
                PROVE  p = q
    BY DEF DistinctKeys
  <2>1. p + 1 = q + 1
    BY <1>2, <1>5 DEF DistinctKeys
  <2>. QED  BY <1>1, <2>1
<1>6. ASSUME DistinctKeys(s), NEW e, Member(t, e) PROVE e.key # Head(s).key
  BY <1>1, <1>2, <1>3, <1>6 DEF Member, DistinctKeys
<1>. QED  BY <1>1, <1>3, <1>4, <1>5, <1>6 DEF t, Member

LEMMA ChainCut ==
  ASSUME NEW s \in Seq(Entry), NEW at \in 1..Len(s), DistinctKeys(s)
  PROVE  /\ Cut(s, at) \in Seq(Entry)
         /\ \A e : Member(Cut(s, at), e) <=> Member(s, e) /\ e # s[at]
         /\ DistinctKeys(Cut(s, at))
<1>. DEFINE a == SubSeq(s, 1, at - 1)
            b == SubSeq(s, at + 1, Len(s))
            t == a \o b
<1>1. Len(s) \in Nat /\ at \in Nat /\ 1 <= at /\ at <= Len(s) /\ DOMAIN s = 1..Len(s)
  BY LenProperties
<1>2. /\ a \in Seq(Entry) /\ Len(a) = at - 1
      /\ \A p \in 1..at - 1 : a[p] = s[p]
  <2>1. at - 1 \in Int /\ \A p \in 1..at - 1 : p \in 1..Len(s) /\ 1 + p - 1 = p
    BY <1>1
  <2>2. a \in Seq(Entry) /\ Len(a) = at - 1 /\ \A p \in 1..at - 1 : a[p] = s[1 + p - 1]
    BY <1>1, <2>1, SubSeqProperties
  <2>. QED  BY <2>1, <2>2
<1>3. /\ b \in Seq(Entry) /\ Len(b) = Len(s) - at
      /\ \A p \in 1..Len(s) - at : b[p] = s[at + p]
  <2>1. \A p \in at + 1..Len(s) : p \in 1..Len(s)
    BY <1>1
  <2>2. /\ b \in Seq(Entry)
        /\ Len(b) = IF at + 1 <= Len(s) THEN Len(s) - (at + 1) + 1 ELSE 0
        /\ \A p \in 1..Len(s) - (at + 1) + 1 : b[p] = s[at + 1 + p - 1]
    BY <1>1, <2>1, SubSeqProperties
  <2>. HIDE DEF b
  <2>3. Len(s) - (at + 1) + 1 = Len(s) - at /\ \A p \in 1..Len(s) - at : at + 1 + p - 1 = at + p
    BY <1>1
  <2>4. Len(b) = Len(s) - at
    <3>1. CASE at + 1 <= Len(s)
      BY <1>1, <2>2, <3>1
    <3>2. CASE ~(at + 1 <= Len(s))
      <4>1. Len(b) = 0
        BY <2>2, <3>2, Zenon
      <4>2. ASSUME NEW i \in Nat, NEW j \in Nat, i <= j, ~(i + 1 <= j) PROVE j - i = 0
        BY <4>2
      <4>3. Len(s) - at = 0
        BY <1>1, <3>2, <4>2
      <4>. QED  BY <4>1, <4>3
    <3>. QED  BY <3>1, <3>2
  <2>5. \A p \in 1..Len(s) - at : b[p] = s[at + p]
    BY <2>2, <2>3
  <2>. QED  BY <2>2, <2>4, <2>5
<1>. HIDE DEF a, b
<1>4. /\ t \in Seq(Entry) /\ Len(t) = Len(s) - 1
      /\ \A p \in 1..Len(s) - 1 : t[p] = IF p < at THEN s[p] ELSE s[p + 1]
  <2>1. /\ t \in Seq(Entry) /\ Len(t) = Len(a) + Len(b)
        /\ \A p \in 1..Len(a) + Len(b) : t[p] = IF p <= Len(a) THEN a[p] ELSE b[p - Len(a)]
    BY <1>2, <1>3, ConcatProperties
  <2>. HIDE DEF t
  <2>2. ASSUME NEW p \in 1..Len(s) - 1 PROVE t[p] = IF p < at THEN s[p] ELSE s[p + 1]
    <3>1. CASE p < at
      <4>1. p \in 1..Len(a) + Len(b) /\ p <= Len(a) /\ p \in 1..at - 1
        BY <1>1, <1>2, <1>3, <3>1
      <4>. QED  BY <1>2, <2>1, <3>1, <4>1
    <3>2. CASE ~(p < at)
      <4>1. p \in 1..Len(a) + Len(b) /\ ~(p <= Len(a)) /\ p - Len(a) \in 1..Len(s) - at
            /\ at + (p - Len(a)) = p + 1
        BY <1>1, <1>2, <1>3, <3>2
      <4>. QED  BY <1>3, <2>1, <3>2, <4>1
    <3>. QED  BY <3>1, <3>2
  <2>. QED  BY <1>1, <1>2, <1>3, <2>1, <2>2
<1>5. Cut(s, at) = t
  BY DEF Cut, t, a, b
<1>. HIDE DEF t
<1>6. ASSUME NEW p \in 1..Len(t)
      PROVE  \E q \in 1..Len(s) : q # at /\ t[p] = s[q] /\ q = IF p < at THEN p ELSE p + 1
  BY <1>1, <1>4
<1>7. ASSUME NEW q \in 1..Len(s), q # at PROVE \E p \in 1..Len(t) : t[p] = s[q]
  <2>1. CASE q < at
    BY <1>1, <1>4, <2>1
  <2>2. CASE q > at
    <3>1. q - 1 \in 1..Len(s) - 1 /\ ~(q - 1 < at) /\ q - 1 + 1 = q
      BY <1>1, <2>2
    <3>. QED  BY <1>4, <3>1
  <2>. QED  BY <1>1, <1>7, <2>1, <2>2
<1>8. ASSUME NEW e PROVE Member(t, e) <=> Member(s, e) /\ e # s[at]
  <2>1. ASSUME NEW p \in 1..Len(t), t[p] = e PROVE Member(s, e) /\ e # s[at]
    <3>1. PICK q \in 1..Len(s) : q # at /\ t[p] = s[q]
      BY <1>6
    <3>. QED  BY <2>1, <3>1 DEF Member, DistinctKeys
  <2>2. ASSUME NEW q \in 1..Len(s), s[q] = e, e # s[at] PROVE Member(t, e)
    BY <1>7, <2>2 DEF Member
  <2>. QED  BY <2>1, <2>2 DEF Member
<1>9. DistinctKeys(t)
  <2>. SUFFICES ASSUME NEW p \in 1..Len(t), NEW q \in 1..Len(t), t[p].key = t[q].key
                PROVE  p = q
    BY DEF DistinctKeys
  <2>1. PICK i \in 1..Len(s) : t[p] = s[i] /\ i = IF p < at THEN p ELSE p + 1
    BY <1>6
  <2>2. PICK j \in 1..Len(s) : t[q] = s[j] /\ j = IF q < at THEN q ELSE q + 1
    BY <1>6
  <2>3. i = j
    BY <2>1, <2>2 DEF DistinctKeys
  <2>. QED  BY <1>1, <1>4, <2>1, <2>2, <2>3
<1>. QED  BY <1>4, <1>5, <1>8, <1>9

LEMMA ChainPut ==
  ASSUME NEW s \in Seq(Entry), NEW at \in 1..Len(s), DistinctKeys(s),
         NEW x \in Entry, x.key = s[at].key
  PROVE  /\ [s EXCEPT ![at] = x] \in Seq(Entry)
         /\ \A e \in Entry : Member([s EXCEPT ![at] = x], e) <=>
              (Member(s, e) /\ e.key # x.key) \/ e = x
         /\ DistinctKeys([s EXCEPT ![at] = x])
<1>. DEFINE t == [s EXCEPT ![at] = x]
<1>1. Len(s) \in Nat /\ DOMAIN s = 1..Len(s) /\ \A p \in 1..Len(s) : s[p] \in Entry
  BY LenProperties, ElementOfSeq
<1>2. /\ t \in Seq(Entry) /\ Len(t) = Len(s)
      /\ \A p \in 1..Len(s) : t[p] = IF p = at THEN x ELSE s[p]
  BY <1>1, ExceptSeq
<1>. HIDE DEF t
<1>3. ASSUME NEW e \in Entry PROVE Member(t, e) <=> (Member(s, e) /\ e.key # x.key) \/ e = x
  <2>1. ASSUME NEW p \in 1..Len(s), t[p] = e PROVE (Member(s, e) /\ e.key # x.key) \/ e = x
    <3>1. CASE p = at
      BY <1>2, <2>1, <3>1
    <3>2. CASE p # at
      BY <1>2, <2>1, <3>2 DEF Member, DistinctKeys
    <3>. QED  BY <3>1, <3>2
  <2>2. ASSUME NEW p \in 1..Len(s), s[p] = e, e.key # x.key PROVE Member(t, e)
    <3>1. p # at
      BY <2>2
    <3>. QED  BY <1>2, <2>2, <3>1 DEF Member
  <2>3. Member(t, x)
    BY <1>2 DEF Member
  <2>. QED  BY <1>2, <2>1, <2>2, <2>3 DEF Member
<1>4. \A p \in 1..Len(s) : t[p].key = s[p].key
  BY <1>2
<1>5. DistinctKeys(t)
  BY <1>2, <1>4 DEF DistinctKeys
<1>. QED  BY <1>2, <1>3, <1>5 DEF t

-----------------------------------------------------------------------------
(* Tables.                                                                 *)

\* One chain of a table is changed.
LEMMA OneChain ==
  ASSUME NEW n \in Nat, NEW table \in [0..n - 1 -> Seq(Entry)], NEW g \in 0..n - 1,
         NEW c \in Seq(Entry), NEW changed, changed = [table EXCEPT ![g] = c]
  PROVE  /\ changed \in [0..n - 1 -> Seq(Entry)]
         /\ changed[g] = c /\ \A i \in 0..n - 1 : i # g => changed[i] = table[i]
         /\ \A e : Stores(changed, e) <=>
              Member(c, e) \/ \E i \in 0..n - 1 : i # g /\ Member(table[i], e)
<1>1. /\ changed \in [0..n - 1 -> Seq(Entry)] /\ DOMAIN changed = 0..n - 1
      /\ changed[g] = c /\ \A i \in 0..n - 1 : i # g => changed[i] = table[i]
  OBVIOUS
<1>. QED  BY <1>1 DEF Stores

\* What a table has, by key.
LEMMA TableKeys ==
  ASSUME NEW n \in Nat, NEW table \in [0..n - 1 -> Seq(Entry)], NEW k
  PROVE  /\ k \in KeysIn(table) <=> \E e \in Entry : Stores(table, e) /\ e.key = k
         /\ k \in KeysIn(table) =>
              \E e \in Entry : Stores(table, e) /\ e.key = k /\ ValueIn(table, k) = e.val
<1>1. \A i \in 0..n - 1 : /\ DOMAIN table[i] = 1..Len(table[i])
                          /\ \A p \in 1..Len(table[i]) : table[i][p] \in Entry
  BY LenProperties, ElementOfSeq
<1>2. DOMAIN table = 0..n - 1
  OBVIOUS
<1>3. \A x \in Places(table) : \E i \in 0..n - 1 : \E p \in 1..Len(table[i]) :
        x = <<i, p>> /\ EntryAt(table, x) = table[i][p]
  <2>. SUFFICES ASSUME NEW x \in Places(table)
                PROVE  \E i \in 0..n - 1 : \E p \in 1..Len(table[i]) :
                         x = <<i, p>> /\ EntryAt(table, x) = table[i][p]
    OBVIOUS
  <2>1. PICK i \in 0..n - 1 : x \in {i} \X DOMAIN table[i]
    BY <1>2 DEF Places
  <2>2. PICK p \in 1..Len(table[i]) : x = <<i, p>>
    BY <1>1, <2>1
  <2>. QED  BY <2>2 DEF EntryAt
<1>4. \A i \in 0..n - 1 : \A p \in 1..Len(table[i]) :
        <<i, p>> \in Places(table) /\ EntryAt(table, <<i, p>>) = table[i][p]
  <2>. SUFFICES ASSUME NEW i \in 0..n - 1, NEW p \in 1..Len(table[i])
                PROVE  <<i, p>> \in Places(table) /\ EntryAt(table, <<i, p>>) = table[i][p]
    OBVIOUS
  <2>1. <<i, p>> \in {i} \X DOMAIN table[i]
    BY <1>1
  <2>. QED  BY <1>2, <2>1 DEF Places, EntryAt
<1>5. \A x \in Places(table) : EntryAt(table, x) \in Entry /\ Stores(table, EntryAt(table, x))
  <2>. SUFFICES ASSUME NEW x \in Places(table)
                PROVE  EntryAt(table, x) \in Entry /\ Stores(table, EntryAt(table, x))
    OBVIOUS
  <2>1. PICK i \in 0..n - 1 : \E p \in 1..Len(table[i]) : EntryAt(table, x) = table[i][p]
    BY <1>3
  <2>2. PICK p \in 1..Len(table[i]) : EntryAt(table, x) = table[i][p]
    BY <2>1
  <2>. QED  BY <1>1, <1>2, <2>2 DEF Stores, Member
<1>6. \A e : Stores(table, e) => \E x \in Places(table) : EntryAt(table, x) = e
  BY <1>2, <1>4 DEF Stores, Member
<1>7. k \in KeysIn(table) <=> \E x \in Places(table) : EntryAt(table, x).key = k
  BY DEF KeysIn
<1>8. k \in KeysIn(table) <=> \E e \in Entry : Stores(table, e) /\ e.key = k
  BY <1>5, <1>6, <1>7
<1>9. ASSUME k \in KeysIn(table)
      PROVE  \E e \in Entry : Stores(table, e) /\ e.key = k /\ ValueIn(table, k) = e.val
  <2>. DEFINE x == CHOOSE x \in Places(table) : EntryAt(table, x).key = k
  <2>1. x \in Places(table) /\ EntryAt(table, x).key = k
    BY <1>7, <1>9
  <2>2. ValueIn(table, k) = EntryAt(table, x).val
    BY DEF ValueIn
  <2>. HIDE DEF x
  <2>. QED  BY <1>5, <2>1, <2>2
<1>. QED  BY <1>8, <1>9

\* A key has one entry.
LEMMA OneEntry ==
  ASSUME TableInv, NEW e \in Entry, NEW f \in Entry, Holds(e), Holds(f), e.key = f.key
  PROVE  e = f
<1>1. DOMAIN buckets = 0..n_buckets - 1
  BY DEF TableInv, MapTypes
<1>2. CASE Stores(buckets, e) /\ Stores(buckets, f)
  <2>1. PICK i \in 0..n_buckets - 1 : Member(buckets[i], e)
    BY <1>1, <1>2 DEF Stores
  <2>2. PICK j \in 0..n_buckets - 1 : Member(buckets[j], f)
    BY <1>1, <1>2 DEF Stores
  <2>3. i = j /\ DistinctKeys(buckets[i])
    BY <2>1, <2>2 DEF TableInv, Placed
  <2>. QED  BY <2>1, <2>2, <2>3 DEF Member, DistinctKeys
<1>3. CASE Stores(old_buckets, e) /\ Stores(old_buckets, f)
  <2>1. PICK i \in DOMAIN old_buckets : Member(old_buckets[i], e)
    BY <1>3 DEF Stores
  <2>2. PICK j \in DOMAIN old_buckets : Member(old_buckets[j], f)
    BY <1>3 DEF Stores
  <2>3. i = j /\ DistinctKeys(old_buckets[i])
    BY <2>1, <2>2 DEF TableInv, OldApart
  <2>. QED  BY <2>1, <2>2, <2>3 DEF Member, DistinctKeys
<1>4. ~(Stores(buckets, e) /\ Stores(old_buckets, f))
      /\ ~(Stores(buckets, f) /\ Stores(old_buckets, e))
  BY DEF TableInv, OldApart
<1>. QED  BY <1>2, <1>3, <1>4 DEF Holds

\* What the finite map has.
ContentsAreEntries ==
  \A k \in Ids :
    /\ \A e \in Entry : Holds(e) /\ e.key = k => MapContents[k] = e.val
    /\ (\A e \in Entry : Holds(e) => e.key # k) => MapContents[k] = NoObject

LEMMA ContentsAre == TableInv => ContentsAreEntries
<1>. SUFFICES ASSUME TableInv, NEW k \in Ids
              PROVE  /\ \A e \in Entry : Holds(e) /\ e.key = k => MapContents[k] = e.val
                     /\ (\A e \in Entry : Holds(e) => e.key # k) => MapContents[k] = NoObject
  BY DEF ContentsAreEntries
<1>1. /\ k \in KeysIn(buckets) <=> \E e \in Entry : Stores(buckets, e) /\ e.key = k
      /\ k \in KeysIn(buckets) =>
           \E e \in Entry : Stores(buckets, e) /\ e.key = k /\ ValueIn(buckets, k) = e.val
  BY TableKeys DEF TableInv, MapTypes
<1>2. /\ k \in KeysIn(old_buckets) <=> \E e \in Entry : Stores(old_buckets, e) /\ e.key = k
      /\ k \in KeysIn(old_buckets) =>
           \E e \in Entry : Stores(old_buckets, e) /\ e.key = k /\ ValueIn(old_buckets, k) = e.val
  <2>1. PICK m \in Nat : old_buckets \in [0..m - 1 -> Seq(Entry)]
    BY DEF TableInv, MapTypes
  <2>. QED  BY <2>1, TableKeys
<1>3. MapContents[k] = IF k \in KeysIn(buckets) THEN ValueIn(buckets, k)
                       ELSE IF k \in KeysIn(old_buckets) THEN ValueIn(old_buckets, k)
                       ELSE NoObject
  BY DEF MapContents
<1>4. ASSUME NEW e \in Entry, Holds(e), e.key = k PROVE MapContents[k] = e.val
  <2>1. PICK f \in Entry : Holds(f) /\ f.key = k /\ MapContents[k] = f.val
    BY <1>1, <1>2, <1>3, <1>4 DEF Holds
  <2>. QED  BY <1>4, <2>1, OneEntry
<1>5. ASSUME \A e \in Entry : Holds(e) => e.key # k PROVE MapContents[k] = NoObject
  BY <1>1, <1>2, <1>3, <1>5 DEF Holds
<1>. QED  BY <1>4, <1>5

LEMMA ContentsAreNext == TableInv' => ContentsAreEntries'
<1>1. TableInv => ContentsAreEntries
  BY ContentsAre
<1>. QED  BY <1>1, PTL

\* The same entries make the same map.
LEMMA SameEntries ==
  ASSUME TableInv, TableInv', \A e \in Entry : Holds(e)' <=> Holds(e)
  PROVE  MapContents' = MapContents
<1>1. /\ MapContents = [k \in Ids |-> MapContents[k]]
      /\ MapContents' = [k \in Ids |-> MapContents'[k]]
  BY DEF MapContents
<1>2. ASSUME NEW k \in Ids PROVE MapContents'[k] = MapContents[k]
  <2>1. /\ \A e \in Entry : Holds(e) /\ e.key = k => MapContents[k] = e.val
        /\ (\A e \in Entry : Holds(e) => e.key # k) => MapContents[k] = NoObject
    BY ContentsAre DEF ContentsAreEntries
  <2>2. /\ \A e \in Entry : Holds(e)' /\ e.key = k => MapContents'[k] = e.val
        /\ (\A e \in Entry : Holds(e)' => e.key # k) => MapContents'[k] = NoObject
    BY ContentsAreNext DEF ContentsAreEntries
  <2>. QED  BY <2>1, <2>2
<1>. QED  BY <1>1, <1>2


-----------------------------------------------------------------------------
(* Steps.                                                                  *)

LEMMA OldTable ==
  ASSUME TableInv
  PROVE  \E m \in Nat : old_buckets \in [0..m - 1 -> Seq(Entry)] /\ DOMAIN old_buckets = 0..m - 1
BY DEF TableInv, MapTypes

LEMMA EmptyHasNone == ASSUME NEW e PROVE ~Member(<<>>, e)
BY DEF Member

LEMMA StoresNone == ASSUME NEW e PROVE ~Stores(NoBuckets, e)
BY DEF Stores, NoBuckets

\* When nothing is being moved the entries are all in the new buckets.
LEMMA NothingOld ==
  ASSUME TableInv, inserting = NotInserting \/ old_i \notin DOMAIN old_buckets
  PROVE  \A e : ~Stores(old_buckets, e)
<1>1. CASE inserting = NotInserting
  <2>1. old_buckets = NoBuckets
    BY <1>1 DEF TableInv, Moved
  <2>. QED  BY <2>1, StoresNone
<1>2. CASE old_i \notin DOMAIN old_buckets
  <2>1. PICK m \in Nat : DOMAIN old_buckets = 0..m - 1
    BY OldTable
  <2>2. \A i \in DOMAIN old_buckets : i < old_i
    BY <1>2, <2>1 DEF TableInv, MapTypes
  <2>3. \A i \in DOMAIN old_buckets : old_buckets[i] = <<>>
    BY <2>2 DEF TableInv, Moved
  <2>. QED  BY <2>3, EmptyHasNone DEF Stores
<1>. QED  BY <1>1, <1>2

\* The chain of a key has its entry, if there is one.
LEMMA ChainHas ==
  ASSUME TableInv, NEW k \in Ids
  PROVE  /\ ~Has(Chain(k), k) => \A e \in Entry : Stores(buckets, e) => e.key # k
         /\ Has(Chain(k), k) =>
              /\ n_buckets # 0
              /\ GetIndex(k, n_buckets) \in 0..n_buckets - 1
              /\ Chain(k) = buckets[GetIndex(k, n_buckets)]
              /\ Place(Chain(k), k) \in 1..Len(Chain(k))
              /\ Chain(k)[Place(Chain(k), k)] \in Entry
              /\ Chain(k)[Place(Chain(k), k)].key = k
              /\ Stores(buckets, Chain(k)[Place(Chain(k), k)])
<1>1. n_buckets \in Nat /\ buckets \in [0..n_buckets - 1 -> Seq(Entry)]
  BY DEF TableInv, MapTypes
<1>2. CASE n_buckets = 0
  <2>1. Chain(k) = <<>>
    BY <1>2 DEF Chain
  <2>2. ~Has(Chain(k), k)
    BY <2>1 DEF Has
  <2>3. \A e : ~Stores(buckets, e)
    BY <1>1, <1>2 DEF Stores
  <2>. QED  BY <2>2, <2>3
<1>3. CASE n_buckets # 0
  <2>. DEFINE g == GetIndex(k, n_buckets)
              c == buckets[g]
  <2>1. g \in 0..n_buckets - 1
    BY <1>1, <1>3, IndexIs DEF TableInv, Placed
  <2>2. c \in Seq(Entry) /\ Chain(k) = c
    BY <1>1, <1>3, <2>1 DEF Chain
  <2>3. DOMAIN c = 1..Len(c) /\ \A p \in 1..Len(c) : c[p] \in Entry
    BY <2>2, LenProperties, ElementOfSeq
  <2>4. ASSUME ~Has(c, k), NEW e \in Entry, Stores(buckets, e) PROVE e.key # k
    <3>1. PICK i \in 0..n_buckets - 1 : Member(buckets[i], e)
      BY <1>1, <2>4 DEF Stores
    <3>2. GetIndex(e.key, n_buckets) = i
      BY <3>1 DEF TableInv, Placed
    <3>3. e.key = k => i = g /\ Member(c, e)
      BY <3>1, <3>2
    <3>4. Member(c, e) => e.key # k
      BY <2>3, <2>4 DEF Member, Has
    <3>. QED  BY <3>3, <3>4
  <2>5. ASSUME Has(c, k)
        PROVE  LET p == Place(c, k)
               IN  p \in 1..Len(c) /\ c[p] \in Entry /\ c[p].key = k /\ Stores(buckets, c[p])
    <3>. DEFINE p == Place(c, k)
    <3>1. p \in 1..Len(c) /\ c[p].key = k
      BY <2>3, <2>5 DEF Has, Place
    <3>. HIDE DEF p
    <3>2. Stores(buckets, c[p])
      BY <1>1, <2>1, <3>1 DEF Stores, Member
    <3>. QED  BY <2>3, <3>1, <3>2 DEF p
  <2>. HIDE DEF c
  <2>. QED  BY <1>3, <2>1, <2>2, <2>4, <2>5 DEF c
<1>. QED  BY <1>2, <1>3

\* A call finds what the finite map has.
LEMMA LookupIs ==
  ASSUME TableInv, \A e : ~Stores(old_buckets, e), NEW k \in Ids
  PROVE  Lookup(Chain(k), k) = MapContents[k]
<1>1. /\ \A e \in Entry : Holds(e) /\ e.key = k => MapContents[k] = e.val
      /\ (\A e \in Entry : Holds(e) => e.key # k) => MapContents[k] = NoObject
  BY ContentsAre DEF ContentsAreEntries
<1>2. CASE Has(Chain(k), k)
  <2>. DEFINE e == Chain(k)[Place(Chain(k), k)]
  <2>1. e \in Entry /\ e.key = k /\ Holds(e)
    BY <1>2, ChainHas DEF Holds
  <2>2. Lookup(Chain(k), k) = e.val
    BY <1>2 DEF Lookup
  <2>. HIDE DEF e
  <2>. QED  BY <1>1, <2>1, <2>2
<1>3. CASE ~Has(Chain(k), k)
  <2>1. \A e \in Entry : Holds(e) => e.key # k
    BY <1>3, ChainHas DEF Holds
  <2>2. Lookup(Chain(k), k) = NoObject
    BY <1>3 DEF Lookup
  <2>. QED  BY <1>1, <2>1, <2>2
<1>. QED  BY <1>2, <1>3

THEOREM MapInitInv == MapInit => TableInv
<1>. SUFFICES ASSUME MapInit PROVE TableInv
  OBVIOUS
<1>1. NoBuckets \in [0..0 - 1 -> Seq(Entry)] /\ DOMAIN NoBuckets = {}
  BY DEF NoBuckets
<1>2. MapTypes
  BY <1>1 DEF MapInit, MapTypes
<1>3. Placed
  BY <1>1 DEF MapInit, Placed
<1>4. OldApart
  BY <1>1, StoresNone DEF MapInit, OldApart
<1>5. Moved
  BY <1>1 DEF MapInit, Moved
<1>. QED  BY <1>2, <1>3, <1>4, <1>5 DEF TableInv

\* One entry goes from its old chain to its new one.
LEMMA MoveKeeps ==
  ASSUME TableInv, Move
  PROVE  TableInv' /\ \A e \in Entry : Holds(e)' <=> Holds(e)
<1>. DEFINE n == n_buckets
            o == old_buckets[old_i]
            x == Head(o)
            g == GetIndex(x.key, n)
<1>1. PICK m \in Nat : old_buckets \in [0..m - 1 -> Seq(Entry)] /\ DOMAIN old_buckets = 0..m - 1
  BY OldTable
<1>2. /\ inserting # NotInserting /\ old_i \in 0..m - 1 /\ o # <<>>
      /\ buckets' = [buckets EXCEPT ![g] = Append(@, x)]
      /\ old_buckets' = [old_buckets EXCEPT ![old_i] = Tail(@)]
      /\ n_buckets' = n /\ old_i' = old_i /\ inserting' = inserting
      /\ answer' = answer /\ iter' = iter /\ visited' = visited
  BY <1>1 DEF Move, Resizing
<1>3. n \in Nat \ {0} /\ buckets \in [0..n - 1 -> Seq(Entry)] /\ WordSize % n = 0
  BY <1>2 DEF TableInv, MapTypes, Placed, Moved
<1>4. o \in Seq(Entry)
  BY <1>1, <1>2
<1>5. /\ x \in Entry /\ Member(o, x) /\ Tail(o) \in Seq(Entry)
      /\ \A e : Member(o, e) <=> e = x \/ Member(Tail(o), e)
      /\ DistinctKeys(o) => DistinctKeys(Tail(o))
      /\ DistinctKeys(o) => \A e : Member(Tail(o), e) => e.key # x.key
  BY <1>2, <1>4, ChainTail
<1>6. x.key \in Ids /\ g \in 0..n - 1
  BY <1>3, <1>5, IndexIs DEF Entry
<1>. HIDE DEF g, x, o
<1>7. buckets[g] \in Seq(Entry)
  BY <1>3, <1>6
<1>. DEFINE c == Append(buckets[g], x)
            d == Tail(o)
<1>8. buckets' = [buckets EXCEPT ![g] = c] /\ old_buckets' = [old_buckets EXCEPT ![old_i] = d]
  BY <1>2 DEF o
<1>9. Stores(old_buckets, x)
  BY <1>1, <1>2, <1>5 DEF Stores, o
<1>10. \A e \in Entry : Stores(buckets, e) => e.key # x.key
  BY <1>5, <1>9 DEF TableInv, OldApart
<1>11. \A e \in Entry : Member(buckets[g], e) => Stores(buckets, e)
  BY <1>3, <1>6 DEF Stores
<1>12. /\ c \in Seq(Entry)
       /\ \A e : Member(c, e) <=> Member(buckets[g], e) \/ e = x
       /\ DistinctKeys(buckets[g]) /\ (\A e \in Entry : Member(buckets[g], e) => e.key # x.key)
            => DistinctKeys(c)
  BY <1>5, <1>7, ChainAppend
<1>13. DistinctKeys(c)
  BY <1>6, <1>10, <1>11, <1>12 DEF TableInv, Placed
<1>. HIDE DEF c
<1>14. d \in Seq(Entry)
  BY <1>5
<1>. HIDE DEF d
<1>15. /\ buckets' \in [0..n - 1 -> Seq(Entry)] /\ buckets'[g] = c
       /\ \A i \in 0..n - 1 : i # g => buckets'[i] = buckets[i]
       /\ \A e : Stores(buckets', e) <=>
            Member(c, e) \/ \E i \in 0..n - 1 : i # g /\ Member(buckets[i], e)
  <2>. DEFINE t == buckets'
  <2>1. t = [buckets EXCEPT ![g] = c]
    BY <1>8
  <2>. HIDE DEF t
  <2>2. /\ t \in [0..n - 1 -> Seq(Entry)] /\ t[g] = c
        /\ \A i \in 0..n - 1 : i # g => t[i] = buckets[i]
        /\ \A e : Stores(t, e) <=>
             Member(c, e) \/ \E i \in 0..n - 1 : i # g /\ Member(buckets[i], e)
    <3>1. n \in Nat /\ buckets \in [0..n - 1 -> Seq(Entry)] /\ g \in 0..n - 1 /\ c \in Seq(Entry)
      BY <1>3, <1>6, <1>12
    <3>. HIDE DEF n
    <3>. QED  BY <2>1, <3>1, OneChain
  <2>. QED  BY <2>2 DEF t
<1>16. /\ old_buckets' \in [0..m - 1 -> Seq(Entry)] /\ old_buckets'[old_i] = d
       /\ \A i \in 0..m - 1 : i # old_i => old_buckets'[i] = old_buckets[i]
       /\ \A e : Stores(old_buckets', e) <=>
            Member(d, e) \/ \E i \in 0..m - 1 : i # old_i /\ Member(old_buckets[i], e)
  <2>. DEFINE t == old_buckets'
  <2>1. t = [old_buckets EXCEPT ![old_i] = d]
    BY <1>8
  <2>. HIDE DEF t
  <2>2. /\ t \in [0..m - 1 -> Seq(Entry)] /\ t[old_i] = d
        /\ \A i \in 0..m - 1 : i # old_i => t[i] = old_buckets[i]
        /\ \A e : Stores(t, e) <=>
             Member(d, e) \/ \E i \in 0..m - 1 : i # old_i /\ Member(old_buckets[i], e)
    BY <1>1, <1>2, <1>14, <2>1, OneChain
  <2>. QED  BY <2>2 DEF t
<1>17. \A e : Stores(buckets', e) <=> Stores(buckets, e) \/ e = x
  BY <1>3, <1>6, <1>12, <1>15 DEF Stores
<1>18. DistinctKeys(o) /\ \A e : Member(d, e) => Member(o, e)
  BY <1>1, <1>2, <1>5 DEF TableInv, OldApart, o, d
<1>19. \A e : Stores(old_buckets, e) <=> Stores(old_buckets', e) \/ e = x
  BY <1>1, <1>2, <1>5, <1>16 DEF Stores, o, d
<1>20. \A e \in Entry : Stores(old_buckets', e) => e.key # x.key
  <2>. SUFFICES ASSUME NEW e \in Entry, Stores(old_buckets', e) PROVE e.key # x.key
    OBVIOUS
  <2>1. CASE Member(d, e)
    BY <1>5, <1>18, <2>1 DEF d
  <2>2. CASE \E i \in 0..m - 1 : i # old_i /\ Member(old_buckets[i], e)
    BY <1>1, <1>2, <1>5, <2>2 DEF TableInv, OldApart, o
  <2>. QED  BY <1>16, <2>1, <2>2
<1>21. \A e \in Entry : Holds(e)' <=> Holds(e)
  BY <1>17, <1>19 DEF Holds
<1>22. MapTypes'
  BY <1>2, <1>15, <1>16 DEF TableInv, MapTypes
<1>23. Placed'
  <2>1. ASSUME NEW i \in 0..n - 1
        PROVE  /\ DistinctKeys(buckets'[i])
               /\ \A e \in Entry : Member(buckets'[i], e) => GetIndex(e.key, n) = i
    <3>1. CASE i = g
      BY <1>12, <1>13, <1>15, <3>1 DEF TableInv, Placed, g
    <3>2. CASE i # g
      BY <1>15, <3>2 DEF TableInv, Placed
    <3>. QED  BY <3>1, <3>2
  <2>. QED  BY <1>2, <1>3, <2>1 DEF Placed
<1>24. \A i \in 0..m - 1 : \A e : Member(old_buckets'[i], e) => Member(old_buckets[i], e)
  BY <1>16, <1>18 DEF o
<1>25. OldApart'
  <2>1. \A i \in 0..m - 1 : DistinctKeys(old_buckets'[i])
    <3>1. DistinctKeys(d)
      BY <1>5, <1>18 DEF d
    <3>. QED  BY <1>1, <1>16, <3>1 DEF TableInv, OldApart
  <2>2. \A i, j \in 0..m - 1 : \A e, f \in Entry :
          Member(old_buckets'[i], e) /\ Member(old_buckets'[j], f) /\ e.key = f.key => i = j
    BY <1>1, <1>24 DEF TableInv, OldApart
  <2>3. \A e, f \in Entry : Stores(buckets', e) /\ Stores(old_buckets', f) => e.key # f.key
    BY <1>17, <1>19, <1>20 DEF TableInv, OldApart
  <2>4. DOMAIN old_buckets' = 0..m - 1
    BY <1>16
  <2>. QED  BY <2>1, <2>2, <2>3, <2>4 DEF OldApart
<1>26. Moved'
  <2>1. \A i \in 0..m - 1 : i < old_i => old_buckets'[i] = <<>>
    BY <1>1, <1>2, <1>16 DEF TableInv, Moved
  <2>2. DOMAIN old_buckets' = 0..m - 1
    BY <1>16
  <2>. QED  BY <1>2, <1>3, <2>1, <2>2 DEF TableInv, Moved
<1>. QED  BY <1>21, <1>22, <1>23, <1>25, <1>26 DEF TableInv

LEMMA NextBucketKeeps ==
  ASSUME TableInv, NextBucket
  PROVE  TableInv' /\ \A e \in Entry : Holds(e)' <=> Holds(e)
<1>1. PICK m \in Nat : DOMAIN old_buckets = 0..m - 1
  BY OldTable
<1>2. /\ inserting # NotInserting /\ old_i \in DOMAIN old_buckets /\ old_buckets[old_i] = <<>>
      /\ old_i' = old_i + 1 /\ buckets' = buckets /\ n_buckets' = n_buckets
      /\ old_buckets' = old_buckets /\ inserting' = inserting /\ answer' = answer
      /\ iter' = iter /\ visited' = visited
  BY DEF NextBucket, Resizing
<1>3. MapTypes' /\ Placed' /\ OldApart'
  <2>1. MapTypes'
    <3>1. old_i' \in Nat
      BY <1>2 DEF TableInv, MapTypes
    <3>2. \E k \in Nat : old_buckets' \in [0..k - 1 -> Seq(Entry)]
      BY <1>2, OldTable
    <3>. QED  BY <1>2, <3>1, <3>2 DEF TableInv, MapTypes
  <2>2. Placed'
    BY <1>2 DEF TableInv, Placed
  <2>3. OldApart'
    BY <1>2 DEF TableInv, OldApart, Stores
  <2>. QED  BY <2>1, <2>2, <2>3
<1>4. Moved'
  <2>1. \A i \in DOMAIN old_buckets : i < old_i + 1 => old_buckets[i] = <<>>
    <3>. SUFFICES ASSUME NEW i \in DOMAIN old_buckets, i < old_i + 1, i # old_i
                  PROVE  old_buckets[i] = <<>>
      BY <1>2
    <3>1. i < old_i
      BY <1>1 DEF TableInv, MapTypes
    <3>. QED  BY <3>1 DEF TableInv, Moved
  <2>. QED  BY <1>2, <2>1 DEF TableInv, Moved
<1>5. \A e \in Entry : Holds(e)' <=> Holds(e)
  BY <1>2 DEF Holds, Stores
<1>. QED  BY <1>3, <1>4, <1>5 DEF TableInv

LEMMA EntryIs ==
  ASSUME NEW k \in Ids, NEW v \in Objects, NEW x, x = [key |-> k, val |-> v]
  PROVE  x \in Entry /\ x # NotInserting /\ x.key = k /\ x.val = v
<1>1. k \in Nat
  BY MapAssumption
<1>2. x \in Entry /\ x.key = k /\ x.val = v
  BY DEF Entry
<1>3. NotInserting.key = -1
  BY DEF NotInserting
<1>. QED  BY <1>1, <1>2, <1>3

\* An insertion that resizes begins with empty buckets: all that the map has is old.
LEMMA GrowKeeps ==
  ASSUME TableInv, NEW k \in Ids, NEW v \in Objects, MapInsert(k, v), MustResize
  PROVE  TableInv' /\ \A e \in Entry : Holds(e)' <=> Holds(e)
<1>. DEFINE n == NewBuckets
<1>1. /\ inserting = NotInserting /\ iter = NoIter /\ inserting' = [key |-> k, val |-> v]
      /\ old_buckets' = buckets /\ n_buckets' = n /\ buckets' = [i \in 0..n - 1 |-> <<>>]
      /\ old_i' = 0 /\ answer' = answer /\ iter' = iter /\ visited' = visited
  BY DEF MapInsert, Idle
<1>2. n_buckets \in Nat /\ buckets \in [0..n_buckets - 1 -> Seq(Entry)]
      /\ DOMAIN buckets = 0..n_buckets - 1
  BY DEF TableInv, MapTypes
<1>3. n \in Nat \ {0} /\ WordSize % n = 0
  BY <1>2, MapAssumption DEF NewBuckets, MustResize
<1>. HIDE DEF n
<1>4. buckets' \in [0..n - 1 -> Seq(Entry)]
  BY <1>1, EmptySeq
<1>5. \A e : ~Stores(buckets', e)
  BY <1>1, EmptyHasNone DEF Stores
<1>6. \A e : ~Stores(old_buckets, e)
  BY <1>1, NothingOld
<1>7. inserting' \in Entry /\ inserting' # NotInserting
  BY <1>1, EntryIs
<1>8. MapTypes'
  BY <1>1, <1>2, <1>3, <1>4, <1>7 DEF TableInv, MapTypes
<1>9. Placed'
  <2>1. ASSUME NEW i \in 0..n - 1
        PROVE  DistinctKeys(buckets'[i]) /\ \A e : ~Member(buckets'[i], e)
    BY <1>1, EmptyHasNone DEF DistinctKeys
  <2>. QED  BY <1>1, <1>3, <2>1 DEF Placed
<1>10. OldApart'
  <2>1. \A i, j \in 0..n_buckets - 1 : \A e, f \in Entry :
          Member(buckets[i], e) /\ Member(buckets[j], f) /\ e.key = f.key => i = j
    <3>. SUFFICES ASSUME NEW i \in 0..n_buckets - 1, NEW j \in 0..n_buckets - 1,
                         NEW e \in Entry, NEW f \in Entry,
                         Member(buckets[i], e), Member(buckets[j], f), e.key = f.key
                  PROVE  i = j
      OBVIOUS
    <3>1. GetIndex(e.key, n_buckets) = i /\ GetIndex(f.key, n_buckets) = j
      BY DEF TableInv, Placed
    <3>. QED  BY <3>1
  <2>2. \A i \in 0..n_buckets - 1 : DistinctKeys(buckets[i])
    BY DEF TableInv, Placed
  <2>3. DOMAIN old_buckets' = 0..n_buckets - 1 /\ old_buckets' = buckets
    BY <1>1, <1>2
  <2>4. \A e, f \in Entry : Stores(buckets', e) /\ Stores(old_buckets', f) => e.key # f.key
    BY <1>5
  <2>. QED  BY <2>1, <2>2, <2>3, <2>4 DEF OldApart
<1>11. Moved'
  BY <1>1, <1>2, <1>3, <1>7 DEF Moved
<1>12. \A e \in Entry : Holds(e)' <=> Holds(e)
  BY <1>1, <1>5, <1>6 DEF Holds, Stores
<1>. QED  BY <1>8, <1>9, <1>10, <1>11, <1>12 DEF TableInv

LEMMA InsertKeeps ==
  ASSUME TableInv, NEW k \in Ids, NEW v \in Objects, MapInsert(k, v)
  PROVE  TableInv' /\ \A e \in Entry : Holds(e)' <=> Holds(e)
<1>1. CASE MustResize
  BY <1>1, GrowKeeps
<1>2. CASE ~MustResize
  <2>1. /\ inserting = NotInserting /\ iter = NoIter /\ inserting' = [key |-> k, val |-> v]
        /\ old_buckets' = old_buckets /\ n_buckets' = n_buckets /\ buckets' = buckets
        /\ old_i' = 0 /\ answer' = answer /\ iter' = iter /\ visited' = visited
    BY <1>2 DEF MapInsert, Idle
  <2>2. n_buckets # 0
    BY <1>2, MapAssumption DEF MustResize, NewBuckets
  <2>3. inserting' \in Entry /\ inserting' # NotInserting
    BY <2>1, EntryIs
  <2>4. MapTypes'
    BY <2>1, <2>3 DEF TableInv, MapTypes
  <2>5. Placed' /\ OldApart'
    BY <2>1 DEF TableInv, Placed, OldApart, Stores
  <2>6. DOMAIN old_buckets = {}
    BY <2>1 DEF TableInv, Moved, NoBuckets
  <2>7. Moved'
    BY <2>1, <2>2, <2>3, <2>6 DEF Moved
  <2>8. \A e \in Entry : Holds(e)' <=> Holds(e)
    BY <2>1 DEF Holds, Stores
  <2>. QED  BY <2>4, <2>5, <2>7, <2>8 DEF TableInv
<1>. QED  BY <1>1, <1>2

\* A call that is answered leaves one chain with other entries of its key.
LEMMA ChainChanged ==
  ASSUME TableInv, NEW k \in Ids, n_buckets # 0, \A e : ~Stores(old_buckets, e),
         NEW c \in Seq(Entry), DistinctKeys(c), NEW new \in SUBSET Entry,
         \A e \in new : e.key = k,
         \A e \in Entry : Member(c, e) <=>
           (Member(buckets[GetIndex(k, n_buckets)], e) /\ e.key # k) \/ e \in new,
         buckets' = [buckets EXCEPT ![GetIndex(k, n_buckets)] = c],
         n_buckets' = n_buckets
  PROVE  /\ buckets' \in [0..n_buckets - 1 -> Seq(Entry)]
         /\ Placed'
         /\ \A e \in Entry : Stores(buckets', e) <=> (Holds(e) /\ e.key # k) \/ e \in new
<1>. DEFINE n == n_buckets
            g == GetIndex(k, n)
            t == buckets'
<1>1. n \in Nat \ {0} /\ buckets \in [0..n - 1 -> Seq(Entry)] /\ WordSize % n = 0
      /\ DOMAIN buckets = 0..n - 1
  BY DEF TableInv, MapTypes, Placed
<1>2. g \in 0..n - 1
  BY <1>1, IndexIs
<1>3. t = [buckets EXCEPT ![g] = c]
  OBVIOUS
<1>4. \A i \in 0..n - 1 : /\ DistinctKeys(buckets[i])
                          /\ \A e \in Entry : Member(buckets[i], e) => GetIndex(e.key, n) = i
  BY DEF TableInv, Placed
<1>5. \A e \in Entry : Member(c, e) <=> (Member(buckets[g], e) /\ e.key # k) \/ e \in new
  OBVIOUS
<1>6. \A e \in new : GetIndex(e.key, n) = g
  OBVIOUS
<1>. HIDE DEF t, g, n
<1>7. /\ t \in [0..n - 1 -> Seq(Entry)] /\ t[g] = c
      /\ \A i \in 0..n - 1 : i # g => t[i] = buckets[i]
      /\ \A e : Stores(t, e) <=> Member(c, e) \/ \E i \in 0..n - 1 : i # g /\ Member(buckets[i], e)
  <2>1. /\ t \in [0..n - 1 -> Seq(Entry)] /\ DOMAIN t = 0..n - 1
        /\ t[g] = c /\ \A i \in 0..n - 1 : i # g => t[i] = buckets[i]
    BY <1>1, <1>2, <1>3
  <2>. QED  BY <1>2, <2>1 DEF Stores
<1>8. ASSUME NEW i \in 0..n - 1
      PROVE  /\ DistinctKeys(t[i])
             /\ \A e \in Entry : Member(t[i], e) => GetIndex(e.key, n) = i
  <2>1. CASE i = g
    BY <1>2, <1>4, <1>5, <1>6, <1>7, <2>1
  <2>2. CASE i # g
    BY <1>4, <1>7, <2>2
  <2>. QED  BY <2>1, <2>2
<1>9. Placed'
  BY <1>1, <1>8 DEF Placed, n, t
<1>10. ASSUME NEW e \in Entry
       PROVE  Stores(t, e) <=> (Holds(e) /\ e.key # k) \/ e \in new
  <2>1. Holds(e) <=> Member(buckets[g], e) \/ \E i \in 0..n - 1 : i # g /\ Member(buckets[i], e)
    BY <1>1, <1>2 DEF Holds, Stores
  <2>2. ASSUME NEW i \in 0..n - 1, i # g, Member(buckets[i], e) PROVE e.key # k
    BY <1>4, <2>2 DEF g
  <2>. QED  BY <1>5, <1>7, <2>1, <2>2
<1>. QED  BY <1>7, <1>9, <1>10 DEF t, n

\* The tail of the invariant where nothing is old.
LEMMA SettledInv ==
  ASSUME MapTypes', Placed', inserting' = NotInserting, old_buckets' = NoBuckets
  PROVE  TableInv'
<1>1. DOMAIN old_buckets' = {} /\ \A e : ~Stores(old_buckets', e)
  BY StoresNone DEF NoBuckets
<1>2. OldApart'
  BY <1>1 DEF OldApart
<1>3. Moved'
  BY <1>1 DEF Moved
<1>. QED  BY <1>2, <1>3 DEF TableInv

\* A key is given its value: the entry that has it is changed, or one is appended.
LEMMA PutKeeps ==
  ASSUME TableInv, Put
  PROVE  /\ TableInv' /\ inserting \in Entry
         /\ answer' = MapContents[inserting.key]
         /\ \A e \in Entry : Holds(e)' <=> (Holds(e) /\ e.key # inserting.key) \/ e = inserting
<1>. DEFINE k == inserting.key
            g == GetIndex(k, n_buckets)
            s == buckets[g]
            p == Place(s, k)
<1>1. /\ inserting \in Entry /\ inserting # NotInserting /\ old_i \notin DOMAIN old_buckets
      /\ answer' = Lookup(Chain(k), k)
      /\ IF Has(Chain(k), k)
         THEN buckets' = [buckets EXCEPT ![g][Place(Chain(k), k)].val = inserting.val]
         ELSE buckets' = [buckets EXCEPT ![g] = Append(@, inserting)]
      /\ inserting' = NotInserting /\ old_buckets' = NoBuckets /\ old_i' = 0
      /\ n_buckets' = n_buckets /\ iter' = iter /\ visited' = visited
  BY DEF Put, Resizing, TableInv, MapTypes
<1>2. k \in Ids /\ inserting.val \in Objects /\ inserting = [key |-> k, val |-> inserting.val]
  BY <1>1 DEF Entry
<1>3. n_buckets \in Nat \ {0} /\ buckets \in [0..n_buckets - 1 -> Seq(Entry)]
      /\ WordSize % n_buckets = 0
  BY <1>1 DEF TableInv, MapTypes, Placed, Moved
<1>4. g \in 0..n_buckets - 1
  BY <1>2, <1>3, IndexIs
<1>5. s \in Seq(Entry) /\ Chain(k) = s /\ DistinctKeys(s)
  BY <1>3, <1>4 DEF Chain, TableInv, Placed
<1>6. \A e : ~Stores(old_buckets, e)
  BY <1>1, NothingOld
<1>7. answer' = MapContents[k] /\ answer' \in Objects \union {NoObject}
  <2>1. answer' = MapContents[k]
    BY <1>1, <1>2, <1>6, LookupIs
  <2>2. CASE Has(s, k)
    <3>1. s[Place(s, k)] \in Entry
      BY <1>2, <1>5, <2>2, ChainHas
    <3>. QED  BY <1>1, <1>5, <2>1, <2>2, <3>1 DEF Lookup, Entry
  <2>3. CASE ~Has(s, k)
    BY <1>1, <1>5, <2>1, <2>3 DEF Lookup
  <2>. QED  BY <2>1, <2>2, <2>3
<1>8. \E c \in Seq(Entry) :
        /\ DistinctKeys(c)
        /\ \A e \in Entry : Member(c, e) <=> (Member(s, e) /\ e.key # k) \/ e = inserting
        /\ buckets' = [buckets EXCEPT ![g] = c]
  <2>1. CASE Has(s, k)
    <3>1. p \in 1..Len(s) /\ s[p].key = k
      BY <1>2, <1>5, <2>1, ChainHas
    <3>. DEFINE c == [s EXCEPT ![p] = inserting]
    <3>2. s[p] \in Entry /\ [s[p] EXCEPT !.val = inserting.val] = inserting
      <4>1. s[p] \in Entry
        BY <1>2, <1>5, <2>1, ChainHas
      <4>. HIDE DEF s, p
      <4>. QED  BY <1>2, <3>1, <4>1 DEF Entry
    <3>3. buckets' = [buckets EXCEPT ![g] = c]
      BY <1>1, <1>3, <1>4, <1>5, <2>1, <3>2
    <3>4. /\ c \in Seq(Entry)
          /\ \A e \in Entry : Member(c, e) <=> (Member(s, e) /\ e.key # k) \/ e = inserting
          /\ DistinctKeys(c)
      <4>. HIDE DEF s, p
      <4>1. s \in Seq(Entry) /\ p \in 1..Len(s) /\ DistinctKeys(s) /\ s[p].key = k
        BY <1>5, <3>1
      <4>. QED  BY <1>1, <4>1, ChainPut
    <3>. HIDE DEF c, s, p
    <3>. QED  BY <3>3, <3>4
  <2>2. CASE ~Has(s, k)
    <3>. DEFINE c == Append(s, inserting)
    <3>1. buckets' = [buckets EXCEPT ![g] = c]
      BY <1>1, <1>3, <1>4, <1>5, <2>2
    <3>2. \A e \in Entry : Member(s, e) => e.key # k
      <4>1. \A e \in Entry : Stores(buckets, e) => e.key # k
        BY <1>2, <1>5, <2>2, ChainHas
      <4>2. \A e \in Entry : Member(s, e) => Stores(buckets, e)
        BY <1>3, <1>4 DEF Stores
      <4>. QED  BY <4>1, <4>2
    <3>3. /\ c \in Seq(Entry)
          /\ \A e : Member(c, e) <=> Member(s, e) \/ e = inserting
          /\ DistinctKeys(c)
      BY <1>1, <1>5, <3>2, ChainAppend
    <3>. HIDE DEF c
    <3>. QED  BY <3>1, <3>2, <3>3
  <2>. QED  BY <2>1, <2>2
<1>. HIDE DEF p
<1>9. PICK c \in Seq(Entry) :
        /\ DistinctKeys(c)
        /\ \A e \in Entry : Member(c, e) <=> (Member(s, e) /\ e.key # k) \/ e = inserting
        /\ buckets' = [buckets EXCEPT ![g] = c]
  BY <1>8
<1>10. /\ buckets' \in [0..n_buckets - 1 -> Seq(Entry)]
       /\ Placed'
       /\ \A e \in Entry : Stores(buckets', e) <=> (Holds(e) /\ e.key # k) \/ e \in {inserting}
  <2>. DEFINE new == {inserting}
  <2>1. new \in SUBSET Entry /\ \A e \in new : e.key = k
    BY <1>1
  <2>2. \A e \in Entry : Member(c, e) <=>
          (Member(buckets[GetIndex(k, n_buckets)], e) /\ e.key # k) \/ e \in new
    BY <1>9
  <2>3. n_buckets # 0 /\ n_buckets' = n_buckets
        /\ buckets' = [buckets EXCEPT ![GetIndex(k, n_buckets)] = c]
    BY <1>1, <1>3, <1>9
  <2>. HIDE DEF new
  <2>. QED  BY <1>2, <1>6, <1>9, <2>1, <2>2, <2>3, ChainChanged DEF new
<1>11. \A e \in Entry : Holds(e)' <=> (Holds(e) /\ e.key # k) \/ e = inserting
  BY <1>1, <1>10, StoresNone DEF Holds
<1>12. MapTypes'
  <2>1. NoBuckets \in [0..0 - 1 -> Seq(Entry)]
    BY DEF NoBuckets
  <2>. QED  BY <1>1, <1>7, <1>10, <2>1 DEF TableInv, MapTypes
<1>13. TableInv'
  BY <1>1, <1>10, <1>12, SettledInv
<1>. QED  BY <1>1, <1>7, <1>11, <1>13

\* A call that finds its key takes the entry off, one that does not changes nothing.
LEMMA RemoveKeeps ==
  ASSUME TableInv, NEW k \in Ids, MapRemove(k)
  PROVE  /\ TableInv'
         /\ answer' = MapContents[k]
         /\ \A e \in Entry : Holds(e)' <=> Holds(e) /\ e.key # k
<1>. DEFINE g == GetIndex(k, n_buckets)
            s == buckets[g]
            p == Place(s, k)
<1>1. /\ inserting = NotInserting /\ answer' = Lookup(Chain(k), k)
      /\ n_buckets' = n_buckets /\ old_buckets' = old_buckets /\ old_i' = old_i
      /\ inserting' = inserting /\ iter' = iter /\ visited' = visited
      /\ Has(Chain(k), k) => buckets' = [buckets EXCEPT ![g] = Cut(@, Place(@, k))]
      /\ ~Has(Chain(k), k) => buckets' = buckets
  BY DEF MapRemove, Idle
<1>2. \A e : ~Stores(old_buckets, e)
  BY <1>1, NothingOld
<1>3. old_buckets = NoBuckets
  BY <1>1 DEF TableInv, Moved
<1>4. answer' = MapContents[k]
  BY <1>1, <1>2, LookupIs
<1>5. CASE ~Has(Chain(k), k)
  <2>1. \A e \in Entry : Holds(e) => e.key # k
    BY <1>2, <1>5, ChainHas DEF Holds
  <2>2. answer' \in Objects \union {NoObject}
    BY <1>1, <1>5 DEF Lookup
  <2>3. MapTypes'
    BY <1>1, <1>5, <2>2 DEF TableInv, MapTypes
  <2>4. Placed'
    BY <1>1, <1>5 DEF TableInv, Placed
  <2>5. \A e \in Entry : Holds(e)' <=> Holds(e)
    BY <1>1, <1>5 DEF Holds, Stores
  <2>. QED  BY <1>1, <1>3, <1>4, <2>1, <2>3, <2>4, <2>5, SettledInv
<1>6. CASE Has(Chain(k), k)
  <2>1. /\ n_buckets # 0 /\ g \in 0..n_buckets - 1 /\ Chain(k) = s
        /\ p \in 1..Len(s) /\ s[p] \in Entry /\ s[p].key = k
    BY <1>6, ChainHas
  <2>2. buckets \in [0..n_buckets - 1 -> Seq(Entry)]
    BY DEF TableInv, MapTypes
  <2>3. s \in Seq(Entry) /\ DistinctKeys(s)
    BY <2>1, <2>2 DEF TableInv, Placed
  <2>4. answer' \in Objects \union {NoObject}
    BY <1>1, <1>6, <2>1 DEF Lookup, Entry
  <2>. DEFINE c == Cut(s, p)
  <2>5. buckets' = [buckets EXCEPT ![g] = c]
    BY <1>1, <1>6
  <2>6. /\ c \in Seq(Entry) /\ DistinctKeys(c)
        /\ \A e : Member(c, e) <=> Member(s, e) /\ e # s[p]
    BY <2>1, <2>3, ChainCut
  <2>7. \A e \in Entry : Member(s, e) => (e # s[p] <=> e.key # k)
    <3>. HIDE DEF s, p
    <3>. QED  BY <2>1, <2>3 DEF Member, DistinctKeys
  <2>. HIDE DEF c
  <2>8. /\ buckets' \in [0..n_buckets - 1 -> Seq(Entry)]
        /\ Placed'
        /\ \A e \in Entry : Stores(buckets', e) <=> (Holds(e) /\ e.key # k) \/ e \in {}
    <3>. DEFINE new == {}
    <3>1. new \in SUBSET Entry /\ \A e \in new : e.key = k
      OBVIOUS
    <3>2. \A e \in Entry : Member(c, e) <=>
            (Member(buckets[GetIndex(k, n_buckets)], e) /\ e.key # k) \/ e \in new
      BY <2>6, <2>7
    <3>3. n_buckets # 0 /\ n_buckets' = n_buckets
          /\ buckets' = [buckets EXCEPT ![GetIndex(k, n_buckets)] = c]
      BY <1>1, <2>1, <2>5
    <3>4. c \in Seq(Entry) /\ DistinctKeys(c)
      BY <2>6
    <3>. HIDE DEF new, s, p, g
    <3>5. /\ buckets' \in [0..n_buckets - 1 -> Seq(Entry)]
          /\ Placed'
          /\ \A e \in Entry : Stores(buckets', e) <=> (Holds(e) /\ e.key # k) \/ e \in new
      BY <1>2, <3>1, <3>2, <3>3, <3>4, ChainChanged
    <3>. QED  BY <3>5 DEF new
  <2>9. MapTypes'
    BY <1>1, <2>4, <2>8 DEF TableInv, MapTypes
  <2>10. \A e \in Entry : Holds(e)' <=> Holds(e) /\ e.key # k
    BY <1>1, <1>2, <2>8 DEF Holds, Stores
  <2>. QED  BY <1>1, <1>3, <1>4, <2>8, <2>9, <2>10, SettledInv
<1>. QED  BY <1>5, <1>6

\* A call that only looks.
LEMMA GetKeeps ==
  ASSUME TableInv, NEW k \in Ids, MapGet(k)
  PROVE  /\ TableInv' /\ answer' = MapContents[k]
         /\ \A e \in Entry : Holds(e)' <=> Holds(e)
<1>1. /\ inserting = NotInserting /\ answer' = Lookup(Chain(k), k) /\ buckets' = buckets
      /\ n_buckets' = n_buckets /\ old_buckets' = old_buckets /\ old_i' = old_i
      /\ inserting' = inserting /\ iter' = iter /\ visited' = visited
  BY DEF MapGet, Idle
<1>2. answer' = MapContents[k]
  BY <1>1, NothingOld, LookupIs
<1>3. answer' \in Objects \union {NoObject}
  <2>1. CASE Has(Chain(k), k)
    BY <1>1, <2>1, ChainHas DEF Lookup, Entry
  <2>2. CASE ~Has(Chain(k), k)
    BY <1>1, <2>2 DEF Lookup
  <2>. QED  BY <2>1, <2>2
<1>4. MapTypes'
  BY <1>1, <1>3 DEF TableInv, MapTypes
<1>5. Placed'
  BY <1>1 DEF TableInv, Placed
<1>6. old_buckets = NoBuckets
  BY <1>1 DEF TableInv, Moved
<1>7. \A e \in Entry : Holds(e)' <=> Holds(e)
  BY <1>1 DEF Holds, Stores
<1>. QED  BY <1>1, <1>2, <1>4, <1>5, <1>6, <1>7, SettledInv

LEMMA FreeKeeps ==
  ASSUME TableInv, MapFree
  PROVE  TableInv' /\ answer' = answer /\ \A e \in Entry : ~Holds(e)'
<1>1. /\ inserting = NotInserting /\ buckets' = NoBuckets /\ n_buckets' = 0
      /\ old_buckets' = old_buckets /\ old_i' = old_i /\ answer' = answer
      /\ inserting' = inserting /\ iter' = iter /\ visited' = visited
  BY DEF MapFree, Idle
<1>2. NoBuckets \in [0..0 - 1 -> Seq(Entry)]
  BY DEF NoBuckets
<1>3. MapTypes'
  BY <1>1, <1>2 DEF TableInv, MapTypes
<1>4. Placed'
  BY <1>1 DEF Placed
<1>5. old_buckets = NoBuckets
  BY <1>1 DEF TableInv, Moved
<1>6. \A e \in Entry : ~Holds(e)'
  BY <1>1, <1>5, StoresNone DEF Holds
<1>. QED  BY <1>1, <1>3, <1>4, <1>5, <1>6, SettledInv

\* The chain a loop goes to is the next that has entries.
LEMMA NextChainIs ==
  ASSUME NextChains # {}, n_buckets \in Nat, iter.i \in Nat
  PROVE  /\ NextChain \in iter.i + 1..n_buckets - 1 /\ buckets[NextChain] # <<>>
         /\ \A j \in NextChains : NextChain <= j
<1>1. NextChains \subseteq Nat
  BY DEF NextChains
<1>. DEFINE less == {pair \in Nat \X Nat : pair[1] < pair[2]}
<1>2. IsWellFoundedOn(less, Nat)
  BY NatLessThanWellFounded DEF OpToRel
<1>. HIDE DEF less
<1>3. PICK i \in NextChains : \A j \in NextChains : ~(<<j, i>> \in less)
  BY <1>1, <1>2, WFMin
<1>4. \A j \in NextChains : i <= j
  <2>. SUFFICES ASSUME NEW j \in NextChains PROVE i <= j
    OBVIOUS
  <2>1. i \in Nat /\ j \in Nat /\ ~(<<j, i>> \in less)
    BY <1>1, <1>3
  <2>2. <<j, i>> \in Nat \X Nat /\ <<j, i>>[1] = j /\ <<j, i>>[2] = i
    BY <2>1
  <2>3. ~(j < i)
    BY <2>1, <2>2 DEF less
  <2>. QED  BY <2>1, <2>3
<1>5. NextChain \in NextChains /\ \A j \in NextChains : NextChain <= j
  BY <1>3, <1>4 DEF NextChain
<1>. QED  BY <1>5 DEF NextChains

\* A loop does not change the table.
LEMMA LoopKeeps ==
  ASSUME TableInv, IterStart \/ IterNext
  PROVE  TableInv' /\ answer' = answer /\ \A e \in Entry : Holds(e)' <=> Holds(e)
<1>1. /\ inserting = NotInserting /\ answer' = answer /\ buckets' = buckets
      /\ n_buckets' = n_buckets /\ old_buckets' = old_buckets /\ old_i' = old_i
      /\ inserting' = inserting
  BY DEF IterStart, IterNext, Idle
<1>2. iter' \in [i : Nat, pos : Nat] \union {NoIter} /\ visited' \in Seq(Ids)
  <2>1. CASE IterStart
    BY <2>1, EmptySeq DEF IterStart
  <2>2. CASE IterNext
    <3>1. n_buckets \in Nat /\ buckets \in [0..n_buckets - 1 -> Seq(Entry)]
          /\ iter \in [i : Nat, pos : Nat] /\ iter.i \in Nat /\ iter.pos \in Nat
          /\ visited \in Seq(Ids)
      BY <2>2 DEF IterNext, TableInv, MapTypes
    <3>2. \A i \in 0..n_buckets - 1 : \A p \in 1..Len(buckets[i]) : buckets[i][p].key \in Ids
      <4>. SUFFICES ASSUME NEW i \in 0..n_buckets - 1, NEW p \in 1..Len(buckets[i])
                    PROVE  buckets[i][p].key \in Ids
        OBVIOUS
      <4>1. buckets[i] \in Seq(Entry)
        BY <3>1
      <4>2. buckets[i][p] \in Entry
        BY <4>1, ElementOfSeq
      <4>. QED  BY <4>2 DEF Entry
    <3>3. CASE iter.i < n_buckets /\ iter.pos < Len(buckets[iter.i])
      <4>1. /\ iter' = [iter EXCEPT !.pos = @ + 1]
            /\ visited' = Append(visited, buckets[iter.i][iter.pos + 1].key)
        BY <2>2, <3>3 DEF IterNext
      <4>2. iter.i \in 0..n_buckets - 1 /\ iter.pos + 1 \in 1..Len(buckets[iter.i])
        <5>1. iter.i \in 0..n_buckets - 1
          BY <3>1, <3>3
        <5>2. Len(buckets[iter.i]) \in Nat
          BY <3>1, <5>1, LenProperties
        <5>. QED  BY <3>1, <3>3, <5>1, <5>2
      <4>3. buckets[iter.i][iter.pos + 1].key \in Ids
        BY <3>2, <4>2
      <4>. QED  BY <3>1, <4>1, <4>3, AppendProperties
    <3>4. CASE ~(iter.i < n_buckets /\ iter.pos < Len(buckets[iter.i])) /\ NextChains # {}
      <4>1. iter' = [i |-> NextChain, pos |-> 1]
            /\ visited' = Append(visited, buckets[NextChain][1].key)
        BY <2>2, <3>4 DEF IterNext
      <4>2. NextChain \in iter.i + 1..n_buckets - 1 /\ buckets[NextChain] # <<>>
        BY <3>1, <3>4, NextChainIs
      <4>3. NextChain \in Nat /\ NextChain \in 0..n_buckets - 1
        BY <3>1, <4>2
      <4>4. 1 \in 1..Len(buckets[NextChain])
        BY <3>1, <4>2, <4>3
      <4>5. buckets[NextChain][1].key \in Ids
        BY <3>2, <4>3, <4>4
      <4>. QED  BY <3>1, <4>1, <4>3, <4>5, AppendProperties
    <3>5. CASE ~(iter.i < n_buckets /\ iter.pos < Len(buckets[iter.i])) /\ NextChains = {}
      BY <2>2, <3>5, EmptySeq DEF IterNext
    <3>. QED  BY <3>3, <3>4, <3>5
  <2>. QED  BY <2>1, <2>2
<1>3. MapTypes'
  BY <1>1, <1>2 DEF TableInv, MapTypes
<1>4. Placed'
  BY <1>1 DEF TableInv, Placed
<1>5. old_buckets = NoBuckets
  BY <1>1 DEF TableInv, Moved
<1>6. \A e \in Entry : Holds(e)' <=> Holds(e)
  BY <1>1 DEF Holds, Stores
<1>. QED  BY <1>1, <1>3, <1>4, <1>5, <1>6, SettledInv

THEOREM MapStepInv == TableInv /\ [MapNext]_map_vars => TableInv'
<1>. SUFFICES ASSUME TableInv, [MapNext]_map_vars PROVE TableInv'
  OBVIOUS
<1>1. CASE \E k \in Ids : MapGet(k)
  BY <1>1, GetKeeps
<1>2. CASE \E k \in Ids : MapRemove(k)
  BY <1>2, RemoveKeeps
<1>3. CASE \E k \in Ids : \E v \in Objects : MapInsert(k, v)
  BY <1>3, InsertKeeps
<1>4. CASE Move
  BY <1>4, MoveKeeps
<1>5. CASE NextBucket
  BY <1>5, NextBucketKeeps
<1>6. CASE Put
  BY <1>6, PutKeeps
<1>7. CASE MapFree
  BY <1>7, FreeKeeps
<1>8. CASE IterStart \/ IterNext
  BY <1>8, LoopKeeps
<1>9. CASE UNCHANGED map_vars
  <2>1. /\ buckets' = buckets /\ n_buckets' = n_buckets /\ old_buckets' = old_buckets
        /\ old_i' = old_i /\ inserting' = inserting /\ answer' = answer /\ iter' = iter
        /\ visited' = visited
    BY <1>9 DEF map_vars
  <2>2. MapTypes'
    BY <2>1 DEF TableInv, MapTypes
  <2>3. Placed'
    BY <2>1 DEF TableInv, Placed
  <2>4. OldApart'
    BY <2>1 DEF TableInv, OldApart, Stores
  <2>5. Moved'
    BY <2>1 DEF TableInv, Moved
  <2>. QED  BY <2>2, <2>3, <2>4, <2>5 DEF TableInv
<1>. QED  BY <1>1, <1>2, <1>3, <1>4, <1>5, <1>6, <1>7, <1>8, <1>9 DEF MapNext

\* In every state each entry is in the chain of its key, no key has two, and
\* a resize loses and repeats none, whatever the hash (map.c:39-93).
THEOREM TableInvHolds == MapSpec => []TableInv
<1>1. MapInit => TableInv
  BY MapInitInv
<1>2. TableInv /\ [MapNext]_map_vars => TableInv'
  BY MapStepInv
<1>. QED  BY <1>1, <1>2, PTL DEF MapSpec

-----------------------------------------------------------------------------
(* The table implements the finite map.                                    *)

LEMMA ContentsFunction ==
  /\ MapContents = [k \in Ids |-> MapContents[k]]
  /\ MapContents' = [k \in Ids |-> MapContents'[k]]
BY DEF MapContents

\* What the finite map has after a step, from what the table has.
LEMMA ContentsAfterStep ==
  ASSUME TableInv, TableInv', NEW k \in Ids,
         \A e \in Entry : e.key # k => (Holds(e)' <=> Holds(e))
  PROVE  \A j \in Ids : j # k => MapContents'[j] = MapContents[j]
<1>. SUFFICES ASSUME NEW j \in Ids, j # k PROVE MapContents'[j] = MapContents[j]
  OBVIOUS
<1>1. /\ \A e \in Entry : Holds(e) /\ e.key = j => MapContents[j] = e.val
      /\ (\A e \in Entry : Holds(e) => e.key # j) => MapContents[j] = NoObject
  BY ContentsAre DEF ContentsAreEntries
<1>2. /\ \A e \in Entry : Holds(e)' /\ e.key = j => MapContents'[j] = e.val
      /\ (\A e \in Entry : Holds(e)' => e.key # j) => MapContents'[j] = NoObject
  BY ContentsAreNext DEF ContentsAreEntries
<1>. QED  BY <1>1, <1>2

LEMMA PutImplements ==
  ASSUME TableInv, Put
  PROVE  \E k \in Ids : \E v \in Objects : AsFiniteMap!Insert(k, v)
<1>1. /\ TableInv' /\ inserting \in Entry /\ answer' = MapContents[inserting.key]
      /\ \A e \in Entry : Holds(e)' <=> (Holds(e) /\ e.key # inserting.key) \/ e = inserting
  BY PutKeeps
<1>. DEFINE k == inserting.key
            v == inserting.val
<1>2. k \in Ids /\ v \in Objects
  BY <1>1 DEF Entry
<1>3. MapContents'[k] = v
  BY <1>1, <1>2, ContentsAreNext DEF ContentsAreEntries
<1>4. \A j \in Ids : j # k => MapContents'[j] = MapContents[j]
  BY <1>1, <1>2, ContentsAfterStep
<1>. HIDE DEF k, v
<1>5. MapContents' = [MapContents EXCEPT ![k] = v]
  BY <1>2, <1>3, <1>4, ContentsFunction
<1>6. answer' = MapContents[k]
  BY <1>1 DEF k
<1>. QED  BY <1>2, <1>5, <1>6 DEF AsFiniteMap!Insert

LEMMA RemoveImplements ==
  ASSUME TableInv, NEW k \in Ids, MapRemove(k)
  PROVE  AsFiniteMap!Remove(k)
<1>1. /\ TableInv' /\ answer' = MapContents[k]
      /\ \A e \in Entry : Holds(e)' <=> Holds(e) /\ e.key # k
  BY RemoveKeeps
<1>2. MapContents'[k] = NoObject
  BY <1>1, ContentsAreNext DEF ContentsAreEntries
<1>3. \A j \in Ids : j # k => MapContents'[j] = MapContents[j]
  BY <1>1, ContentsAfterStep
<1>4. MapContents' = [MapContents EXCEPT ![k] = NoObject]
  BY <1>2, <1>3, ContentsFunction
<1>. QED  BY <1>1, <1>4 DEF AsFiniteMap!Remove

LEMMA GetImplementsMap ==
  ASSUME TableInv, NEW k \in Ids, MapGet(k)
  PROVE  AsFiniteMap!Get(k)
BY GetKeeps, SameEntries DEF AsFiniteMap!Get

LEMMA FreeImplements ==
  ASSUME TableInv, MapFree
  PROVE  AsFiniteMap!Clear
<1>1. TableInv' /\ answer' = answer /\ \A e \in Entry : ~Holds(e)'
  BY FreeKeeps
<1>2. \A k \in Ids : MapContents'[k] = NoObject
  BY <1>1, ContentsAreNext DEF ContentsAreEntries
<1>3. MapContents' = [k \in Ids |-> NoObject]
  BY <1>2, ContentsFunction
<1>. QED  BY <1>1, <1>3 DEF AsFiniteMap!Clear

THEOREM MapStepImplements ==
  TableInv /\ [MapNext]_map_vars => [AsFiniteMap!Next]_<<MapContents, answer>>
<1>. SUFFICES ASSUME TableInv, [MapNext]_map_vars
              PROVE  [AsFiniteMap!Next]_<<MapContents, answer>>
  OBVIOUS
<1>1. CASE \E k \in Ids : MapGet(k)
  BY <1>1, GetImplementsMap DEF AsFiniteMap!Next
<1>2. CASE \E k \in Ids : MapRemove(k)
  BY <1>2, RemoveImplements DEF AsFiniteMap!Next
<1>3. CASE \E k \in Ids : \E v \in Objects : MapInsert(k, v)
  <2>1. PICK k \in Ids, v \in Objects : MapInsert(k, v)
    BY <1>3
  <2>2. answer' = answer
    BY <2>1 DEF MapInsert
  <2>. QED  BY <2>1, <2>2, InsertKeeps, SameEntries
<1>4. CASE Move
  <2>1. answer' = answer
    BY <1>4 DEF Move
  <2>. QED  BY <1>4, <2>1, MoveKeeps, SameEntries
<1>5. CASE NextBucket
  <2>1. answer' = answer
    BY <1>5 DEF NextBucket
  <2>. QED  BY <1>5, <2>1, NextBucketKeeps, SameEntries
<1>6. CASE Put
  BY <1>6, PutImplements DEF AsFiniteMap!Next
<1>7. CASE MapFree
  BY <1>7, FreeImplements DEF AsFiniteMap!Next
<1>8. CASE IterStart \/ IterNext
  BY <1>8, LoopKeeps, SameEntries
<1>9. CASE UNCHANGED map_vars
  <2>1. buckets' = buckets /\ old_buckets' = old_buckets /\ answer' = answer
    BY <1>9 DEF map_vars
  <2>2. MapContents' = MapContents
    BY <2>1 DEF MapContents
  <2>. QED  BY <2>1, <2>2
<1>. QED  BY <1>1, <1>2, <1>3, <1>4, <1>5, <1>6, <1>7, <1>8, <1>9 DEF MapNext

\* The hash table is a finite map, for any ids, objects and hash: growth and
\* collisions lose, repeat and misplace no entry (map.c:39-93).
THEOREM MapImplementsFiniteMap == MapSpec => MapIsMap
<1>1. MapInit => AsFiniteMap!Init
  <2>. SUFFICES ASSUME MapInit PROVE AsFiniteMap!Init
    OBVIOUS
  <2>1. TableInv
    BY MapInitInv
  <2>2. \A e \in Entry : ~Holds(e)
    BY StoresNone DEF MapInit, Holds
  <2>3. \A k \in Ids : MapContents[k] = NoObject
    BY <2>1, <2>2, ContentsAre DEF ContentsAreEntries
  <2>4. MapContents = [k \in Ids |-> NoObject]
    BY <2>3, ContentsFunction
  <2>. QED  BY <2>4 DEF MapInit, AsFiniteMap!Init
<1>2. TableInv /\ [MapNext]_map_vars => [AsFiniteMap!Next]_<<MapContents, answer>>
  BY MapStepImplements
<1>. QED  BY <1>1, <1>2, TableInvHolds, PTL DEF MapSpec, MapIsMap, AsFiniteMap!Spec

-----------------------------------------------------------------------------
(* A loop gets each entry once.                                            *)

\* No key is at two places.
LEMMA OnePlace ==
  ASSUME TableInv, NEW i \in 0..n_buckets - 1, NEW j \in 0..n_buckets - 1,
         NEW p \in 1..Len(buckets[i]), NEW q \in 1..Len(buckets[j]),
         buckets[i][p].key = buckets[j][q].key
  PROVE  i = j /\ p = q
<1>1. buckets[i] \in Seq(Entry) /\ buckets[j] \in Seq(Entry)
  BY DEF TableInv, MapTypes
<1>2. buckets[i][p] \in Entry /\ buckets[j][q] \in Entry
  BY <1>1, ElementOfSeq
<1>3. Member(buckets[i], buckets[i][p]) /\ Member(buckets[j], buckets[j][q])
  BY DEF Member
<1>4. i = j
  BY <1>2, <1>3 DEF TableInv, Placed
<1>. QED  BY <1>4 DEF TableInv, Placed, DistinctKeys

LEMMA AppendNew ==
  ASSUME NEW s \in Seq(Ids), NEW x \in Ids,
         \A p, q \in 1..Len(s) : s[p] = s[q] => p = q,
         \A q \in 1..Len(s) : s[q] # x
  PROVE  /\ \A p, q \in 1..Len(Append(s, x)) : Append(s, x)[p] = Append(s, x)[q] => p = q
         /\ \A k : (\E q \in 1..Len(Append(s, x)) : Append(s, x)[q] = k) <=>
                     (\E q \in 1..Len(s) : s[q] = k) \/ k = x
<1>. DEFINE t == Append(s, x)
<1>1. /\ Len(s) \in Nat /\ Len(t) = Len(s) + 1 /\ t[Len(s) + 1] = x
      /\ \A p \in 1..Len(s) : t[p] = s[p]
  BY AppendProperties, LenProperties
<1>. HIDE DEF t
<1>2. /\ \A p \in 1..Len(t) : p \in 1..Len(s) \/ p = Len(s) + 1
      /\ \A p \in 1..Len(s) : p \in 1..Len(t)
      /\ Len(s) + 1 \in 1..Len(t)
  BY <1>1
<1>3. \A p, q \in 1..Len(t) : t[p] = t[q] => p = q
  BY <1>1, <1>2
<1>4. \A k : (\E q \in 1..Len(t) : t[q] = k) <=> (\E q \in 1..Len(s) : s[q] = k) \/ k = x
  BY <1>1, <1>2
<1>. QED  BY <1>3, <1>4 DEF t

\* The keys of the places a loop has passed.
GotPassed(k) ==
  \E i \in 0..n_buckets - 1 : \E p \in 1..Len(buckets[i]) :
    buckets[i][p].key = k /\ Passed(i, p)

\* The loop passes one place more, and is given the key there.
LEMMA PassOne ==
  ASSUME TableInv, LoopInv, iter # NoIter, buckets' = buckets, n_buckets' = n_buckets,
         NEW g \in 0..n_buckets - 1, NEW at \in 1..Len(buckets[g]),
         iter' = [i |-> g, pos |-> at],
         ~Passed(g, at),
         \A i \in 0..n_buckets - 1 : \A p \in 1..Len(buckets[i]) :
           Passed(i, p)' <=> Passed(i, p) \/ (i = g /\ p = at),
         visited' = Append(visited, buckets[g][at].key)
  PROVE  LoopInv'
<1>. DEFINE x == buckets[g][at].key
<1>1. n_buckets \in Nat /\ buckets \in [0..n_buckets - 1 -> Seq(Entry)] /\ visited \in Seq(Ids)
  BY DEF TableInv, MapTypes
<1>2. x \in Ids
  <2>1. buckets[g] \in Seq(Entry)
    BY <1>1
  <2>2. buckets[g][at] \in Entry
    BY <2>1, ElementOfSeq
  <2>. QED  BY <2>2 DEF Entry
<1>3. /\ \A p, q \in 1..Len(visited) : visited[p] = visited[q] => p = q
      /\ \A k \in Ids : (\E q \in 1..Len(visited) : visited[q] = k) <=> GotPassed(k)
  BY DEF LoopInv, GotPassed
<1>4. ~GotPassed(x)
  <2>. SUFFICES ASSUME NEW i \in 0..n_buckets - 1, NEW p \in 1..Len(buckets[i]),
                       buckets[i][p].key = x, Passed(i, p)
                PROVE  FALSE
    BY DEF GotPassed
  <2>1. i = g /\ p = at
    BY OnePlace
  <2>. QED  BY <2>1
<1>5. \A k : GotPassed(k)' <=> GotPassed(k) \/ k = x
  <2>1. ASSUME NEW k, GotPassed(k)' PROVE GotPassed(k) \/ k = x
    <3>0. PICK i \in 0..n_buckets - 1 :
            \E p \in 1..Len(buckets[i]) : buckets[i][p].key = k /\ Passed(i, p)'
      BY <2>1 DEF GotPassed
    <3>1. PICK p \in 1..Len(buckets[i]) : buckets[i][p].key = k /\ Passed(i, p)'
      BY <3>0
    <3>2. Passed(i, p) \/ (i = g /\ p = at)
      BY <3>1
    <3>. QED  BY <3>1, <3>2 DEF GotPassed
  <2>2. ASSUME NEW k, GotPassed(k) PROVE GotPassed(k)'
    <3>0. PICK i \in 0..n_buckets - 1 :
            \E p \in 1..Len(buckets[i]) : buckets[i][p].key = k /\ Passed(i, p)
      BY <2>2 DEF GotPassed
    <3>1. PICK p \in 1..Len(buckets[i]) : buckets[i][p].key = k /\ Passed(i, p)
      BY <3>0
    <3>2. Passed(i, p)'
      BY <3>1
    <3>. QED  BY <3>1, <3>2 DEF GotPassed
  <2>3. GotPassed(x)'
    <3>1. Passed(g, at)'
      OBVIOUS
    <3>. QED  BY <3>1 DEF GotPassed
  <2>. QED  BY <2>1, <2>2, <2>3
<1>. HIDE DEF x
<1>6. \A q \in 1..Len(visited) : visited[q] # x
  BY <1>2, <1>3, <1>4
<1>7. /\ \A p, q \in 1..Len(visited') : visited'[p] = visited'[q] => p = q
      /\ \A k : (\E q \in 1..Len(visited') : visited'[q] = k) <=>
                  (\E q \in 1..Len(visited) : visited[q] = k) \/ k = x
  <2>1. visited' = Append(visited, x)
    BY DEF x
  <2>. QED  BY <1>1, <1>2, <1>3, <1>6, <2>1, AppendNew
<1>8. \A k \in Ids : (\E q \in 1..Len(visited') : visited'[q] = k) <=> GotPassed(k)'
  BY <1>3, <1>5, <1>7
<1>9. n_buckets # 0 /\ iter'.i < n_buckets /\ iter'.pos <= Len(buckets[iter'.i])
  <2>1. Len(buckets[g]) \in Nat
    BY <1>1, LenProperties
  <2>. QED  BY <1>1, <2>1
<1>. QED  BY <1>7, <1>8, <1>9 DEF LoopInv, GotPassed

LEMMA LoopTypes ==
  ASSUME TableInv, LoopInv, IterNext
  PROVE  /\ n_buckets \in Nat /\ buckets \in [0..n_buckets - 1 -> Seq(Entry)]
         /\ iter # NoIter /\ iter.i \in Nat /\ iter.pos \in Nat
         /\ iter = [i |-> iter.i, pos |-> iter.pos]
         /\ buckets' = buckets /\ n_buckets' = n_buckets
         /\ \A i \in 0..n_buckets - 1 : Len(buckets[i]) \in Nat
<1>1. n_buckets \in Nat /\ buckets \in [0..n_buckets - 1 -> Seq(Entry)]
      /\ iter # NoIter /\ iter \in [i : Nat, pos : Nat]
      /\ buckets' = buckets /\ n_buckets' = n_buckets
  BY DEF TableInv, MapTypes, IterNext
<1>2. \A i \in 0..n_buckets - 1 : Len(buckets[i]) \in Nat
  BY <1>1, LenProperties
<1>. QED  BY <1>1, <1>2

LEMMA IterNextLoop ==
  ASSUME TableInv, LoopInv, IterNext
  PROVE  LoopInv'
<1>1. /\ n_buckets \in Nat /\ buckets \in [0..n_buckets - 1 -> Seq(Entry)]
      /\ iter # NoIter /\ iter.i \in Nat /\ iter.pos \in Nat
      /\ iter = [i |-> iter.i, pos |-> iter.pos]
      /\ buckets' = buckets /\ n_buckets' = n_buckets
      /\ \A i \in 0..n_buckets - 1 : Len(buckets[i]) \in Nat
  BY LoopTypes
<1>2. CASE iter.i < n_buckets /\ iter.pos < Len(buckets[iter.i])
  <2>. DEFINE g == iter.i
              at == iter.pos + 1
  <2>1. /\ iter' = [i |-> g, pos |-> at]
        /\ visited' = Append(visited, buckets[g][at].key)
    BY <1>1, <1>2 DEF IterNext
  <2>2. g \in 0..n_buckets - 1 /\ at \in 1..Len(buckets[g])
    BY <1>1, <1>2
  <2>3. ~Passed(g, at)
    BY <1>1 DEF Passed
  <2>4. ASSUME NEW i \in 0..n_buckets - 1, NEW p \in 1..Len(buckets[i])
        PROVE  Passed(i, p)' <=> Passed(i, p) \/ (i = g /\ p = at)
    <3>1. iter'.i = iter.i /\ iter'.pos = iter.pos + 1
      BY <2>1
    <3>. QED  BY <1>1, <3>1 DEF Passed
  <2>. HIDE DEF g, at
  <2>. QED  BY <1>1, <2>1, <2>2, <2>3, <2>4, PassOne
<1>3. CASE ~(iter.i < n_buckets /\ iter.pos < Len(buckets[iter.i])) /\ NextChains # {}
  <2>. DEFINE g == NextChain
  <2>1. iter' = [i |-> g, pos |-> 1] /\ visited' = Append(visited, buckets[g][1].key)
    BY <1>3 DEF IterNext
  <2>2. /\ g \in iter.i + 1..n_buckets - 1 /\ buckets[g] # <<>>
        /\ \A j \in NextChains : g <= j
    BY <1>1, <1>3, NextChainIs
  <2>. HIDE DEF g
  <2>3. g \in 0..n_buckets - 1 /\ g > iter.i
    BY <1>1, <2>2
  <2>4. 1 \in 1..Len(buckets[g])
    BY <1>1, <2>2, <2>3
  <2>5. ~Passed(g, 1)
    BY <1>1, <2>3 DEF Passed
  <2>6. iter.pos = Len(buckets[iter.i])
    <3>1. iter.i \in 0..n_buckets - 1
      BY <1>1, <2>3
    <3>2. n_buckets # 0
      BY <1>1, <3>1
    <3>3. iter.pos <= Len(buckets[iter.i])
      BY <1>1, <3>2 DEF LoopInv
    <3>. QED  BY <1>1, <1>3, <3>1, <3>3
  <2>7. ASSUME NEW i \in 0..n_buckets - 1, NEW p \in 1..Len(buckets[i])
        PROVE  Passed(i, p)' <=> Passed(i, p) \/ (i = g /\ p = 1)
    <3>1. iter'.i = g /\ iter'.pos = 1
      BY <2>1
    <3>2. Passed(i, p)' <=> i < g \/ (i = g /\ p <= 1)
      BY <3>1 DEF Passed
    <3>3. CASE i > iter.i
      <4>1. buckets[i] # <<>>
        BY <1>1
      <4>2. i \in NextChains
        BY <1>1, <3>3, <4>1 DEF NextChains
      <4>3. g <= i
        BY <2>2, <4>2
      <4>4. ~Passed(i, p)
        BY <1>1, <3>3 DEF Passed
      <4>. QED  BY <1>1, <2>3, <3>2, <4>3, <4>4
    <3>4. CASE i <= iter.i
      <4>1. Passed(i, p)
        <5>1. i < iter.i \/ (i = iter.i /\ p <= iter.pos)
          BY <1>1, <2>6, <3>4
        <5>. QED  BY <5>1 DEF Passed
      <4>2. i < g
        BY <1>1, <2>3, <3>4
      <4>. QED  BY <3>2, <4>1, <4>2
    <3>. QED  BY <1>1, <3>3, <3>4
  <2>. QED  BY <1>1, <2>1, <2>3, <2>4, <2>5, <2>7, PassOne
<1>4. CASE ~(iter.i < n_buckets /\ iter.pos < Len(buckets[iter.i])) /\ NextChains = {}
  <2>1. iter' = NoIter
    BY <1>4 DEF IterNext
  <2>. QED  BY <2>1 DEF LoopInv
<1>. QED  BY <1>2, <1>3, <1>4

LEMMA IterStartLoop == ASSUME TableInv, IterStart  PROVE LoopInv'
<1>1. /\ iter' = [i |-> 0, pos |-> 0] /\ visited' = <<>>
      /\ buckets' = buckets /\ n_buckets' = n_buckets
  BY DEF IterStart
<1>2. iter'.i = 0 /\ iter'.pos = 0
  BY <1>1
<1>3. n_buckets \in Nat /\ \A i \in 0..n_buckets - 1 : Len(buckets[i]) \in Nat
  BY LenProperties DEF TableInv, MapTypes
<1>4. \A i \in 0..n_buckets - 1 : \A p \in 1..Len(buckets[i]) : ~Passed(i, p)'
  BY <1>2, <1>3 DEF Passed
<1>5. Len(visited') = 0
  BY <1>1
<1>6. 1..Len(visited') = {}
  BY <1>5
<1>7. IF n_buckets' = 0 THEN iter'.i = 0 /\ iter'.pos = 0
                        ELSE iter'.i < n_buckets' /\ iter'.pos <= Len(buckets'[iter'.i])
  BY <1>1, <1>2, <1>3
<1>8. /\ \A p, q \in 1..Len(visited') : visited'[p] = visited'[q] => p = q
      /\ \A k \in Ids :
           (\E q \in 1..Len(visited') : visited'[q] = k) <=>
              \E i \in 0..n_buckets' - 1 : \E p \in 1..Len(buckets'[i]) :
                buckets'[i][p].key = k /\ Passed(i, p)'
  BY <1>1, <1>4, <1>6
<1>. QED  BY <1>7, <1>8 DEF LoopInv

THEOREM LoopStepInv == TableInv /\ LoopInv /\ [MapNext]_map_vars => LoopInv'
<1>. SUFFICES ASSUME TableInv, LoopInv, [MapNext]_map_vars PROVE LoopInv'
  OBVIOUS
<1>1. CASE IterStart
  BY <1>1, IterStartLoop
<1>2. CASE IterNext
  BY <1>2, IterNextLoop
<1>3. CASE \/ \E k \in Ids : MapGet(k) \/ MapRemove(k) \/ \E v \in Objects : MapInsert(k, v)
           \/ MapFree
  <2>1. iter' = NoIter
    BY <1>3 DEF MapGet, MapRemove, MapInsert, MapFree, Idle
  <2>. QED  BY <2>1 DEF LoopInv
<1>4. CASE Move \/ NextBucket \/ Put
  <2>1. inserting # NotInserting /\ iter' = iter
    BY <1>4 DEF Move, NextBucket, Put, Resizing
  <2>2. iter' = NoIter
    BY <2>1 DEF TableInv, Moved
  <2>. QED  BY <2>2 DEF LoopInv
<1>5. CASE UNCHANGED map_vars
  <2>1. iter' = iter /\ visited' = visited /\ buckets' = buckets /\ n_buckets' = n_buckets
    BY <1>5 DEF map_vars
  <2>. QED  BY <2>1 DEF LoopInv, Passed
<1>. QED  BY <1>1, <1>2, <1>3, <1>4, <1>5 DEF MapNext

\* A loop that ends has passed every place.
LEMMA LoopEnds ==
  ASSUME TableInv, LoopInv, IterNext, iter' = NoIter
  PROVE  /\ \A p, q \in DOMAIN visited : visited[p] = visited[q] => p = q
         /\ {visited[p] : p \in DOMAIN visited} = KeysIn(buckets)
<1>1. /\ n_buckets \in Nat /\ buckets \in [0..n_buckets - 1 -> Seq(Entry)]
      /\ iter # NoIter /\ iter.i \in Nat /\ iter.pos \in Nat
      /\ iter = [i |-> iter.i, pos |-> iter.pos]
      /\ buckets' = buckets /\ n_buckets' = n_buckets
      /\ \A i \in 0..n_buckets - 1 : Len(buckets[i]) \in Nat
  BY LoopTypes
<1>2. visited \in Seq(Ids) /\ DOMAIN visited = 1..Len(visited)
      /\ \A q \in 1..Len(visited) : visited[q] \in Ids
  <2>1. visited \in Seq(Ids)
    BY DEF TableInv, MapTypes
  <2>. QED  BY <2>1, LenProperties, ElementOfSeq
<1>3. /\ \A p, q \in 1..Len(visited) : visited[p] = visited[q] => p = q
      /\ \A k \in Ids : (\E q \in 1..Len(visited) : visited[q] = k) <=> GotPassed(k)
  BY <1>1 DEF LoopInv, GotPassed
<1>4. ~(iter.i < n_buckets /\ iter.pos < Len(buckets[iter.i])) /\ NextChains = {}
  <2>1. NoIter.i = -1
    BY DEF NoIter
  <2>2. ASSUME iter.i < n_buckets, iter.pos < Len(buckets[iter.i]) PROVE FALSE
    <3>1. iter' = [i |-> iter.i, pos |-> iter.pos + 1]
      BY <1>1, <2>2 DEF IterNext
    <3>2. iter'.i = iter.i
      BY <3>1
    <3>. QED  BY <1>1, <2>1, <3>2
  <2>3. ASSUME NextChains # {} PROVE FALSE
    <3>1. iter' = [i |-> NextChain, pos |-> 1]
      BY <2>2, <2>3 DEF IterNext
    <3>2. NextChain \in iter.i + 1..n_buckets - 1
      BY <1>1, <2>3, NextChainIs
    <3>3. iter'.i = NextChain
      BY <3>1
    <3>. QED  BY <1>1, <2>1, <3>2, <3>3
  <2>. QED  BY <2>2, <2>3
<1>5. ASSUME NEW i \in 0..n_buckets - 1, NEW p \in 1..Len(buckets[i]) PROVE Passed(i, p)
  <2>1. i <= iter.i
    <3>. SUFFICES ASSUME i > iter.i PROVE FALSE
      BY <1>1
    <3>1. buckets[i] # <<>>
      BY <1>1
    <3>2. i \in NextChains
      BY <1>1, <3>1 DEF NextChains
    <3>. QED  BY <1>4, <3>2
  <2>2. i = iter.i => p <= iter.pos
    BY <1>1, <1>4
  <2>3. i < iter.i \/ (i = iter.i /\ p <= iter.pos)
    BY <1>1, <2>1, <2>2
  <2>. QED  BY <2>3 DEF Passed
<1>6. \A k : k \in KeysIn(buckets) <=> \E e \in Entry : Stores(buckets, e) /\ e.key = k
  BY <1>1, TableKeys
<1>7. ASSUME NEW k PROVE k \in KeysIn(buckets) <=> k \in Ids /\ GotPassed(k)
  <2>1. ASSUME NEW e \in Entry, Stores(buckets, e), e.key = k PROVE k \in Ids /\ GotPassed(k)
    <3>1. PICK i \in 0..n_buckets - 1 : Member(buckets[i], e)
      BY <1>1, <2>1 DEF Stores
    <3>2. PICK p \in 1..Len(buckets[i]) : buckets[i][p] = e
      BY <3>1 DEF Member
    <3>3. Passed(i, p)
      BY <1>5
    <3>. QED  BY <2>1, <3>2, <3>3 DEF GotPassed, Entry
  <2>2. ASSUME GotPassed(k) PROVE k \in KeysIn(buckets)
    <3>1. PICK i \in 0..n_buckets - 1 : \E p \in 1..Len(buckets[i]) : buckets[i][p].key = k
      BY <2>2 DEF GotPassed
    <3>2. PICK p \in 1..Len(buckets[i]) : buckets[i][p].key = k
      BY <3>1
    <3>3. buckets[i] \in Seq(Entry)
      BY <1>1
    <3>4. buckets[i][p] \in Entry /\ Stores(buckets, buckets[i][p])
      BY <1>1, <3>3, ElementOfSeq DEF Stores, Member
    <3>. QED  BY <1>6, <3>2, <3>4
  <2>. QED  BY <1>6, <2>1, <2>2
<1>. QED  BY <1>2, <1>3, <1>7

\* A loop over the map is given each key once, and all of them, for any ids,
\* objects and hash (map.c:108, common.c:97-105).
THEOREM LoopsVisitEachOnce == MapSpec => VisitsEachOnce
<1>1. MapInit => LoopInv
  BY DEF MapInit, LoopInv
<1>2. TableInv /\ LoopInv /\ [MapNext]_map_vars => LoopInv'
  BY LoopStepInv
<1>3. TableInv /\ LoopInv /\ [MapNext]_map_vars =>
        (iter # NoIter /\ iter' = NoIter =>
           /\ \A p, q \in DOMAIN visited : visited[p] = visited[q] => p = q
           /\ {visited[p] : p \in DOMAIN visited} = KeysIn(buckets))
  <2>. SUFFICES ASSUME TableInv, LoopInv, [MapNext]_map_vars, iter # NoIter, iter' = NoIter
                PROVE  /\ \A p, q \in DOMAIN visited : visited[p] = visited[q] => p = q
                       /\ {visited[p] : p \in DOMAIN visited} = KeysIn(buckets)
    OBVIOUS
  <2>1. CASE IterNext
    BY <2>1, LoopEnds
  <2>2. CASE IterStart \/ UNCHANGED map_vars
    BY <2>2 DEF IterStart, Idle, map_vars
  <2>3. CASE \/ \E k \in Ids : MapGet(k) \/ MapRemove(k) \/ \E v \in Objects : MapInsert(k, v)
             \/ MapFree
    BY <2>3 DEF MapGet, MapRemove, MapInsert, MapFree, Idle
  <2>4. CASE Move \/ NextBucket \/ Put
    BY <2>4 DEF Move, NextBucket, Put
  <2>. QED  BY <2>1, <2>2, <2>3, <2>4 DEF MapNext
<1>. QED  BY <1>1, <1>2, <1>3, TableInvHolds, PTL DEF MapSpec, VisitsEachOnce

-----------------------------------------------------------------------------
(* The number of entries.                                                  *)

KeysHeld == {k \in Ids : \E e \in Entry : Holds(e) /\ e.key = k}

CountInv == IsFiniteSet(KeysHeld) /\ n_entries = Cardinality(KeysHeld)

\* The keys of the table, from what it has.
LEMMA KeysSame ==
  ASSUME \A e \in Entry : Holds(e)' <=> Holds(e)
  PROVE  KeysHeld' = KeysHeld
BY DEF KeysHeld

LEMMA PutCounts ==
  ASSUME TableInv, CountInv, Put
  PROVE  CountInv'
<1>. DEFINE k == inserting.key
<1>1. /\ inserting \in Entry
      /\ \A e \in Entry : Holds(e)' <=> (Holds(e) /\ e.key # k) \/ e = inserting
  BY PutKeeps
<1>2. k \in Ids
  BY <1>1 DEF Entry
<1>3. KeysHeld' = KeysHeld \union {k}
  <2>1. ASSUME NEW j \in KeysHeld' PROVE j \in KeysHeld \union {k}
    BY <1>1, <2>1 DEF KeysHeld
  <2>2. ASSUME NEW j \in KeysHeld, j # k PROVE j \in KeysHeld'
    BY <1>1, <2>2 DEF KeysHeld
  <2>3. k \in KeysHeld'
    BY <1>1, <1>2 DEF KeysHeld
  <2>. QED  BY <2>1, <2>2, <2>3
<1>4. \A e : ~Stores(old_buckets, e)
  BY NothingOld DEF Put, Resizing
<1>5. CASE Has(Chain(k), k)
  <2>1. n_entries' = n_entries
    BY <1>5 DEF Put
  <2>2. k \in KeysHeld
    BY <1>2, <1>5, ChainHas DEF KeysHeld, Holds
  <2>3. KeysHeld' = KeysHeld
    BY <1>3, <2>2
  <2>. QED  BY <2>1, <2>3 DEF CountInv
<1>6. CASE ~Has(Chain(k), k)
  <2>1. n_entries' = n_entries + 1
    BY <1>6 DEF Put
  <2>2. k \notin KeysHeld
    BY <1>2, <1>4, <1>6, ChainHas DEF KeysHeld, Holds
  <2>3. IsFiniteSet(KeysHeld') /\ Cardinality(KeysHeld') = Cardinality(KeysHeld) + 1
    BY <1>3, <2>2, FS_AddElement DEF CountInv
  <2>. QED  BY <2>1, <2>3 DEF CountInv
<1>. QED  BY <1>5, <1>6

LEMMA RemoveCounts ==
  ASSUME TableInv, CountInv, NEW k \in Ids, MapRemove(k)
  PROVE  CountInv'
<1>1. \A e \in Entry : Holds(e)' <=> Holds(e) /\ e.key # k
  BY RemoveKeeps
<1>2. KeysHeld' = KeysHeld \ {k}
  <2>1. ASSUME NEW j \in KeysHeld' PROVE j \in KeysHeld /\ j # k
    BY <1>1, <2>1 DEF KeysHeld
  <2>2. ASSUME NEW j \in KeysHeld, j # k PROVE j \in KeysHeld'
    BY <1>1, <2>2 DEF KeysHeld
  <2>. QED  BY <2>1, <2>2
<1>3. \A e : ~Stores(old_buckets, e)
  BY NothingOld DEF MapRemove, Idle
<1>4. CASE Has(Chain(k), k)
  <2>1. n_entries' = n_entries - 1
    BY <1>4 DEF MapRemove
  <2>2. k \in KeysHeld
    BY <1>4, ChainHas DEF KeysHeld, Holds
  <2>3. IsFiniteSet(KeysHeld') /\ Cardinality(KeysHeld') = Cardinality(KeysHeld) - 1
    BY <1>2, <2>2, FS_RemoveElement DEF CountInv
  <2>. QED  BY <2>1, <2>3 DEF CountInv
<1>5. CASE ~Has(Chain(k), k)
  <2>1. n_entries' = n_entries
    BY <1>5 DEF MapRemove
  <2>2. k \notin KeysHeld
    BY <1>3, <1>5, ChainHas DEF KeysHeld, Holds
  <2>3. KeysHeld' = KeysHeld
    BY <1>2, <2>2
  <2>. QED  BY <2>1, <2>3 DEF CountInv
<1>. QED  BY <1>4, <1>5

THEOREM CountStepInv == TableInv /\ CountInv /\ [MapNext]_map_vars => CountInv'
<1>. SUFFICES ASSUME TableInv, CountInv, [MapNext]_map_vars PROVE CountInv'
  OBVIOUS
<1>1. CASE \E k \in Ids : MapRemove(k)
  BY <1>1, RemoveCounts
<1>2. CASE Put
  BY <1>2, PutCounts
<1>3. CASE MapFree
  <2>1. n_entries' = 0 /\ KeysHeld' = {}
    BY <1>3, FreeKeeps DEF MapFree, KeysHeld
  <2>. QED  BY <2>1, FS_EmptySet DEF CountInv
<1>4. ASSUME KeysHeld' = KeysHeld, n_entries' = n_entries PROVE CountInv'
  BY <1>4 DEF CountInv
<1>5. CASE \E k \in Ids : MapGet(k)
  <2>1. n_entries' = n_entries
    BY <1>5 DEF MapGet
  <2>. QED  BY <1>4, <1>5, <2>1, GetKeeps, KeysSame
<1>6. CASE \E k \in Ids : \E v \in Objects : MapInsert(k, v)
  <2>1. n_entries' = n_entries
    BY <1>6 DEF MapInsert
  <2>. QED  BY <1>4, <1>6, <2>1, InsertKeeps, KeysSame
<1>7. CASE Move
  <2>1. n_entries' = n_entries
    BY <1>7 DEF Move
  <2>. QED  BY <1>4, <1>7, <2>1, MoveKeeps, KeysSame
<1>8. CASE NextBucket
  <2>1. n_entries' = n_entries
    BY <1>8 DEF NextBucket
  <2>. QED  BY <1>4, <1>8, <2>1, NextBucketKeeps, KeysSame
<1>9. CASE IterStart \/ IterNext
  <2>1. n_entries' = n_entries
    BY <1>9 DEF IterStart, IterNext
  <2>. QED  BY <1>4, <1>9, <2>1, LoopKeeps, KeysSame
<1>10. CASE UNCHANGED map_vars
  <2>1. n_entries' = n_entries /\ buckets' = buckets /\ old_buckets' = old_buckets
    BY <1>10 DEF map_vars
  <2>2. \A e \in Entry : Holds(e)' <=> Holds(e)
    BY <2>1 DEF Holds, Stores
  <2>. QED  BY <1>4, <2>1, <2>2, KeysSame
<1>. QED  BY <1>1, <1>2, <1>3, <1>5, <1>6, <1>7, <1>8, <1>9, <1>10 DEF MapNext

\* A table whose entries are in their chains is one whose places differ in their keys.
LEMMA PlacesDiffer ==
  ASSUME NEW n \in Nat, NEW table \in [0..n - 1 -> Seq(Entry)],
         \A i \in 0..n - 1 : DistinctKeys(table[i]),
         \A i, j \in 0..n - 1 : \A e, f \in Entry :
           Member(table[i], e) /\ Member(table[j], f) /\ e.key = f.key => i = j
  PROVE  NoDuplicates(table)
<1>. SUFFICES ASSUME NEW x \in Places(table), NEW y \in Places(table),
                     EntryAt(table, x).key = EntryAt(table, y).key
              PROVE  x = y
  BY DEF NoDuplicates
<1>1. \A i \in 0..n - 1 : /\ DOMAIN table[i] = 1..Len(table[i])
                          /\ \A p \in 1..Len(table[i]) : table[i][p] \in Entry
  BY LenProperties, ElementOfSeq
<1>2. ASSUME NEW z \in Places(table)
      PROVE  \E i \in 0..n - 1 : \E p \in 1..Len(table[i]) :
               z = <<i, p>> /\ EntryAt(table, z) = table[i][p]
  <2>1. PICK i \in 0..n - 1 : z \in {i} \X DOMAIN table[i]
    BY DEF Places
  <2>2. PICK p \in 1..Len(table[i]) : z = <<i, p>>
    BY <1>1, <2>1
  <2>. QED  BY <2>2 DEF EntryAt
<1>3. PICK i \in 0..n - 1 : \E p \in 1..Len(table[i]) :
        x = <<i, p>> /\ EntryAt(table, x) = table[i][p]
  BY <1>2
<1>4. PICK p \in 1..Len(table[i]) : x = <<i, p>> /\ EntryAt(table, x) = table[i][p]
  BY <1>3
<1>5. PICK j \in 0..n - 1 : \E q \in 1..Len(table[j]) :
        y = <<j, q>> /\ EntryAt(table, y) = table[j][q]
  BY <1>2
<1>6. PICK q \in 1..Len(table[j]) : y = <<j, q>> /\ EntryAt(table, y) = table[j][q]
  BY <1>5
<1>7. i = j
  <2>1. table[i][p] \in Entry /\ Member(table[i], table[i][p])
    BY <1>1 DEF Member
  <2>2. table[j][q] \in Entry /\ Member(table[j], table[j][q])
    BY <1>1 DEF Member
  <2>3. table[i][p].key = table[j][q].key
    BY <1>4, <1>6
  <2>. QED  BY <2>1, <2>2, <2>3
<1>8. p = q
  BY <1>4, <1>6, <1>7 DEF DistinctKeys
<1>. QED  BY <1>4, <1>6, <1>7, <1>8

LEMMA MapInvIs == TableInv /\ CountInv => MapInv
<1>. SUFFICES ASSUME TableInv, CountInv PROVE MapInv
  OBVIOUS
<1>1. PICK m \in Nat : old_buckets \in [0..m - 1 -> Seq(Entry)] /\ DOMAIN old_buckets = 0..m - 1
  BY OldTable
<1>2. n_buckets \in Nat /\ buckets \in [0..n_buckets - 1 -> Seq(Entry)]
  BY DEF TableInv, MapTypes
<1>3. \A k : /\ k \in KeysIn(buckets) <=> \E e \in Entry : Stores(buckets, e) /\ e.key = k
             /\ k \in KeysIn(old_buckets) <=> \E e \in Entry : Stores(old_buckets, e) /\ e.key = k
  <2>1. \A k : k \in KeysIn(buckets) <=> \E e \in Entry : Stores(buckets, e) /\ e.key = k
    BY <1>2, TableKeys
  <2>2. \A k : k \in KeysIn(old_buckets) <=> \E e \in Entry : Stores(old_buckets, e) /\ e.key = k
    BY <1>1, TableKeys
  <2>. QED  BY <2>1, <2>2
<1>4. KeysIn(buckets) \union KeysIn(old_buckets) = KeysHeld
  <2>1. ASSUME NEW k PROVE k \in KeysIn(buckets) \union KeysIn(old_buckets) <=> k \in KeysHeld
    BY <1>3 DEF KeysHeld, Holds, Entry
  <2>. QED  BY <2>1
<1>5. KeysIn(buckets) \intersect KeysIn(old_buckets) = {}
  <2>. SUFFICES ASSUME NEW k \in KeysIn(buckets), k \in KeysIn(old_buckets) PROVE FALSE
    OBVIOUS
  <2>1. PICK e \in Entry : Stores(buckets, e) /\ e.key = k
    BY <1>3
  <2>2. PICK f \in Entry : Stores(old_buckets, f) /\ f.key = k
    BY <1>3
  <2>. QED  BY <2>1, <2>2 DEF TableInv, OldApart
<1>6. NoDuplicates(buckets)
  <2>1. ASSUME NEW i \in 0..n_buckets - 1, NEW j \in 0..n_buckets - 1,
               NEW e \in Entry, NEW f \in Entry,
               Member(buckets[i], e), Member(buckets[j], f), e.key = f.key
        PROVE  i = j
    <3>1. GetIndex(e.key, n_buckets) = i /\ GetIndex(f.key, n_buckets) = j
      BY <2>1 DEF TableInv, Placed
    <3>. QED  BY <2>1, <3>1
  <2>2. \A i \in 0..n_buckets - 1 : DistinctKeys(buckets[i])
    BY DEF TableInv, Placed
  <2>. QED  BY <1>2, <2>1, <2>2, PlacesDiffer
<1>7. NoDuplicates(old_buckets)
  <2>1. \A i \in 0..m - 1 : DistinctKeys(old_buckets[i])
    BY <1>1 DEF TableInv, OldApart
  <2>2. \A i, j \in 0..m - 1 : \A e, f \in Entry :
          Member(old_buckets[i], e) /\ Member(old_buckets[j], f) /\ e.key = f.key => i = j
    BY <1>1 DEF TableInv, OldApart
  <2>. QED  BY <1>1, <2>1, <2>2, PlacesDiffer
<1>8. ASSUME NEW i \in 0..n_buckets - 1, NEW p \in DOMAIN buckets[i]
      PROVE  GetIndex(buckets[i][p].key, n_buckets) = i
  <2>1. buckets[i] \in Seq(Entry)
    BY <1>2
  <2>2. p \in 1..Len(buckets[i]) /\ buckets[i][p] \in Entry
    BY <2>1, LenProperties, ElementOfSeq
  <2>3. Member(buckets[i], buckets[i][p])
    BY <2>2 DEF Member
  <2>. QED  BY <2>2, <2>3 DEF TableInv, Placed
<1>9. ASSUME n_buckets # 0 PROVE n_buckets <= WordSize /\ WordSize % n_buckets = 0
  <2>1. WordSize \in Nat \ {0} /\ WordSize % n_buckets = 0 /\ n_buckets \in Nat \ {0}
    BY <1>2, <1>9, MapAssumption DEF TableInv, Placed
  <2>2. ASSUME n_buckets > WordSize PROVE FALSE
    <3>1. WordSize % n_buckets = WordSize
      BY <2>1, <2>2
    <3>. QED  BY <2>1, <3>1
  <2>. QED  BY <2>1, <2>2
<1>10. n_entries = Cardinality(KeysHeld) /\ n_entries \in Nat
  BY FS_CardinalityType DEF CountInv
<1>11. MapTypeOK
  BY <1>10 DEF TableInv, MapTypes, MapTypeOK
<1>12. inserting # NotInserting => n_buckets # 0
  BY DEF TableInv, Moved
<1>. QED  BY <1>4, <1>5, <1>6, <1>7, <1>8, <1>9, <1>10, <1>11, <1>12 DEF MapInv

\* Each entry is in the chain of its key, no key is there twice, also in the
\* middle of a resize, and n_entries is their number (map.c:39-93).
THEOREM MapInvHolds == MapSpec => []MapInv
<1>1. MapInit => CountInv
  <2>. SUFFICES ASSUME MapInit PROVE CountInv
    OBVIOUS
  <2>1. KeysHeld = {} /\ n_entries = 0
    BY StoresNone DEF MapInit, KeysHeld, Holds
  <2>. QED  BY <2>1, FS_EmptySet DEF CountInv
<1>2. TableInv /\ CountInv /\ [MapNext]_map_vars => CountInv'
  BY CountStepInv
<1>3. TableInv /\ CountInv => MapInv
  BY MapInvIs
<1>. QED  BY <1>1, <1>2, <1>3, TableInvHolds, PTL DEF MapSpec
=============================================================================
