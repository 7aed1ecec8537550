----------------------------- MODULE EventQueue -----------------------------
(***************************************************************************)
(* The ring of struct event_queue in src/events.c: queue_push, queue_pop,  *)
(* queue_is_full and queue_grow.                                           *)
(*                                                                         *)
(* What is at stake is that the ring is a FIFO across wrap-around and      *)
(* growth.  queue_pop returns a pointer into the ring, which               *)
(* events_dispatch keeps using while callbacks push further events: that   *)
(* growth takes the slot away is in module Events.                         *)
(***************************************************************************)
EXTENDS Integers, Sequences

CONSTANTS
  Values,           \* what events carry
  Garbage,          \* what calloc or a popped slot holds
  FirstSize,        \* 16 in queue_grow
  MaxLength         \* bound: events in the queue

ASSUME QueueAssumption ==
  /\ Garbage \notin Values
  /\ FirstSize \in Nat /\ FirstSize >= 2
  /\ MaxLength \in Nat

VARIABLES
  ring,             \* the slots, from 0 to size - 1
  size, write, read

vars == <<ring, size, write, read>>

TypeOK ==
  /\ size \in Nat
  /\ ring \in [0..size - 1 -> Values \union {Garbage}]
  /\ read \in 0..size /\ write \in 0..size

Init == /\ ring = [i \in {} |-> Garbage] /\ size = 0
        /\ write = 0 /\ read = 0

IsEmpty == read = write
IsFull  == IF size = 0 THEN TRUE ELSE (write + 1) % size = read

\* The number of events the loop in queue_grow copies.
Length == IF size = 0 THEN 0 ELSE (write - read + size) % size

NewSize == IF size = 0 THEN FirstSize ELSE 2 * size

\* Broken: slots are copied from the start of the ring, not from read.
GrownUnrotated == [i \in 0..NewSize - 1 |-> IF i < size THEN ring[i] ELSE Garbage]

\* queue_grow copies the events to the front of the new ring.
Grown == [i \in 0..NewSize - 1 |->
            IF i < Length THEN ring[(read + i) % size] ELSE Garbage]

PushInPlace(v) ==
  /\ ~IsFull
  /\ ring' = [ring EXCEPT ![write] = v]
  /\ write' = (write + 1) % size
  /\ UNCHANGED <<size, read>>

PushGrowing(v) ==
  /\ IsFull
  /\ ring' = [Grown EXCEPT ![Length] = v]
  /\ size' = NewSize
  /\ read' = 0
  /\ write' = (Length + 1) % NewSize

Pop ==
  /\ ~IsEmpty
  /\ read' = (read + 1) % size
  /\ UNCHANGED <<ring, size, write>>

Push(v) == Length < MaxLength /\ (PushInPlace(v) \/ PushGrowing(v))

Next == Pop \/ \E v \in Values : Push(v)

Spec == Init /\ [][Next]_vars

-----------------------------------------------------------------------------
\* The events in the queue, oldest first.
Contents == [i \in 1..Length |-> ring[(read + i - 1) % size]]

Queue == INSTANCE Fifo WITH contents <- Contents

\* The ring is a FIFO: growth and wrap-around lose, repeat and reorder nothing
\* (events.c:71-108).
FifoSpec == Queue!Spec
=============================================================================
