------------------------------- MODULE Events -------------------------------
(***************************************************************************)
(* src/events.c: emitters, hooks, the queue of events and events_dispatch. *)
(*                                                                         *)
(* Everything runs in the one thread of the main loop.  What interleaves   *)
(* with events_dispatch is the code it calls: a listener's callback and an *)
(* event's "after" function may emit, add and release hooks, create and    *)
(* release emitters, all while the dispatcher holds a cursor into a hook   *)
(* list and a pointer into the ring.  The rest of the program does the     *)
(* same between two dispatches (pc = "idle").                              *)
(*                                                                         *)
(* Events are named by their sequence number.  The ring gives them back in *)
(* the order they were pushed (module EventQueue), so the queue is the     *)
(* interval popped+1 .. seq and the event being dispatched is popped.      *)
(***************************************************************************)
EXTENDS Integers, FiniteSets

CONSTANTS
  Emitters,         \* identities of emitters, each used for one life
  Hooks,            \* identities of hooks, each used for one life
  None,             \* the null pointer
  FirstSize,        \* size of the first ring (16 in queue_grow)
  MaxSeq            \* bound: events emitted in one behaviour

ASSUME ConstantsAssumption ==
  /\ IsFiniteSet(Hooks)
  /\ Emitters \cap Hooks = {}
  /\ None \notin Emitters \union Hooks
  /\ FirstSize \in Nat /\ FirstSize >= 2
  /\ MaxSeq \in Nat

Events == 1..MaxSeq

Links == Emitters \union Hooks    \* a struct list: a list head or a hook's link

VARIABLES
  emitter,          \* struct event_emitter: state, refcnt
  hook,             \* struct event_hook: state, refcnt, birth_seq, emitter
  next, prev,       \* the links of the hook lists; the emitter is the head
  event,            \* references an event owns, while it owns them
  seq,              \* g.seq, the number of the last event
  popped,           \* number of the last event popped
  size,             \* capacity of the ring
  slot,             \* the ring slot events_dispatch points to
  efd,              \* the eventfd is readable
  triggered,        \* g.efd_triggered
  pc,               \* where events_dispatch is
  iter, iterNext    \* LIST_FOREACH's iterator and its saved successor

objects  == <<emitter, hook, next, prev>>
queue    == <<event, seq, size, efd, triggered>>
dispatch == <<popped, pc, iter, iterNext>>
vars     == <<emitter, hook, next, prev, event, seq, size, efd, triggered,
              popped, pc, iter, iterNext, slot>>

Lives == {"unborn", "live", "released", "freed"}

NoEvent == [emitter |-> None, hook |-> None, after |-> FALSE]

TypeOK ==
  /\ emitter \in [Emitters -> [state : Lives, refcnt : Nat]]
  /\ hook \in [Hooks -> [state : Lives, refcnt : Nat, birth_seq : 0..MaxSeq,
                         emitter : Emitters \union {None}]]
  /\ next \in [Links -> Links]
  /\ prev \in [Links -> Links]
  /\ event \in [Events -> [emitter : Emitters \union {None},
                           hook : Hooks \union {None}, after : BOOLEAN]]
  /\ seq \in 0..MaxSeq
  /\ popped \in 0..seq
  /\ size \in Nat
  /\ slot \in {"intact", "freed", "misread"}
  /\ efd \in BOOLEAN /\ triggered \in BOOLEAN
  /\ pc \in {"idle", "pop", "visit", "callback", "ending", "after"}
  /\ iter \in Links \union {None} /\ iterNext \in Links \union {None}

Init ==
  /\ emitter = [e \in Emitters |-> [state |-> "unborn", refcnt |-> 0]]
  /\ hook = [h \in Hooks |-> [state |-> "unborn", refcnt |-> 0,
                              birth_seq |-> 0, emitter |-> None]]
  /\ next = [x \in Links |-> x] /\ prev = [x \in Links |-> x]
  /\ event = [n \in Events |-> NoEvent]
  /\ seq = 0 /\ popped = 0
  /\ size = 0 /\ slot = "intact"
  /\ efd = FALSE /\ triggered = FALSE
  /\ pc = "idle" /\ iter = None /\ iterNext = None

-----------------------------------------------------------------------------
(* Reference counts: the same code for hooks and emitters.                 *)

\* Broken: hook_ref and emitter_ref return the object without counting.
RefUncounted(object) == object

Ref(object) == [object EXCEPT !.refcnt = @ + 1]

\* Broken: the last reference to a released object does not free it.
UnrefLeaking(object) == [object EXCEPT !.refcnt = @ - 1]

Unref(object) ==
  LET count == object.refcnt - 1
  IN  [object EXCEPT !.refcnt = count,
                     !.state = IF count = 0 /\ object.state = "released"
                               THEN "freed" ELSE object.state]

\* Broken: releasing frees, whatever the reference count is.
ReleaseFreeing(object) == [object EXCEPT !.state = "freed"]

Release(object) ==
  [object EXCEPT !.state = IF object.refcnt = 0 THEN "freed" ELSE "released"]

\* The queue.  One slot of the ring stays empty.
QueueIsEmpty == popped = seq
QueueIsFull  == size = 0 \/ seq - popped + 1 = size
GrownSize    == IF size = 0 THEN FirstSize ELSE 2 * size

\* Whether an event is being dispatched, which, and if it goes to one hook only.
InFlight  == pc \notin {"idle", "pop"}
Current   == event[popped]
IsUnicast == Current.hook # None

\* Broken: a hook as old as the event, added by the callback of that event's
\* predecessor, counts as a listener.
DueInclusive(h) == hook[h].state = "live" /\ hook[h].birth_seq <= popped

\* The condition of the broadcast loop.
Due(h) == hook[h].state = "live" /\ hook[h].birth_seq < popped

-----------------------------------------------------------------------------
(* What listeners, after functions and the rest of the program may do.     *)

\* Program code runs between two dispatches, in a listener's callback, and
\* in the after function of an event.
ClientRuns == pc \in {"idle", "callback", "after"}

EmitterCreate(e) ==
  /\ ClientRuns
  /\ emitter[e].state = "unborn"
  /\ emitter' = [emitter EXCEPT ![e].state = "live"]
  /\ UNCHANGED <<hook, next, prev, queue, dispatch, slot>>

\* An emitter is released by the owner of its node or device, to which every
\* hook on it holds a reference: no hook is left.
EmitterRelease(e) ==
  /\ ClientRuns
  /\ emitter[e].state = "live"
  /\ \A h \in Hooks : ~(hook[h].state = "live" /\ hook[h].emitter = e)
  /\ emitter' = [emitter EXCEPT ![e] = Release(@)]
  /\ UNCHANGED <<hook, next, prev, queue, dispatch, slot>>

NewHook(e) == [state |-> "live", refcnt |-> 0, birth_seq |-> seq, emitter |-> e]

\* Broken: the hook goes to the end of the list.
AddHookLast(e, h) ==
  /\ ClientRuns
  /\ emitter[e].state = "live" /\ hook[h].state = "unborn"
  /\ hook' = [hook EXCEPT ![h] = NewHook(e)]
  /\ next' = [next EXCEPT ![prev[e]] = h, ![h] = e]
  /\ prev' = [prev EXCEPT ![e] = h, ![h] = prev[e]]
  /\ UNCHANGED <<emitter, queue, dispatch, slot>>

AddHook(e, h) ==
  /\ ClientRuns
  /\ emitter[e].state = "live" /\ hook[h].state = "unborn"
  /\ hook' = [hook EXCEPT ![h] = NewHook(e)]
  /\ next' = [next EXCEPT ![h] = next[e], ![e] = h]
  /\ prev' = [prev EXCEPT ![next[e]] = h, ![h] = e]
  /\ UNCHANGED <<emitter, queue, dispatch, slot>>

\* LIST_FOREACH has read the successor of the hook whose callback runs, so a
\* callback must not release that one.  Listeners release their own hook only.
HookRelease(h) ==
  /\ ClientRuns
  /\ hook[h].state = "live"
  /\ ~ (pc = "callback" /\ ~IsUnicast /\ h = iterNext)
  /\ next' = [next EXCEPT ![prev[h]] = next[h], ![h] = h]
  /\ prev' = [prev EXCEPT ![next[h]] = prev[h], ![h] = h]
  /\ hook' = [hook EXCEPT ![h] = Release(@)]
  /\ UNCHANGED <<emitter, queue, dispatch, slot>>

\* queue_push, with queue_grow when there is no room: the old ring is freed,
\* and with it the slot events_dispatch still points to.
Push(e, h, after) ==
  /\ seq < MaxSeq
  /\ seq' = seq + 1
  /\ event' = [event EXCEPT ![seq + 1] =
                 [emitter |-> e, hook |-> h, after |-> after]]
  /\ size' = IF QueueIsFull THEN GrownSize ELSE size
  /\ slot' = IF QueueIsFull /\ pc # "idle" THEN "freed" ELSE slot

\* eventfd_write, unless one is outstanding.
Wake == /\ efd' = (efd \/ ~triggered)
        /\ triggered' = TRUE

Broadcast(e, after) ==
  /\ ClientRuns
  /\ emitter[e].state = "live"
  /\ Push(e, None, after)
  /\ emitter' = [emitter EXCEPT ![e] = Ref(@)]
  /\ Wake
  /\ UNCHANGED <<hook, next, prev, dispatch>>

Unicast(h, after) ==
  /\ ClientRuns
  /\ hook[h].state = "live"
  /\ Push(hook[h].emitter, h, after)
  /\ emitter' = [emitter EXCEPT ![hook[h].emitter] = Ref(@)]
  /\ hook' = [hook EXCEPT ![h] = Ref(@)]
  /\ Wake
  /\ UNCHANGED <<next, prev, dispatch>>

-----------------------------------------------------------------------------
(* events_dispatch.                                                        *)

\* Broken: g.efd_triggered is not reset.
DispatchBeginTriggered ==
  /\ pc = "idle" /\ efd
  /\ efd' = FALSE
  /\ pc' = "pop"
  /\ UNCHANGED <<objects, event, seq, size, triggered, popped, iter, iterNext, slot>>

DispatchBegin ==
  /\ pc = "idle" /\ efd
  /\ efd' = FALSE /\ triggered' = FALSE
  /\ pc' = "pop"
  /\ UNCHANGED <<objects, event, seq, size, popped, iter, iterNext, slot>>

PopBroadcast ==
  /\ pc = "pop" /\ ~QueueIsEmpty
  /\ LET e == event[popped + 1].emitter
     IN  /\ event[popped + 1].hook = None
         /\ iter' = next[e]
         /\ iterNext' = next[next[e]]
  /\ popped' = popped + 1
  /\ pc' = "visit"
  /\ slot' = "intact"
  /\ UNCHANGED <<objects, queue>>

PopUnicast ==
  /\ pc = "pop" /\ ~QueueIsEmpty
  /\ LET h == event[popped + 1].hook
     IN  /\ h # None
         /\ hook[h].state = "live"
  /\ popped' = popped + 1
  /\ pc' = "callback"
  /\ slot' = "intact"
  /\ UNCHANGED <<objects, queue, iter, iterNext>>

\* The reference to the hook is dropped; the event no longer owns it.
DropHook(n, h) ==
  /\ hook' = [hook EXCEPT ![h] = Unref(@)]
  /\ event' = [event EXCEPT ![n].hook = None]

PopUnicastReleased ==
  /\ pc = "pop" /\ ~QueueIsEmpty
  /\ LET h == event[popped + 1].hook
     IN  /\ h # None
         /\ hook[h].state # "live"
         /\ DropHook(popped + 1, h)
  /\ popped' = popped + 1
  /\ pc' = "ending"
  /\ slot' = "intact"
  /\ UNCHANGED <<emitter, next, prev, seq, size, efd, triggered, iter, iterNext>>

\* The dispatcher calls the listener of the hook under the cursor.
Visit ==
  /\ pc = "visit" /\ iter \in Hooks /\ Due(iter)
  /\ pc' = "callback"
  /\ UNCHANGED <<objects, queue, popped, iter, iterNext, slot>>

\* Broken: the successor is read after the callback has returned.
AdvanceUnsaved ==
  /\ iter' = next[iter]
  /\ iterNext' = next[next[iter]]
  /\ pc' = "visit"

Advance ==
  /\ iter' = iterNext
  /\ iterNext' = next[iterNext]
  /\ pc' = "visit"

Skip ==
  /\ pc = "visit" /\ iter \in Hooks /\ ~Due(iter)
  /\ Advance
  /\ UNCHANGED <<objects, queue, popped, slot>>

BroadcastReturn ==
  /\ pc = "callback" /\ ~IsUnicast
  /\ Advance
  /\ UNCHANGED <<objects, queue, popped, slot>>

UnicastReturn ==
  /\ pc = "callback" /\ IsUnicast
  /\ DropHook(popped, Current.hook)
  /\ pc' = "ending"
  /\ UNCHANGED <<emitter, next, prev, seq, size, efd, triggered,
                 popped, iter, iterNext, slot>>

LoopEnd ==
  /\ pc = "visit" /\ iter \in Emitters
  /\ pc' = "ending"
  /\ iter' = None /\ iterNext' = None
  /\ UNCHANGED <<objects, queue, popped, slot>>

RunAfter ==
  /\ pc = "ending" /\ Current.after
  /\ pc' = "after"
  /\ UNCHANGED <<objects, queue, popped, iter, iterNext, slot>>

\* Broken: events_dispatch takes one event per wakeup.
FinishOne ==
  /\ pc = "after" \/ (pc = "ending" /\ ~Current.after)
  /\ emitter' = [emitter EXCEPT ![Current.emitter] = Unref(@)]
  /\ event' = [event EXCEPT ![popped] = NoEvent]
  /\ pc' = "idle"
  /\ UNCHANGED <<hook, next, prev, seq, size, efd, triggered,
                 popped, iter, iterNext, slot>>

\* The reference to the emitter is dropped.
Finish ==
  /\ pc = "after" \/ (pc = "ending" /\ ~Current.after)
  /\ emitter' = [emitter EXCEPT ![Current.emitter] = Unref(@)]
  /\ event' = [event EXCEPT ![popped] = NoEvent]
  /\ pc' = "pop"
  /\ UNCHANGED <<hook, next, prev, seq, size, efd, triggered,
                 popped, iter, iterNext, slot>>

DispatchEnd ==
  /\ pc = "pop" /\ QueueIsEmpty
  /\ pc' = "idle"
  /\ UNCHANGED <<objects, queue, popped, iter, iterNext, slot>>

\* event->seq or event->after is read through the pointer into a ring that a
\* callback has outgrown.  Either the freed memory still holds the old value,
\* and the actions above describe what follows, or it does not, and then the
\* behaviour is undefined: the model stops.
Misread ==
  /\ slot = "freed"
  /\ \/ pc = "ending"
     \/ pc = "visit" /\ iter \in Hooks /\ hook[iter].state = "live"
  /\ slot' = "misread"
  /\ UNCHANGED <<objects, queue, dispatch>>

Dispatch ==
  /\ slot # "misread"
  /\ \/ DispatchBegin \/ PopBroadcast \/ PopUnicast \/ PopUnicastReleased
     \/ Visit \/ Skip \/ BroadcastReturn \/ UnicastReturn
     \/ LoopEnd \/ RunAfter \/ Finish \/ DispatchEnd \/ Misread

Client ==
  /\ slot # "misread"
  /\ \/ \E e \in Emitters :
          \/ EmitterCreate(e) \/ EmitterRelease(e)
          \/ \E after \in BOOLEAN : Broadcast(e, after)
          \/ \E h \in Hooks : AddHook(e, h)
     \/ \E h \in Hooks :
          \/ HookRelease(h)
          \/ \E after \in BOOLEAN : Unicast(h, after)

Next == Dispatch \/ Client

\* The main loop calls events_dispatch when the eventfd is readable, and
\* callbacks return.
Spec == Init /\ [][Next]_vars /\ WF_vars(Dispatch)

-----------------------------------------------------------------------------
(* Safety.                                                                 *)

Owned(state) == state \in {"live", "released"}

EmitterRefs(e) == {n \in Events : event[n].emitter = e}
HookRefs(h)    == {n \in Events : event[n].hook = h}

\* A reference count is the number of queued or in-flight events that own a
\* reference: none is lost, none is dropped twice (hook_ref and hook_unref in
\* events.c:114-138, event_emit_internal, events_dispatch).
RefcntsExact ==
  /\ \A e \in Emitters : emitter[e].refcnt = Cardinality(EmitterRefs(e))
  /\ \A h \in Hooks : hook[h].refcnt = Cardinality(HookRefs(h))

\* "hook is freed when released == true && refcnt == 0" (events.c:21, 32): a
\* released object that nothing refers to is gone, one that an event refers to
\* is still there.
FreedExactly ==
  /\ \A e \in Emitters : emitter[e].state = "released" => emitter[e].refcnt > 0
  /\ \A h \in Hooks : hook[h].state = "released" => hook[h].refcnt > 0
  /\ \A n \in Events :
       /\ event[n].emitter # None => Owned(emitter[event[n].emitter].state)
       /\ event[n].hook # None => Owned(hook[event[n].hook].state)

\* What LIST_FOREACH will dereference is still linked into the list it walks
\* (events.c:155): callbacks add and release hooks while the cursor is in it.
CursorAllocated ==
  /\ pc = "visit" =>
       \/ iter = Current.emitter
       \/ iter \in Hooks /\ hook[iter].state = "live"
  /\ pc = "visit" \/ (pc = "callback" /\ ~IsUnicast) =>
       \/ iterNext = Current.emitter
       \/ /\ iterNext \in Hooks
          /\ hook[iterNext].state = "live"
          /\ hook[iterNext].emitter = Current.emitter
       \/ iter = Current.emitter

\* The links of a list are inverse to one another, stay on live hooks of one
\* emitter, and lead from younger to older hooks: a hook that a callback adds
\* is never met by the broadcast in progress (events.c:215, 157).
ListsWellFormed ==
  /\ \A x \in Links : prev[next[x]] = x /\ next[prev[x]] = x
  /\ \A h \in Hooks :
       IF hook[h].state = "live"
       THEN \/ next[h] = hook[h].emitter
            \/ /\ next[h] \in Hooks \ {h}
               /\ hook[next[h]].state = "live"
               /\ hook[next[h]].emitter = hook[h].emitter
               /\ hook[next[h]].birth_seq <= hook[h].birth_seq
       ELSE next[h] = h

\* No event waits in the queue while the main loop has nothing to wake it up
\* (g.efd_triggered, events.c:146-147, 254-257).
NoLostWakeup == pc = "idle" /\ ~QueueIsEmpty => efd

-----------------------------------------------------------------------------
(* The inductive invariant behind TypeOK, RefcntsExact, FreedExactly and   *)
(* NoLostWakeup (module EventsProofs).                                     *)

\* The events in the queue and the one being dispatched.
Outstanding == {n \in 1..seq : n > popped \/ (n = popped /\ InFlight)}

\* Exactly the outstanding events own references, and an event that has been
\* delivered owns none to a hook.
QueueOwns ==
  /\ InFlight => popped \in Events
  /\ pc \in {"visit", "ending", "after"} => ~IsUnicast
  /\ \A n \in Events : IF n \in Outstanding
                       THEN event[n].emitter \in Emitters
                       ELSE event[n] = NoEvent

HooksOnLiveEmitters ==
  \A h \in Hooks : hook[h].state = "live" =>
    /\ hook[h].emitter \in Emitters
    /\ emitter[hook[h].emitter].state = "live"

CursorOnLinks ==
  /\ pc = "visit" => iter \in Links /\ iterNext \in Links
  /\ pc = "callback" /\ ~IsUnicast => iterNext \in Links

\* What makes a reference count safe to act on: with the counts exact, an
\* object whose count drops to zero is referred to by no event (events.c:114,
\* 129), and a signal is outstanding while events wait (events.c:254).
Inv == /\ TypeOK
       /\ RefcntsExact
       /\ FreedExactly
       /\ QueueOwns
       /\ HooksOnLiveEmitters
       /\ CursorOnLinks
       /\ triggered = efd
       /\ NoLostWakeup

-----------------------------------------------------------------------------
(* The bus this implements.                                                *)

Listening == [e \in Emitters |->
                {h \in Hooks : hook[h].state = "live" /\ hook[h].emitter = e}]

\* Sets of links that a walk along next does not leave; it ends at the head.
Closed(S) == \A h \in S \cap Hooks : next[h] \in S

\* The hooks a walk along next meets from x on, up to the head of the list.
From(x) == {h \in Hooks : \A S \in SUBSET Links : x \in S /\ Closed(S) => h \in S}

\* Who an event in the queue is still to reach.
Addressees(n) ==
  IF event[n].hook # None
  THEN {h \in {event[n].hook} : hook[h].state = "live"}
  ELSE {h \in Listening[event[n].emitter] : hook[h].birth_seq < n}

\* Who the event being dispatched is still to reach.
Remaining ==
  CASE pc = "visit" -> {h \in From(iter) : Due(h)}
    [] pc = "callback" /\ ~IsUnicast -> {h \in From(iterNext) : Due(h)}
    [] OTHER -> {}

Pending ==
  LET first == IF InFlight THEN popped ELSE popped + 1
  IN  [i \in 1..(seq - first + 1) |->
         LET n == first + i - 1
         IN  [src |-> event[n].emitter,
              to  |-> IF n = popped THEN Remaining ELSE Addressees(n)]]

Bus == INSTANCE EventBus WITH listening <- Listening, pending <- Pending

\* events.c implements the bus: events reach exactly the hooks that listened
\* when they were emitted and still do, once, one event after the other.
BusSpec == Bus!Spec

-----------------------------------------------------------------------------
(* Liveness.                                                               *)

\* Every emitted event is dispatched and retired, unless the ring was misread.
EveryEventRetired ==
  \A n \in Events : seq >= n ~> (popped >= n /\ ~InFlight) \/ slot = "misread"

\* A released object does not stay allocated for ever.
ReleasedIsFreed ==
  /\ \A h \in Hooks :
       hook[h].state = "released" ~> hook[h].state = "freed" \/ slot = "misread"
  /\ \A e \in Emitters : emitter[e].state = "released" ~>
       emitter[e].state = "freed" \/ slot = "misread"
=============================================================================
