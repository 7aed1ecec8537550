------------------------------ MODULE EventBus ------------------------------
(***************************************************************************)
(* What the event bus of src/events.c promises to the code that uses it.   *)
(*                                                                         *)
(* An event is addressed, at the moment it is emitted, to the hooks that   *)
(* listen to its emitter then (broadcast) or to one of them (unicast).     *)
(* Events are handled one after the other in the order of their emission,  *)
(* each addressee receives an event at most once, a hook that stops        *)
(* listening receives nothing more, and an event is retired only when no   *)
(* addressee is left.  In which order the addressees of one event are      *)
(* called is left open.                                                    *)
(***************************************************************************)
EXTENDS Naturals, Sequences

CONSTANTS
  Emitters,         \* sources of events: the pipewire core, nodes, devices
  Hooks             \* registrations of a listener with an emitter

VARIABLES
  listening,        \* listening[e]: the hooks that listen to emitter e
  pending           \* the events that are not retired, oldest first

vars == <<listening, pending>>

Init == /\ listening = [e \in Emitters |-> {}]
        /\ pending = <<>>

\* A hook listens to one emitter, and a hook that has left does not return.
Listen(e, h) ==
  /\ \A f \in Emitters : h \notin listening[f]
  /\ listening' = [listening EXCEPT ![e] = @ \union {h}]
  /\ UNCHANGED pending

Unlisten(h) ==
  /\ \E e \in Emitters : h \in listening[e]
  /\ listening' = [e \in Emitters |-> listening[e] \ {h}]
  /\ pending' = [i \in DOMAIN pending |->
                   [pending[i] EXCEPT !.to = @ \ {h}]]

Emit(e, to) ==
  /\ pending' = Append(pending, [src |-> e, to |-> to])
  /\ UNCHANGED listening

Broadcast(e) == Emit(e, listening[e])

Unicast(e, h) == h \in listening[e] /\ Emit(e, {h})

Deliver(h) ==
  /\ pending # <<>>
  /\ h \in pending[1].to
  /\ pending' = [pending EXCEPT ![1].to = @ \ {h}]
  /\ UNCHANGED listening

Retire ==
  /\ pending # <<>>
  /\ pending[1].to = {}
  /\ pending' = Tail(pending)
  /\ UNCHANGED listening

Next == \/ Retire
        \/ \E e \in Emitters : Broadcast(e)
        \/ \E h \in Hooks : Unlisten(h) \/ Deliver(h)
        \/ \E e \in Emitters, h \in Hooks : Listen(e, h) \/ Unicast(e, h)

Spec == Init /\ [][Next]_vars
=============================================================================
