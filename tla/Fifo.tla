-------------------------------- MODULE Fifo --------------------------------
(* What the queue in src/events.c promises: first in, first out, no bound. *)
EXTENDS Sequences

CONSTANT Values

VARIABLE contents

Init == contents = <<>>

Push(v) == contents' = Append(contents, v)

Pop == /\ contents # <<>>
       /\ contents' = Tail(contents)

Next == Pop \/ \E v \in Values : Push(v)

Spec == Init /\ [][Next]_contents
=============================================================================
