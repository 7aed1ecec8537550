------------------------------ MODULE FiniteMap ------------------------------
(***************************************************************************)
(* What the associative containers in src/collections promise: dict.c, a   *)
(* sorted array, and map.c, a hash table.  A call finds the value its key  *)
(* has, or none, and leaves every other key alone.                         *)
(***************************************************************************)
CONSTANTS Keys, Values, Missing

VARIABLES
  contents,         \* the value of each key, Missing where there is none
  found             \* what the last call found at its key

Init == /\ contents = [k \in Keys |-> Missing]
        /\ found = Missing

Insert(k, v) ==
  /\ found' = contents[k]
  /\ contents' = [contents EXCEPT ![k] = v]

Get(k) ==
  /\ found' = contents[k]
  /\ UNCHANGED contents

Remove(k) ==
  /\ found' = contents[k]
  /\ contents' = [contents EXCEPT ![k] = Missing]

Clear ==
  /\ contents' = [k \in Keys |-> Missing]
  /\ UNCHANGED found

Next == \/ Clear
        \/ \E k \in Keys : Get(k) \/ Remove(k) \/ \E v \in Values : Insert(k, v)

Spec == Init /\ [][Next]_<<contents, found>>
=============================================================================
