---------------------------- MODULE MCContainers ----------------------------
(***************************************************************************)
(* The containers the rest stands on, side by side: the ring of the event  *)
(* queue, the sorted array and the hash table.  Nothing is shared between  *)
(* them, so that in a behaviour one of them is used and the others keep    *)
(* their initial state.                                                    *)
(***************************************************************************)
EXTENDS EventQueue, Dict, Map

VARIABLE subject    \* the container that is used

all_vars == <<vars, dict_vars, map_vars, subject>>

MCInit == /\ Init /\ DictInit /\ MapInit
          /\ subject \in {"queue", "dict", "map"}

MCNext ==
  /\ UNCHANGED subject
  /\ \/ subject = "queue" /\ Next     /\ UNCHANGED <<dict_vars, map_vars>>
     \/ subject = "dict"  /\ DictNext /\ UNCHANGED <<vars, map_vars>>
     \/ subject = "map"   /\ MapNext  /\ UNCHANGED <<vars, dict_vars>>

MCSpec == MCInit /\ [][MCNext]_all_vars /\ WF_dict_vars(Turn)
=============================================================================
