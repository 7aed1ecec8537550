----------------------------- MODULE MCRegistry -----------------------------
(***************************************************************************)
(* The objects of the server in the program, on a small instance: their    *)
(* lives (module Lifecycle) and the marks of those that stay (Marks).  The *)
(* two share no state: Lifecycle counts references and leaves the data of  *)
(* its events out, Marks follows the data of objects that are not removed. *)
(* A behaviour is of the one or of the other.                              *)
(***************************************************************************)
EXTENDS Lifecycle, Marks

VARIABLE subject    \* what is watched

all_vars == <<vars, marks_vars, subject>>

MCInit == Init /\ MarksInit /\ subject \in {"lives", "marks"}

OfLives(A) == subject = "lives" /\ A /\ UNCHANGED <<marks_vars, subject>>
OfMarks(A) == subject = "marks" /\ A /\ UNCHANGED <<vars, subject>>

MCNext == OfLives(Next) \/ OfMarks(MarksNext)

MCSpec == MCInit /\ [][MCNext]_all_vars /\ WF_all_vars(OfLives(Dispatch))
=============================================================================
