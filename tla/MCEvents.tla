------------------------------ MODULE MCEvents ------------------------------
(***************************************************************************)
(* What is put off to the main loop: events in the queue and draws in the  *)
(* windows, each with a flag that suppresses further signals.  The two     *)
(* share no state, so that a behaviour is about the one or the other.      *)
(*                                                                         *)
(* For the events there are three small instances, of several emitters, of *)
(* several hooks and of several events; a behaviour is about one of them.  *)
(* Identities that have not been used are interchangeable, so that they    *)
(* are taken in a fixed order.                                             *)
(***************************************************************************)
EXTENDS Events, Refresh, Sequences

CONSTANTS e1, e2, h1, h2, h3

VARIABLE subject    \* the instance of the events, or the screen

all_vars == <<vars, refresh_vars, subject>>

Instances ==
  {[emitters |-> <<e1, e2>>, hooks |-> <<h1, h2>>,     events |-> 2],
   [emitters |-> <<e1>>,     hooks |-> <<h1, h2, h3>>, events |-> 2],
   [emitters |-> <<e1>>,     hooks |-> <<h1, h2>>,     events |-> 3]}

Screen == [emitters |-> <<>>, hooks |-> <<>>, events |-> 0]

\* Only the first of these identities have been used.
TakenInOrder(lives, identities) ==
  \E n \in 0..Len(identities) :
    \A x \in DOMAIN lives :
      lives[x].state # "unborn" <=> \E i \in 1..n : identities[i] = x

Within == /\ TakenInOrder(emitter', subject.emitters)
          /\ TakenInOrder(hook', subject.hooks)
          /\ seq' <= subject.events

MCInit == Init /\ RefreshInit /\ subject \in Instances \union {Screen}

MCNext ==
  /\ UNCHANGED subject
  /\ \/ subject # Screen /\ Next /\ Within    /\ UNCHANGED refresh_vars
     \/ subject = Screen /\ RefreshNext       /\ UNCHANGED vars

MCSpec == /\ MCInit /\ [][MCNext]_all_vars
          /\ WF_vars(Dispatch)
          /\ WF_refresh_vars(subject = Screen /\ MainStep)
=============================================================================
