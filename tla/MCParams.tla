------------------------------ MODULE MCParams ------------------------------
(* A small instance of Params for TLC. *)
EXTENDS Params, TLC

Card(profiles, profile, routes, selected) ==
  [profiles |-> profiles, profile |-> profile, routes |-> routes, selected |-> selected]

\* A card in two profiles, with different routes selected, and with its cable
\* pulled, when it is off and offers less.
CardStates == { Card(<<1, 2>>, 1, <<1, 2, 3>>, {1, 3}),
                Card(<<1, 2>>, 2, <<1, 2, 3>>, {2}),
                Card(<<0, 2>>, 0, <<3>>, {}) }

\* Routes of one profile and of two; the third is not for the node.
RoutesInProfiles == 1 :> {1} @@ 2 :> {1, 2} @@ 3 :> {1, 2}
=============================================================================
