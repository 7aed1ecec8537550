------------------------------- MODULE MCTabs -------------------------------
(* A small instance of Tabs for TLC. *)
EXTENDS Tabs, TLC

CONSTANTS i1, i2, i3, i4

\* Three items in the first tab, one in the second.
FirstThree == [i \in {i1, i2, i3, i4} |-> IF i = i4 THEN 1 ELSE 0]

\* Items of one tab are interchangeable.
SameTab == Permutations({i1, i2, i3})
=============================================================================
