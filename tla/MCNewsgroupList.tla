--------------------------- MODULE MCNewsgroupList ---------------------------
(* The instances of NewsgroupList that TLC checks.                         *)
EXTENDS NewsgroupList

\* Two groups, one of them on two lines of the newsrc, and a third that is new
TwoLines == <<2, 1, 2>>
SomeOrders == {[by |-> "count", dir |-> 1], [by |-> "natural", dir |-> 1]}
OnePattern == {{2, 3}}
Subscribed == [n \in Names |-> "sub"]

=============================================================================
