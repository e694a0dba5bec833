------------------------------ MODULE Filters ------------------------------
(* What Array.prototype.filter leaves of a list: its elements at the places *)
(* that pass, in their order.                                               *)
EXTENDS Naturals, FiniteSets

\* The j-th of a set of places.
Place(places, j) == CHOOSE i \in places : Cardinality({h \in places : h <= i}) = j

Filtered(s, places) == [j \in 1..Cardinality(places) |-> s[Place(places, j)]]
=============================================================================
