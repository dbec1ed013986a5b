----------------------------- MODULE Selection ------------------------------
(***************************************************************************)
(* A list comprehension with a condition: the members of a list at some of *)
(* its places, in the order of the list.                                   *)
(***************************************************************************)
EXTENDS Naturals, FiniteSets

\* The k-th of some places.
Nth(places, k) == CHOOSE i \in places : Cardinality({j \in places : j <= i}) = k

Members(list, places) == [k \in 1 .. Cardinality(places) |-> list[Nth(places, k)]]
=============================================================================
