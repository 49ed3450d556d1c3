-------------------------------- MODULE Places --------------------------------
(***************************************************************************)
(* What a filter keeps of a sequence: the elements at a set of places, in  *)
(* the order they had.                                                     *)
(***************************************************************************)
EXTENDS Integers, FiniteSets

\* The place with j of the places up to it.
Nth(places, j) == CHOOSE n \in places : Cardinality({m \in places : m <= n}) = j

Picked(s, places) == [j \in 1..Cardinality(places) |-> s[Nth(places, j)]]
===============================================================================
