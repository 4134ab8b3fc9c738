------------------------------- MODULE Sorted -------------------------------
(***************************************************************************)
(* A query's ORDER BY: the members of a finite set as a sequence. An order  *)
(* is the set of the pairs whose first comes before its second; it leaves   *)
(* no two members without one.                                              *)
(***************************************************************************)
EXTENDS Naturals, Sequences, FiniteSets

\* A member's place is the number of those that come before it, and one.
SortedBy(S, order) ==
  [i \in 1..Cardinality(S) |->
     CHOOSE e \in S : Cardinality({d \in S : <<d, e>> \in order}) = i - 1]

\* What a sequence has at some of its places, in its order: a filter.
Picked(seq, places) ==
  LET place == SortedBy(places, {d \in places \X places : d[1] < d[2]})
  IN  [k \in 1..Len(place) |-> seq[place[k]]]
=============================================================================
