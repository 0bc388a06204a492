-------------------------------- MODULE Ranked --------------------------------
(* Sorting and filtering as Python's lists do it, by the rank of each element: *)
(* how many others are to come before it.                                     *)
EXTENDS Integers, FiniteSets

\* The elements of a finite set in the order of before, a set of pairs.
InOrderOf(before, S) ==
  [k \in 1..Cardinality(S) |->
     CHOOSE x \in S : Cardinality({y \in S : <<y, x>> \in before}) = k - 1]

\* list.sort(key=...): stable, by a number for each element.
Sooner(key) ==
  {p \in (DOMAIN key) \X (DOMAIN key) :
     key[p[1]] < key[p[2]] \/ (key[p[1]] = key[p[2]] /\ p[1] < p[2])}
SortedBy(key, seq) ==
  LET at == InOrderOf(Sooner(key), DOMAIN key) IN [k \in DOMAIN at |-> seq[at[k]]]

\* [x for x in seq if ...], where places has the indices of those that stay.
Picked(seq, places) ==
  LET at == InOrderOf({p \in places \X places : p[1] < p[2]}, places) IN
  [k \in DOMAIN at |-> seq[at[k]]]
=============================================================================
