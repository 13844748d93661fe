------------------------------- MODULE Sorting -------------------------------
(***************************************************************************)
(* The stable sort and the filter of an array (Array.prototype.sort and    *)
(* filter, external) as the positions they arrange, each found by the      *)
(* number of positions ahead of it, without recursion.                     *)
(***************************************************************************)
EXTENDS Integers, FiniteSets

\* Where a stable sort by key puts position i before position j.
Earlier(key, i, j) == key[i] < key[j] \/ (key[i] = key[j] /\ i < j)

\* The positions of I that it puts before i.
Ahead(I, key, i) == {j \in I : Earlier(key, j, i)}

\* The positions of I as a stable sort by key arranges them.
StableSort(I, key) == [k \in 1 .. Cardinality(I) |-> CHOOSE i \in I : Cardinality(Ahead(I, key, i)) = k - 1]

\* The positions of I in their own order.
InOrder(I) == StableSort(I, [i \in I |-> 0])
===============================================================================
