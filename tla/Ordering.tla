------------------------------- MODULE Ordering -------------------------------
(***************************************************************************)
(* Lists in an order: what Array.sort, ORDER BY and a loop that keeps some of *)
(* the elements it goes through make of a list, by the positions they keep.    *)
(*                                                                         *)
(* The order is chosen by what it promises, and not computed as SetToSortSeq     *)
(* computes it, so that theorems can use the promise.                          *)
(***************************************************************************)
EXTENDS Integers, Sequences, FiniteSets

\* The members of a finite set one after the other, x before y where <<x, y>> is in R,
\* a strict total order on the set.
InOrder(S, R) ==
  CHOOSE f \in [1 .. Cardinality(S) -> S] :
    \A i, j \in DOMAIN f : i < j => <<f[i], f[j]>> \in R

Ascending(S) == InOrder(S, {p \in S \X S : p[1] < p[2]})

Descending(S) == InOrder(S, {p \in S \X S : p[1] > p[2]})

\* A stable sort: the positions by key, those of the same key as they were.
StableOrder(key) ==
  InOrder(DOMAIN key,
          {p \in (DOMAIN key) \X (DOMAIN key) :
             key[p[1]] < key[p[2]] \/ (key[p[1]] = key[p[2]] /\ p[1] < p[2])})

\* What is found at some positions of a list, one after the other.
Taken(list, positions) == [k \in DOMAIN positions |-> list[positions[k]]]

\* The first ones of a list, max at most.
FirstOnes(list, max) == SubSeq(list, 1, IF Len(list) < max THEN Len(list) ELSE max)

\* The elements of a list at a set of its positions, as they come.
Kept(list, positions) == Taken(list, Ascending(positions))
=============================================================================
