----------------------------- MODULE MCSearchPage -----------------------------
(* Instances of SearchPage for TLC. *)
EXTENDS SearchPage, TLC
CONSTANTS p1, p2, s1, s2
Alike == Permutations({p1, p2}) \cup Permutations({s1, s2})
=============================================================================
