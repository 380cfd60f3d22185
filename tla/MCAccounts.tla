------------------------------ MODULE MCAccounts ------------------------------
(* Instances of Accounts for TLC. *)
EXTENDS Accounts, TLC

CONSTANTS p1, p2, p3

\* The pages are alike, and no property names one.
PageSymmetry == Permutations({p1, p2, p3})
=============================================================================
