--------------------------- MODULE MCRefreshTokens ---------------------------
(***************************************************************************)
(* RefreshTokens on small instances.  Requests, families and accounts are    *)
(* interchangeable; tokens and times are not (they are ordered).              *)
(***************************************************************************)
EXTENDS RefreshTokens, TLC

Symmetry == Permutations(Requests) \cup Permutations(Families)
            \cup Permutations(Users)

=============================================================================
