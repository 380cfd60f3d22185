----------------------------- MODULE MCProfilPage -----------------------------
(* Instances of ProfilPage for TLC. *)
EXTENDS ProfilPage, TLC
CONSTANTS t1, t2, p1
Alike == Permutations({t1, t2})
=============================================================================
