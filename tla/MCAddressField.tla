---------------------------- MODULE MCAddressField ----------------------------
(* Instances of AddressField for TLC. *)
EXTENDS AddressField
CONSTANTS q1, q2, k1, k2, k3
Alike == Permutations({q1, q2}) \cup Permutations({k1, k2, k3})
=============================================================================
