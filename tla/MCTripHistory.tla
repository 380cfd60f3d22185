----------------------------- MODULE MCTripHistory -----------------------------
(* Instances of TripHistory for TLC. *)
EXTENDS TripHistory
=============================================================================
