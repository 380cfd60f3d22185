---------------------------- MODULE MCTripMonitor ----------------------------
(* Instances of TripMonitor for TLC.  Trip t1 is hit by disruption 2 on its      *)
(* first segment and by 1 or 2 on its second; t2 shares its second segment.      *)
EXTENDS TripMonitor, TLC

CONSTANTS t1, t2

Connecting == t1 :> << {2}, {1, 2} >> @@ t2 :> << {1, 2} >>
ConnectingOnly == t1 :> << {2}, {1, 2} >>

CallSymmetry == Permutations(Calls)
Symmetry == CallSymmetry \cup Permutations(Cycles) \cup Permutations(Users)
=============================================================================
