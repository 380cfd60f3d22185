--------------------------- MODULE MCRealtimeCache ---------------------------
(* Instances of RealtimeCache for TLC: o1 publishes both feeds, o2 only alerts. *)
EXTENDS RealtimeCache, TLC

CONSTANTS o1, o2

BothFeeds == o1 :> Feeds
TwoOperators == o1 :> Feeds @@ o2 :> {"alerts"}
NoFeed == {}
AlertsOfO1 == {<<o1, "alerts">>}

CycleSymmetry == Permutations(Cycles)
=============================================================================
