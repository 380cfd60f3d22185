CONSTANTS
  t1 = t1
  t2 = t2
  Users = {u1}
  Trips = {t1, t2}
  Segments <- Connecting
  Disruptions = {1, 2}
  Cycles = {c1, c2}
  Calls = {k1, k2}
  MaxFollows = 2
  MaxChanges = 2
  MaxFailures = 1
  MaxLost = 1
SPECIFICATION FairSpec
INVARIANTS TypeOK OneFollowPerUser RecordedWasSent
PROPERTIES FollowNeverReverts DisruptionReachesUser
