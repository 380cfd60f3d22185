CONSTANTS
  t1 = t1
  t2 = t2
  Users = {u1}
  Trips = {t1, t2}
  Segments <- Connecting
  Disruptions = {1, 2}
  Cycles = {c1}
  Calls = {k1}
  MaxFollows = 2
  MaxChanges = 1
  MaxFailures = 0
  MaxLost = 0
SPECIFICATION Spec
INVARIANT LastIsOfThisFollow
