CONSTANTS
  t1 = t1
  t2 = t2
  Users = {u1}
  Trips = {t1}
  Segments <- ConnectingOnly
  Disruptions = {1, 2}
  Cycles = {c1, c2}
  Calls = {k1}
  MaxFollows = 1
  MaxChanges = 1
  MaxFailures = 0
  MaxLost = 0
SPECIFICATION Spec
PROPERTY NoEcho
