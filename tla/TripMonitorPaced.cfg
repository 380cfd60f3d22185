CONSTANTS
  t1 = t1
  t2 = t2
  Users = {u1, u2}
  Trips = {t1, t2}
  Segments <- Connecting
  Disruptions = {1, 2}
  Cycles = {c1}
  Calls = {k1, k2}
  MaxFollows = 3
  MaxChanges = 2
  MaxFailures = 1
  MaxLost = 0
SPECIFICATION Spec
PROPERTY NoEcho
SYMMETRY Symmetry
