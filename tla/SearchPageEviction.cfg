SPECIFICATION Spec
CONSTANTS
  p1 = p1
  p2 = p2
  s1 = s1
  s2 = s2
  Places = {p1, p2}
  Unready = Unready
  None = None
  Slots = {s1, s2}
  MaxItineraries = 1
  MaxEntries = 1
  Retention = 0
SYMMETRY Alike
INVARIANTS TypeOK SessionFollowsPage CacheHoldsLatest LoadingIsAwaited
PROPERTY OfflineResultsUsable
CHECK_DEADLOCK FALSE
