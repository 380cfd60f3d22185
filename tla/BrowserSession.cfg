SPECIFICATION FairSpec
CONSTANTS
  t1 = t1
  t2 = t2
  c1 = c1
  c2 = c2
  Tabs = {t1, t2}
  Calls = {c1, c2}
  MaxPair = 2
  None = None
INVARIANTS TypeOK WaitersAreAwaited
PROPERTIES NeverPresentedTwice RedirectsSettle
