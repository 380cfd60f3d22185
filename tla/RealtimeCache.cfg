CONSTANTS
  o1 = o1
  o2 = o2
  Operators = {o1, o2}
  Publishes <- TwoOperators
  Unreachable <- AlertsOfO1
  Truncated <- NoFeed
  Cycles = {c1, c2}
  MaxVersion = 1
  MaxFailures = 1
SPECIFICATION CacheFairSpec
PROPERTIES RefreshLosesNoGround HealthyFeedsCurrent
