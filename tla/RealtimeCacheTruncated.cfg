CONSTANTS
  o1 = o1
  o2 = o2
  Operators = {o1}
  Publishes <- BothFeeds
  Unreachable <- NoFeed
  Truncated <- AlertsOfO1
  Cycles = {c1}
  MaxVersion = 1
  MaxFailures = 0
SPECIFICATION CacheFairSpec
PROPERTY HealthyFeedsCurrent
