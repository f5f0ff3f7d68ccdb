CONSTANTS
  c1 = c1  c2 = c2  p1 = p1  p2 = p2  n1 = n1  n2 = n2  d1 = d1  d2 = d2
  Containers <- MCContainers
  Pids <- MCPids
  Unknown = Unknown
  NotCached = NotCached
  MaxSets = 3
  Collectors <- MCCollectors
  Early <- MCEarly
  Fcounts <- MCFcounts
  ChanCap = 1
  Pods <- MCPods
  MaxStarts = 2
SPECIFICATION MCSpec
INVARIANTS StaleNamesBeingEvicted RegistrySettles
PROPERTIES StaleNamesGoAway EndTellsAll
CHECK_DEADLOCK FALSE
