CONSTANTS
  p1 = p1  p2 = p2  c1 = c1
  Kind = "tcpdrop"
  Pids <- MCPids
  Containers <- MCContainers
  Levels <- MCLevels
  Configs <- MCConfigsK8s
  NoConf = NoConf
  Absent = Absent
  None = None
  NBuckets = 2
  Hashes <- MCHashes
  ChanCap = 1
  MaxSpawns = 2
  MaxSets = 1
SPECIFICATION Spec
INVARIANT FollowsContainers
CHECK_DEADLOCK FALSE
