CONSTANTS
  p1 = p1  p2 = p2  c1 = c1
  Kind = "biostat"
  Pids <- MCPids
  Containers <- MCContainers
  Levels <- MCLevels
  Configs <- MCConfigsOnOff
  NoConf = NoConf
  Absent = Absent
  None = None
  NBuckets = 2
  Hashes <- MCHashes
  ChanCap = 1
  MaxSpawns = 3
  MaxSets = 1
SPECIFICATION Spec
INVARIANTS ControlFollowsConf ControlTracksWanted
PROPERTY WantedPidsGetRecorded
CHECK_DEADLOCK FALSE
