CONSTANTS
  t1 = t1  c1 = c1  c2 = c2  p1 = p1  p2 = p2  f1 = f1  f2 = f2
  Tasks <- MCTasks
  CPUs <- MCCPUs
  Swapper = Swapper
  Controls <- MCControls
  MaxTrips = 2
  Pids <- MCPids
  Confs <- MCConfs
  None = None
  FirstConf <- MCFirst
  NBuckets = 2
  Hashes <- MCHashes
  MaxCalls = 2
SPECIFICATION MCSpec
INVARIANTS SleepsChargedOnce CallsCountedOnce
PROPERTIES SleepsGetExported CallsGetExported
CHECK_DEADLOCK FALSE
