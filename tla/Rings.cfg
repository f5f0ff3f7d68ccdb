CONSTANTS
  t1 = t1  t2 = t2  s1 = s1  s2 = s2  a = a  c1 = c1  c2 = c2
  f1 = f1  f2 = f2  x1 = x1  x2 = x2  x3 = x3
  Threads <- MCThreads
  Socks <- MCSocks
  Conns <- MCConns
  Buffers <- MCBuffers
  NoConn = NoConn
  NoSock = NoSock
  RingSize = 1
  Levels <- MCLevels
  MaxEvents = 3
  MaxAccepts = 2
  Tasks <- MCThreads
  Files <- MCFiles
  WriteSizes <- MCWriteSizes
  NoFile = NoFile
  Nothing = Nothing
  Max_cpu = 2
  mmap_size = 4
  LostWords = 1
  OpenWords = 2
  WriteWords = 3
  Blocks = 3
  MaxOut = 2
  Producing = {"tx"}
  Consuming = {"comp"}
  Frames <- MCFrames
  Size = 2
  W = 4
  NoFrame = NoFrame
SYMMETRY MCSymmetry
SPECIFICATION MCSpec
INVARIANTS AcceptNamesItsConnection ConnectionsFollowed FilesAreReported NothingLeft RingIsQueue
PROPERTIES DurationsSpanOneStep IsChannel
CHECK_DEADLOCK FALSE
