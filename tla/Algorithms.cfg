CONSTANTS
  Topics = {"dedup", "strings", "order", "chain", "decl", "layout", "names", "object", "core", "netlink", "load", "lines", "hashmap"}
  v1 = v1  v2 = v2
  Keys <- MCKeys
  Values <- MCValues
  HashOf <- MCHashOf
  W = 3
  Kernels <- MCKernels
  Loads <- MCLoads
  MaxDoublings = 3
  Infos <- MCInfos
  Offsets <- MCOffsets
  MaxSize = 4
  Links <- MCLinks
  Ifindexes = {1, 2, 3}
  FlagSets <- MCFlagSets
  Errors = {"ok", "EIO"}
  Port = 7
  Now = 5
SYMMETRY MCSymmetry
SPECIFICATION MCSpec
CHECK_DEADLOCK FALSE
INVARIANTS DedupRight DumpRight PointsRight CoreFinds NetlinkAnswers LoadsAnswer LinesFound
PROPERTY HashmapIsMultimap
