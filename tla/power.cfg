SPECIFICATION PowerSpec
CONSTANTS
  t1 = t1
  t2 = t2
  Threads <- MCThreads
  CallersExclude = TRUE
  ObjectIds = {1, 2}
  NewWriteBatchBit = 64
  FileCompactionPercent = 60
  SmallFileCleanupThreshold = 1
  TargetFileSize = 100
  MinCompactionFiles = 2
  Setups <- DurableSetups
  SyncsExclude = TRUE
  MaxCalls = 2
  MaxSweeps = 1
  MaxCrashes = 1
  MaxPowerLosses = 1
SYMMETRY Symmetry
CHECK_DEADLOCK FALSE
INVARIANT PromisesKept
INVARIANT PowerLossAtomic
