SPECIFICATION PowerSpec
CONSTANTS
  t1 = t1
  t2 = t2
  Threads <- OneThread
  CallersExclude = TRUE
  ObjectIds = {1}
  NewWriteBatchBit = 64
  FileCompactionPercent = 60
  SmallFileCleanupThreshold = 1
  TargetFileSize = 100
  MinCompactionFiles = 1
  Setups <- SyncAfterRestart
  SyncsExclude = TRUE
  MaxCalls = 1
  MaxSweeps = 0
  MaxCrashes = 1
  MaxPowerLosses = 0
CHECK_DEADLOCK FALSE
INVARIANT PromisesKept
