SPECIFICATION FaultSpec
CONSTANTS
  t1 = t1
  t2 = t2
  Threads <- OneThread
  CallersExclude = TRUE
  ObjectIds = {1, 2}
  NewWriteBatchBit = 64
  FileCompactionPercent = 60
  SmallFileCleanupThreshold = 1
  TargetFileSize = 100
  MinCompactionFiles = 1
  MaxCalls = 3
  MaxSweeps = 1
  MaxCrashes = 0
  MaxFaults = 1
CHECK_DEADLOCK FALSE
INVARIANT RecoversCommitted
