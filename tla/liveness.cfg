SPECIFICATION FairSpec
CONSTANTS
  t1 = t1
  t2 = t2
  Threads <- MCThreads
  CallersExclude = FALSE
  ObjectIds = {1}
  NewWriteBatchBit = 64
  FileCompactionPercent = 60
  SmallFileCleanupThreshold = 1
  TargetFileSize = 100
  MinCompactionFiles = 1
  MaxCalls = 1
  MaxSweeps = 2
  MaxCrashes = 1
CHECK_DEADLOCK FALSE
PROPERTY CallsReturn
