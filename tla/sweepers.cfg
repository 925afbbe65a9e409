SPECIFICATION HistorySpec
CONSTANTS
  t1 = t1
  t2 = t2
  Threads <- MCThreads
  CallersExclude = FALSE
  ObjectIds = {1}
  NewWriteBatchBit = 64
  FileCompactionPercent = 60
  SmallFileCleanupThreshold = 1
  TargetFileSize = 100
  MinCompactionFiles = 1
  MaxCalls = 2
  MaxSweeps = 2
  MaxCrashes = 1
SYMMETRY Symmetry
CHECK_DEADLOCK FALSE
INVARIANT ClaimsExclusive
INVARIANT RewrittenObjectsKnown
PROPERTY HistoryUnique
PROPERTY VerifyPasses
