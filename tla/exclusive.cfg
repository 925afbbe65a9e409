SPECIFICATION ReadSpec
CONSTANTS
  t1 = t1
  t2 = t2
  Threads <- MCThreads
  CallersExclude = TRUE
  ObjectIds = {1, 2}
  LastId = 3
  NewWriteBatchBit = 64
  FileCompactionPercent = 60
  SmallFileCleanupThreshold = 1
  TargetFileSize = 100
  MinCompactionFiles = 1
  MaxCalls = 2
  MaxSweeps = 1
  MaxCrashes = 1
  MaxReads = 1
SYMMETRY Symmetry
CHECK_DEADLOCK FALSE
INVARIANT RecoversCommitted
PROPERTY VersionsAdvance
PROPERTY ImplementsObjectStore
INVARIANT ReadsFresh
INVARIANT NextIdAbove
INVARIANT FreshIdsVacant
INVARIANT QuiescentAgreement
INVARIANT RangesDisjoint
INVARIANT TypeOK
