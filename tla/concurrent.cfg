SPECIFICATION Spec
CONSTANTS
  t1 = t1
  t2 = t2
  Threads <- MCThreads
  CallersExclude = FALSE
  ObjectIds = {1, 2}
  NewWriteBatchBit = 64
  FileCompactionPercent = 60
  SmallFileCleanupThreshold = 1
  TargetFileSize = 100
  MinCompactionFiles = 1
  MaxCalls = 2
  MaxSweeps = 1
  MaxCrashes = 0
SYMMETRY Symmetry
CHECK_DEADLOCK FALSE
INVARIANT LiveObjectsExact
INVARIANT TableBacked
INVARIANT EvacuationSafe
PROPERTY MaintenanceKeepsVersions
