SPECIFICATION PartsSpec
CONSTANTS
  ItemIds = {1, 2, 3}
  ItemSizes <- Boundaries
  TargetSize = 2040
  MaxItems = 3
  NewWriteBatchBit = 64
  FileIds = {1, 2, 3}
  Values <- SomeValues
  Compressing = TRUE
  Dictionaries = {2}
  MinSamples = 2
  MinAverage = 1
  MaxObjectSize = 3
  FileLsn = 7
  DamageCells = {0, 1, 7}
  r1 = r1
  r2 = r2
  r3 = r3
  Readers <- MCReaders
  MaxPanics = 2
  Objects = {1, 2, 3}
  SizeOfObject <- UnevenSizes
  PartitionOf <- OnePartition
  CompactionPercent = 60
  CleanupThreshold = 2
  TargetFileSize = 5
  MinFiles = 2
  MaxBatches = 4
  ObjectIds = {1, 3}
  MaxStamp = 6
  Keys = {1, 2}
  KvValues = {1, 2}
CHECK_DEADLOCK FALSE
INVARIANT PartsComplete
INVARIANT NewBatchWhole
INVARIANT RewritesNearTarget
INVARIANT SizesCover
INVARIANT ReadersAgree
INVARIANT DamageDetected
INVARIANT ContextsPrivate
INVARIANT ContextsFreed
INVARIANT SecondCallIdle
INVARIANT PagesReadable
INVARIANT AcknowledgedSurvive
PROPERTY DecompressReturns
PROPERTY Settles
PROPERTY FilesNeverMultiply
