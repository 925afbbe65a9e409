SPECIFICATION FileSpec
CONSTANTS
  NewWriteBatchBit = 64
  FileIds = {1, 2}
  Values <- SomeValues
  Compressing = FALSE
  Dictionaries = {2}
  MinSamples = 2
  MinAverage = 1
  MaxObjectSize = 3
  FileLsn = 7
  DamageCells = {0, 1, 7}
CHECK_DEADLOCK FALSE
INVARIANT ScanAccepts
