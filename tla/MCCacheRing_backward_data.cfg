SPECIFICATION Spec
CONSTANTS
  Sector = 1
  CacheSize = 10
  MinFill = 100
  SeekLimitArg = 4
  FileLen = 20
  SeekTargets = {2, 9, 18}
  Backward = TRUE
  Interrupts = FALSE
  ShortReads = FALSE
  Reorder = FALSE
INVARIANT DeliveredIsFile
