SPECIFICATION Spec
CONSTANTS
  Sector = 1
  CacheSize = 10
  MinFill = 2
  SeekLimitArg = 4
  FileLen = 20
  SeekTargets = {5, 18}
  Backward = FALSE
  Interrupts = TRUE
  ShortReads = TRUE
  Reorder = FALSE
INVARIANT DeliveredIsFile
PROPERTY BackKept
