SPECIFICATION Spec
CONSTANTS
  Sector = 2
  CacheSize = 0
  MinFill = 100
  SeekLimitArg = 7
  FileLen = 39
  SeekTargets = {3, 16, 38, 41}
  Backward = FALSE
  Interrupts = FALSE
  ShortReads = FALSE
  Reorder = TRUE
INVARIANTS TypeOK WindowHolds CopyInsideWindow EofAfterLast
PROPERTIES ReadReturns ImplementsFile
