SPECIFICATION CSpec
CONSTANTS
  Sector = 1
  CacheSize = 10
  MinFill = 5
  SeekLimitArg = 4
  FileLen = 9
  SeekTargets = {6, 12}
  Backward = FALSE
  Interrupts = TRUE
  ShortReads = FALSE
  Reorder = FALSE
  MaxCommands = 2
INVARIANTS RepliesMatch ServedOnce OwnArgument SeekLandsAtCut
PROPERTY CommandReturns
