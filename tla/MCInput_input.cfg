SPECIFICATION Spec
CONSTANTS
  Keys = {"a", "m"}
  Buttons = {"m"}
  FifoSize = 4
  MaxPresses = 2
  Texts <- MCTexts
  BufferSize = 5
  Binds <- MCBinds
  KindOf <- MCKindOf
  MaxKeyDown = 1
  QueueSize = 2
  MaxRepeats = 3
INVARIANTS KeysAgree LinesReturned CommandsInOrder
PROPERTY CommandsTaken
