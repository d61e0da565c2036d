SPECIFICATION Spec
CONSTANTS
  Ring = 6
  SeqMod = 40
  Packets = 10
  InAir = 3
  MaxNoise = 3
  MaxLost = 2
INVARIANTS SlotsAgree NothingDropped
PROPERTIES InOrder
CHECK_DEADLOCK FALSE
