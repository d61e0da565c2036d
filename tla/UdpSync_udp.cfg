SPECIFICATION Spec
CONSTANTS
  Frames = 6
  KeyEvery = 2
  Threshold = 2
  Second = 2
  Late = 2
  InAir = 2
  MaxSeeks = 1
INVARIANTS NeverAhead SeeksWhenBehind
PROPERTIES CatchesUp ByeEnds
