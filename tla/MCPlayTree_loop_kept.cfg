SPECIFICATION Spec
CONSTANTS
  Opts = {"o", "g", "loop"}
  GlobalOpts = {"g"}
  Aliased = {"loop"}
  Vals <- MCVals
  Default <- MCDefault
  Nodes <- MCNodes
  NONE = NONE
  Root = 1
  Sources <- MCSources
  Shapes <- MCLooping
  NewFiles = {8}
  Loop = "loop"
  Steps <- MCSteps
  MaxCommands = 0
INVARIANT AllRestored
