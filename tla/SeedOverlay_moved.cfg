SPECIFICATION Spec
CONSTANTS
  Inputs <- Names
  PathMax = 3
  Contents <- Written
  Modes <- Allowed
  Images <- Release
  MaxSteps = 3
CHECK_DEADLOCK FALSE
PROPERTIES
  MoveSticks
