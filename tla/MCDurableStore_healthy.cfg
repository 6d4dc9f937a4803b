SPECIFICATION Spec
CONSTANTS
  MaxOps = 4
  MaxGen = 5
  MaxCrashes = 2
  MaxFaults = 0
  MaxWipes = 1
  LogLimit = 6
CHECK_DEADLOCK FALSE
INVARIANTS
  LosesAtMostTail
  ReplayNeverStops
  LogBounded
PROPERTIES
  CheckpointInvisible
  ImplementsContract
