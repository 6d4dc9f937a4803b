SPECIFICATION Spec
CONSTANTS
  MaxOps = 3
  MaxGen = 5
  MaxCrashes = 2
  MaxFaults = 0
  MaxWipes = 0
  LogLimit = 4
INVARIANTS
  BootRepeatable
CHECK_DEADLOCK FALSE
