SPECIFICATION Spec
CONSTANTS
  MaxOps = 3
  MaxGen = 5
  MaxCrashes = 2
  MaxFaults = 0
  MaxWipes = 1
  LogLimit = 4
INVARIANTS
  ReportedIsStored
CHECK_DEADLOCK FALSE
