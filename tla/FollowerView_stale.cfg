SPECIFICATION FSpec
CONSTANTS
  MaxOps = 3
  MaxGen = 4
  MaxCrashes = 0
  MaxFaults = 0
  MaxWipes = 0
  LogLimit = 4
INVARIANTS
  FollowerIsCurrent
  
CHECK_DEADLOCK FALSE
