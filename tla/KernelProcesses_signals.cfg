SPECIFICATION Spec
CONSTANTS
  Requests = {r1}
  Terminals = {t1}
  MaxStages = 2
  MaxSignals = 3
  None = None
CHECK_DEADLOCK FALSE
INVARIANTS
  TypeOK
  EarlyCancelNeverRuns
  KillIsNotIgnored
PROPERTIES
  FirstExitWins
  EveryExecExits
