SPECIFICATION Spec
CONSTANTS
  Requests = {r1, r2}
  Terminals = {t1}
  MaxStages = 2
  MaxSignals = 1
  None = None
CHECK_DEADLOCK FALSE
INVARIANTS
  OneExit
  StatusBeforeExit
  CtrlCReachesLatest
  JobTellsTheTruth
