SPECIFICATION Spec
CONSTANTS
  Requests = {r1}
  Terminals = {t1}
  MaxStages = 2
  MaxSignals = 1
  None = None
CHECK_DEADLOCK FALSE
INVARIANTS
  StatusAlwaysFirst
