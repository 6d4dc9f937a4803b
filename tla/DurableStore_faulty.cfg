SPECIFICATION Spec
CONSTANTS
  MaxOps = 3
  MaxGen = 4
  MaxCrashes = 1
  MaxFaults = 1
  MaxWipes = 1
  LogLimit = 4
CHECK_DEADLOCK FALSE
INVARIANTS
  TypeOK
  NothingUnapplied
  WipeIsFinal
  CheckpointSurvives
  NoTie
PROPERTIES
  WorkerReturns
