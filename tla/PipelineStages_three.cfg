SPECIFICATION FairSpec
CONSTANTS
  N = 3
  MaxValues = 2
  Slack = 0
INVARIANTS TypeOK NeverAhead NothingLost NoLeak PushBased CutIsNotAnEnd
PROPERTIES StoppedAsksNoMore Terminates
CHECK_DEADLOCK FALSE
