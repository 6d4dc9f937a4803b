SPECIFICATION Spec
CHECK_DEADLOCK FALSE
INVARIANTS
  TypeOK
  StoreSound
  ShowsARealTree
  QuietReadIsCurrent
  TreeSound
  CommandSound
  CallsSound
  ScreenSound
  SessionSound
  BytesSound
PROPERTIES
  PartSteps
  Progress
