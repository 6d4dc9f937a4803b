SPECIFICATION Spec
CHECK_DEADLOCK FALSE
CONSTANTS
  Alphabets <- Keyboard
  Letters <- Name
  Digits = {}
  Operators <- NoSuch
  Escapes <- NoEscape
  MaxTyped = 4
  Takes = {}
  Candidates = {}
INVARIANTS
  OnlyWhatPrecedes
