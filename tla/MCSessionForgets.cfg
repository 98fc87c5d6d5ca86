SPECIFICATION ReplSpec
CONSTANTS
  ReplLines <- const_Lines
  MaxTyped = 4
INVARIANTS
  SessionRebuilt
CHECK_DEADLOCK FALSE
