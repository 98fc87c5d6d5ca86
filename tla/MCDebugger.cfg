SPECIFICATION Spec
CONSTANTS
  File = {"main.verb", "lib.verb"}
  MainFile = "main.verb"
  Line = {1, 2}
  Fn = {"f", "g"}
  FnFile <- const_FnFile
  None = None
  MaxDepth = 2
  MaxNest = 2
  MaxAsked = 2
CHECK_DEADLOCK FALSE
INVARIANTS
  BacktraceTrue
PROPERTIES
  StopsAsAsked
CONSTRAINT Small
