SPECIFICATION Spec
CONSTANTS
  MaxTokens = 9
INVARIANTS
  ParsesGrammar
  DepthsMatchNesting
PROPERTIES
  Terminates
CHECK_DEADLOCK FALSE
