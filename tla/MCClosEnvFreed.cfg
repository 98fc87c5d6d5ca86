SPECIFICATION Spec
CONSTANTS
  b1 = b1
  b2 = b2
  b3 = b3
  b4 = b4
  b5 = b5
  b6 = b6
  b7 = b7
  Block = {b1, b2, b3, b4, b5, b6, b7}
  Nil = Nil
  Width = 1
  MaxTemp = 3
  MaxDepth = 2
  Name = {"f", "x"}
  Fn = {"f"}
  NoName = NoName
  Programs <- CallsResult
ACTION_CONSTRAINT LowestFree
CHECK_DEADLOCK FALSE
INVARIANTS
  EnvAliveAtEntry
