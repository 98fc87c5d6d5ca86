SPECIFICATION MapSpec
CONSTANTS
  Block = {b1, b2, b3}
  Nil = Nil
  Width = 2
  MaxTemp = 3
  MaxDepth = 2
  MaxLost = 1
  Name = {"x"}
  Lang = {"str", "each"}
  Gone = Gone
SYMMETRY Blocks
CONSTRAINT OneProgram
INVARIANTS
  MapCountsExact
