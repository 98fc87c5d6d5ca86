SPECIFICATION Spec
CONSTANTS
  Block = {b1, b2, b3, b4}
  Nil = Nil
  Width = 2
  MaxTemp = 3
  MaxDepth = 3
  MaxLost = 1
  Name = {"x"}
  Lang = {"str", "arr", "set", "rec", "match", "each", "loop", "error"}
SYMMETRY Blocks
CONSTRAINT OneProgram
INVARIANTS
  RefExact
  LiveCountExact
  ScopesExact
  CascadeOwnsItsBlocks
  OnlyLostOrCyclicSurvive
PROPERTIES
  ReleasesShrink
