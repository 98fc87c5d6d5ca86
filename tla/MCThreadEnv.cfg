SPECIFICATION HeapSpec
CONSTANTS
  Thread = {main, t1}
  Main = main
  MaxCount = 3
INVARIANTS
  EnvsCounted
CHECK_DEADLOCK FALSE
