SPECIFICATION Spec
CONSTANTS
  Main = main
  Thread = {main, t1, t2}
  Channel = {c1}
  Mutex = {m1}
  Prim = {p1, p2}
  Heap = {h1}
  None = None
  MaxSent = 3
CHECK_DEADLOCK FALSE
INVARIANTS
  NoLostWakeup
PROPERTIES
  ImplementsChannel
