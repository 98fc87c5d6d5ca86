SPECIFICATION Spec
CONSTANTS
  Byte = {97, 98}
  MaxLen = 6
  MaxSep = 3
  Width = 4
  Precision = 2
  Other = {0, 1}
  Decls <- const_Decls
  MaxArms = 2
  None = None
  Sender = {"t1", "t2"}
  Script <- const_Script
  Locked = TRUE
  MaxWire = 3
  MaxAddrs = 2
  NL = NL
  Builtins <- const_Builtins
  StdModules <- const_StdModules
  Runtime = {"printf"}
  Types <- const_Types
  Signatures <- const_Signatures
  Bindable = {"map_len"}
  Callable = {"len", "Circle", "getf", "map_len", "send_line", "thread_spawn", "c_add", "printf"}
  MaxArgs = 2
  MaxCalls = 3
  Thread = {main, t1}
  Main = main
  MaxCount = 3
INVARIANTS
  StringsAgree
  Trichotomy
  IntLaws
  DispatchInChoice
  LinesWhole
  NoFdLost
  CallsLink
  CountsConfined
PROPERTIES
  ConnectionEnds
CHECK_DEADLOCK FALSE
