SPECIFICATION Spec
CONSTANTS
  File = {main, a, b}
  Entry = main
  Library = {io}
  MaxImports = 2
  Texts <- const_Texts
  Suffix <- const_Suffix
  MaxDigits = 3
  MaxExprTokens = 6
  Sources <- const_Sources
  ReplLines <- const_Lines
  MaxTyped = 4
  AllTargets <- const_Targets
  Windows = {"windows-arm64"}
  Spellings = {"linux-x86_64", "linux-x86", "macos-arm64", "odd"}
  Canonical <- const_Canonical
  LArguments <- const_LArguments
  Subdirs <- const_Subdirs
  Doc = {"u", "v"}
  DocTexts = {"unlexed", "two", "unsound", "good"}
  Lexes = {"two", "unsound", "good"}
  SyntaxErrors <- const_SyntaxErrors
  Compiles = {"good"}
  Tidy = {"good"}
  ChangeLists <- const_ChangeLists
  MaxMessages = 3
INVARIANTS
  ImportsFirst
  Verdict
  PositionsExact
  NothingSkipped
  TreeMeant
  TextKept
  Stable
  ReplayRebuilds
  EntriesWhole
  LinkFresh
  ExitHonest
  AnswersCurrent
  DiagnosticsCurrent
PROPERTIES
  Returns
CHECK_DEADLOCK FALSE
