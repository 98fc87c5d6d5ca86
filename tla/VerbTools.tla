------------------------------ MODULE VerbTools ------------------------------
(***************************************************************************)
(* The parts of the verb commands that share no state with each other: the *)
(* scanner, the parser of expressions, the resolver of imports, the        *)
(* formatter, the REPL, the builder and the language server.  A behaviour  *)
(* is one of a single part, with the others at the end of one of theirs.   *)
(***************************************************************************)
EXTENDS VerbResolve, VerbLexer, VerbExpr, VerbFormat, VerbRepl, VerbBuild, VerbLsp

\* The entry cannot be read.
NoImport ==
  /\ onDisk = [f \in File |-> Unreadable]
  /\ stack = <<>> /\ pending = {Entry} /\ done = {}
  /\ sources = <<>> /\ stmts = <<>> /\ libs = <<>>
  /\ verdict = "io"

\* The empty text.
NoText ==
  /\ text = <<>>
  /\ i = 1 /\ line = 1 /\ col = 1
  /\ mode = "done" /\ start = Here
  /\ toks = <<Item("eof", Here, 1)>>
  /\ lexErr = NoError

\* No expression.
NoExpression ==
  /\ passed = <<>> /\ ahead = ";" /\ calls = Expression \o <<";">>
  /\ trees = <<>> /\ parsed = "error"

\* Nothing to format.
NoSource == source = <<>> /\ items = <<>> /\ first = <<>> /\ Rewound

\* The session ended before it began.
NoSession ==
  /\ history = <<>> /\ buffer = <<>> /\ typed = <<>> /\ entries = <<>>
  /\ ended = "quit"
  /\ known = NoNames /\ forgotten = {} /\ turn = Quiet

\* No object could be emitted.
NoBuild ==
  /\ command = "host" /\ std = {} /\ todo = <<>> /\ stage = 1
  /\ temps = [f \in {} |-> Host] /\ linked = {}
  /\ results = <<[target |-> Host, ok |-> FALSE]>> /\ exit = "1"

\* The editor is gone.
NoEditor ==
  /\ docs = [u \in {} |-> "none"] /\ shutting = FALSE /\ loop = "broken off"
  /\ sent = <<>> /\ received = <<>>

Init ==
  \/ /\ ResolveInit
     /\ NoText /\ NoExpression /\ NoSource /\ NoSession /\ NoBuild /\ NoEditor
  \/ /\ LexInit
     /\ NoImport /\ NoExpression /\ NoSource /\ NoSession /\ NoBuild /\ NoEditor
  \/ /\ ExprInit
     /\ NoImport /\ NoText /\ NoSource /\ NoSession /\ NoBuild /\ NoEditor
  \/ /\ FormatInit
     /\ NoImport /\ NoText /\ NoExpression /\ NoSession /\ NoBuild /\ NoEditor
  \/ /\ ReplInit
     /\ NoImport /\ NoText /\ NoExpression /\ NoSource /\ NoBuild /\ NoEditor
  \/ /\ BuildInit
     /\ NoImport /\ NoText /\ NoExpression /\ NoSource /\ NoSession /\ NoEditor
  \/ /\ LspInit
     /\ NoImport /\ NoText /\ NoExpression /\ NoSource /\ NoSession /\ NoBuild

vars == <<resolveVars, lexVars, exprVars, formatVars, replVars, buildVars, lspVars>>

ResolveStep == ResolveNext /\ UNCHANGED <<lexVars, exprVars, formatVars, replVars, buildVars, lspVars>>
LexStep     == LexNext     /\ UNCHANGED <<resolveVars, exprVars, formatVars, replVars, buildVars, lspVars>>
ExprStep    == ExprNext    /\ UNCHANGED <<resolveVars, lexVars, formatVars, replVars, buildVars, lspVars>>
FormatStep  == FormatNext  /\ UNCHANGED <<resolveVars, lexVars, exprVars, replVars, buildVars, lspVars>>
ReplStep    == ReplNext    /\ UNCHANGED <<resolveVars, lexVars, exprVars, formatVars, buildVars, lspVars>>
BuildStep   == BuildNext   /\ UNCHANGED <<resolveVars, lexVars, exprVars, formatVars, replVars, lspVars>>
LspStep     == LspNext     /\ UNCHANGED <<resolveVars, lexVars, exprVars, formatVars, replVars, buildVars>>

Next ==
  \/ ResolveStep \/ LexStep \/ ExprStep \/ FormatStep
  \/ ReplStep \/ BuildStep \/ LspStep

Spec == Init /\ [][Next]_vars /\ ResolveFairness
=============================================================================
