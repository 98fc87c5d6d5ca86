---------------------------- MODULE VerbDebugger ----------------------------
(***************************************************************************)
(* The interactive debugger: the state and the console of src/debugger.rs, *)
(* and the hooks src/codegen.rs emits into a debug build: a checkpoint at  *)
(* the start of a statement, a push where a body begins and a pop on each  *)
(* of the two ways out of one.                                             *)
(*                                                                         *)
(* `verb debug` refuses every import of a library or a std module, so the  *)
(* program has one thread.  What it runs is left open: `stack` (ghost) is  *)
(* what really goes on, and the hooks are steps apart from the calls and   *)
(* returns they report.                                                    *)
(***************************************************************************)
EXTENDS Naturals, Sequences, SequencesExt

CONSTANTS
  File,
  MainFile,
  Line,
  Fn,         \* the functions of the program
  FnFile,     \* the file of each
  None,       \* no file, no line, no function
  MaxDepth,   \* bound on the calls open
  MaxNest,    \* bound on the statements within each other in one body
  MaxAsked    \* bound on the break and delete commands

DebuggerAssumption ==
  /\ MainFile \in File
  /\ FnFile \in [Fn -> File]
  /\ None \notin File /\ None \notin Line /\ None \notin Fn
  /\ MaxDepth \in Nat /\ MaxNest \in Nat /\ MaxAsked \in Nat

ASSUME DebuggerAssumption

VARIABLES
  breakpoints,   \* DebuggerState: up to frames
  stepping,
  started,
  currentLine,
  frames,
  pc,            \* the generated code, the console, or the end
  stack,         \* what runs (ghost): the top level, then the calls in it
  latest,        \* where in it the statement last begun with a checkpoint
                 \* is, <<0, 0>> once that has ended (ghost)
  asked,         \* the break and delete commands so far (ghost)
  resumed        \* the command that last left the console (ghost)

state  == <<breakpoints, stepping, started, currentLine, frames>>
ghosts == <<asked, resumed>>
vars   == <<state, pc, stack, latest, ghosts>>

Place   == File \X Line
Command == [does : {"break", "delete"}, file : File \cup {None}, line : Line]

\* A call: the function, the line of the statement that made it, whether
\* that one was the last to begin with a checkpoint, the lines of the
\* statements open in it, and where in the body it is.
Call ==
  [fn : Fn \cup {None}, from : Line \cup {None}, fresh : BOOLEAN,
   open : Seq(Place), phase : {"entered", "body", "value", "left"}]

TypeOK ==
  /\ breakpoints \subseteq Place
  /\ stepping \in BOOLEAN /\ started \in BOOLEAN
  /\ currentLine \in Line \cup {None}
  /\ frames \in Seq([fn : Fn, callLine : Line \cup {None}])
  /\ pc \in {"code", "console", "over"}
  /\ stack \in Seq(Call) /\ stack # <<>>
  /\ latest \in Nat \X Nat
  /\ asked \in Seq(Command)
  /\ resumed \in {"none", "run", "continue", "step"}

\* run_pre_start_console: the console before the first statement.
Init ==
  /\ breakpoints = {}
  /\ stepping = FALSE
  /\ started = FALSE
  /\ currentLine = None
  /\ frames = <<>>
  /\ pc = "console"
  /\ stack = <<[fn |-> None, from |-> None, fresh |-> FALSE, open |-> <<>>, phase |-> "body"]>>
  /\ latest = <<0, 0>>
  /\ asked = <<>>
  /\ resumed = "none"

(***************************************************************************)
(* The program and its hooks.                                              *)
(***************************************************************************)

Depth     == Len(stack)
Innermost == stack[Depth]
Nest      == Len(Innermost.open)

\* cur_file: a statement is in the file of the statement of the top level
\* it stands in.
CurFiles ==
  IF Innermost.fn # None THEN {FnFile[Innermost.fn]}
  ELSE IF Nest > 0 THEN {Last(Innermost.open)[1]}
  ELSE File

\* The innermost call goes on as c.
Becomes(c) == stack' = [stack EXCEPT ![Depth] = c]

\* The statement at depth d and nesting n ends, with all that is in it.
Ends(d, n) ==
  latest' = IF latest[1] = d /\ latest[2] >= n THEN <<0, 0>> ELSE latest

ShouldStop(p) == stepping \/ p \in breakpoints

\* A statement begins with verb_debug_checkpoint.
Begin(f, l) ==
  /\ pc = "code"
  /\ Innermost.phase = "body" /\ Nest < MaxNest
  /\ f \in CurFiles
  /\ currentLine' = l
  /\ pc' = IF ShouldStop(<<f, l>>) THEN "console" ELSE "code"
  /\ Becomes([Innermost EXCEPT !.open = Append(@, <<f, l>>)])
  /\ latest' = <<Depth, Nest + 1>>
  /\ UNCHANGED <<breakpoints, stepping, started, frames, ghosts>>

\* stmt_line knows no line of an each: it begins without a checkpoint.
Each(f, l) ==
  /\ pc = "code"
  /\ Innermost.phase = "body" /\ Nest < MaxNest
  /\ f \in CurFiles
  /\ Becomes([Innermost EXCEPT !.open = Append(@, <<f, l>>)])
  /\ UNCHANGED <<state, pc, latest, ghosts>>

\* Nor does it of a return, whose value is evaluated first.
Return(f, l) ==
  /\ pc = "code"
  /\ Innermost.fn # None
  /\ Innermost.phase = "body" /\ Nest < MaxNest
  /\ f \in CurFiles
  /\ Becomes([Innermost EXCEPT !.open = Append(@, <<f, l>>), !.phase = "value"])
  /\ UNCHANGED <<state, pc, latest, ghosts>>

End ==
  /\ pc = "code"
  /\ Innermost.phase = "body" /\ Nest > 0
  /\ Becomes([Innermost EXCEPT !.open = Front(@)])
  /\ Ends(Depth, Nest)
  /\ UNCHANGED <<state, pc, ghosts>>

\* An expression of the statement calls a function ...
Calls(f) ==
  /\ pc = "code"
  /\ Innermost.phase \in {"body", "value"} /\ Nest > 0
  /\ Depth <= MaxDepth
  /\ stack' = Append(stack, [fn |-> f, from |-> Last(Innermost.open)[2],
                             fresh |-> latest = <<Depth, Nest>>,
                             open |-> <<>>, phase |-> "entered"])
  /\ UNCHANGED <<state, pc, latest, ghosts>>

\* ... whose body begins with verb_debug_push_frame ...
PushFrame ==
  /\ pc = "code"
  /\ Innermost.phase = "entered"
  /\ frames' = Append(frames, [fn |-> Innermost.fn, callLine |-> currentLine])
  /\ Becomes([Innermost EXCEPT !.phase = "body"])
  /\ UNCHANGED <<breakpoints, stepping, started, currentLine, pc, latest, ghosts>>

\* Vec::pop on an empty vector changes nothing.
Popped == IF frames = <<>> THEN frames ELSE Front(frames)

\* ... and ends with verb_debug_pop_frame, in a return behind its value ...
ReturnHook ==
  /\ pc = "code"
  /\ Innermost.phase = "value"
  /\ frames' = Popped
  /\ Becomes([Innermost EXCEPT !.phase = "left"])
  /\ UNCHANGED <<breakpoints, stepping, started, currentLine, pc, latest, ghosts>>

\* Mutant of FallOffHook: only a return has the hook.
FallOffUnhooked ==
  /\ pc = "code"
  /\ Innermost.fn # None
  /\ Innermost.phase = "body" /\ Nest = 0
  /\ Becomes([Innermost EXCEPT !.phase = "left"])
  /\ UNCHANGED <<state, pc, latest, ghosts>>

\* ... or where the end of the body is reached.
FallOffHook ==
  /\ pc = "code"
  /\ Innermost.fn # None
  /\ Innermost.phase = "body" /\ Nest = 0
  /\ frames' = Popped
  /\ Becomes([Innermost EXCEPT !.phase = "left"])
  /\ UNCHANGED <<breakpoints, stepping, started, currentLine, pc, latest, ghosts>>

\* The ret behind the hook and the releases.
BackInCaller ==
  /\ pc = "code"
  /\ Innermost.phase = "left"
  /\ stack' = Front(stack)
  /\ Ends(Depth, 0)
  /\ UNCHANGED <<state, pc, ghosts>>

(***************************************************************************)
(* run_console: the commands of the user.                                  *)
(***************************************************************************)

ResolveFile(f) == IF f = None THEN MainFile ELSE f

Asks(does, f, l) ==
  /\ pc = "console"
  /\ Len(asked) < MaxAsked
  /\ asked' = Append(asked, [does |-> does, file |-> f, line |-> l])
  /\ UNCHANGED <<stepping, started, currentLine, frames, pc, stack, latest, resumed>>

Break(f, l) ==
  /\ Asks("break", f, l)
  /\ breakpoints' = breakpoints \cup {<<ResolveFile(f), l>>}

Delete(f, l) ==
  /\ Asks("delete", f, l)
  /\ breakpoints' = breakpoints \ {<<ResolveFile(f), l>>}

Resume(command) ==
  /\ pc = "console"
  /\ pc' = "code"
  /\ resumed' = command
  /\ UNCHANGED <<breakpoints, currentLine, frames, stack, latest, asked>>

\* Refused, with a message, when the program runs already.
Run ==
  /\ ~started
  /\ Resume("run")
  /\ started' = TRUE
  /\ UNCHANGED stepping

\* Mutant of Continue: it leaves stepping as it is.
ContinueStepping ==
  /\ started
  /\ Resume("continue")
  /\ UNCHANGED <<stepping, started>>

\* Continue and step are refused before run.
Continue ==
  /\ started
  /\ Resume("continue")
  /\ stepping' = FALSE
  /\ UNCHANGED started

Step ==
  /\ started
  /\ Resume("step")
  /\ stepping' = TRUE
  /\ UNCHANGED started

\* quit, the end of stdin, the end of the program, a run-time error.
Quit ==
  /\ pc # "over"
  /\ pc' = "over"
  /\ UNCHANGED <<state, stack, latest, ghosts>>

Next ==
  \/ \E f \in File, l \in Line : Begin(f, l) \/ Each(f, l) \/ Return(f, l)
  \/ End
  \/ \E f \in Fn : Calls(f)
  \/ PushFrame
  \/ ReturnHook
  \/ FallOffHook
  \/ BackInCaller
  \/ \E f \in File \cup {None}, l \in Line : Break(f, l) \/ Delete(f, l)
  \/ Run \/ Continue \/ Step
  \/ Quit

Spec == Init /\ [][Next]_vars

(***************************************************************************)
(* Properties.                                                             *)
(***************************************************************************)

(* Whenever the user can type `backtrace`, its lines are the calls that    *)
(* are open, innermost first, whichever ways out earlier calls took; and   *)
(* the line of each is right where the calling statement began with a      *)
(* checkpoint and no other statement has begun with one since.             *)
BacktraceTrue ==
  /\ TypeOK
  /\ pc = "console" =>
       /\ Len(frames) = Depth - 1
       /\ \A k \in 1 .. Len(frames) :
            /\ frames[k].fn = stack[k + 1].fn
            /\ stack[k + 1].fresh => frames[k].callLine = stack[k + 1].from

(* What the design says of `backtrace`: each line is a function and the    *)
(* line it was called at.  It does not hold (README, Divergences).         *)
BacktraceExact ==
  pc = "console" =>
    \A k \in 1 .. Len(frames) : frames[k].callLine = stack[k + 1].from

\* The user's k-th command about breakpoints is about place p.
Names(k, p) == <<ResolveFile(asked[k].file), asked[k].line>> = p

\* The last command that names p, in its file or by line alone, set it.
BreakAt(p) ==
  \E k \in DOMAIN asked :
    /\ Names(k, p) /\ asked[k].does = "break"
    /\ \A m \in DOMAIN asked : m > k => ~Names(m, p)

(* A statement with a checkpoint stops if and only if what the user typed  *)
(* asks for it: the session was last left by `step`, or the last command   *)
(* that names the place set a breakpoint there.                            *)
StopsAsAsked ==
  [][\A f \in File, l \in Line :
       Begin(f, l) => (pc' = "console" <=> resumed = "step" \/ BreakAt(<<f, l>>))]_vars

\* A statement begins, in the innermost call.
StatementBegins ==
  /\ Len(stack') = Depth
  /\ Len(stack'[Depth].open) > Nest

(* What the design says of `step`: execute one statement, stop.  It does   *)
(* not hold of return and each (README, Divergences).                      *)
StepStopsNext ==
  [][resumed = "step" /\ StatementBegins => pc' = "console"]_vars
=============================================================================
