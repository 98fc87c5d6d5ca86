------------------------------ MODULE VerbRepl ------------------------------
(***************************************************************************)
(* The read-eval-print loop of src/main.rs.  No state of a turn outlives   *)
(* it: the loop keeps the text of the entries that were pure definitions,  *)
(* compiles all of them again in front of every new entry, and runs the    *)
(* whole program from the start.  Lines are gathered into an entry while   *)
(* more blocks are begun than ended.                                       *)
(*                                                                         *)
(* A line is a record: whether it lexes, the blocks it begins and ends, and*)
(* its statements.  A statement has a kind, the name it is about and the   *)
(* names it needs, those that functions it calls read included.  The value *)
(* of a name is how it came about: what gave it, and the values read then. *)
(* Names that hold one array or record are one name here.                  *)
(***************************************************************************)
EXTENDS Integers, SequencesExt

CONSTANTS
  ReplLines,  \* what can be typed
  MaxTyped    \* bound on the lines of a session

\* "bare" is an expression without its semicolon, "junk" parses in no way,
\* "noisy" an assign whose initialiser prints, "push" a call that changes
\* its argument, "set" a field set or a block that changes something,
\* "fatal" a call that aborts.
Retained == {"assign", "noisy", "reassign", "fn"}
StmtKind ==
  Retained \cup {"shape", "set", "expr", "push", "fatal", "print", "bare", "import", "junk"}

ReplAssumption ==
  /\ MaxTyped \in Nat
  /\ \A l \in ReplLines :
       /\ l.lexes \in BOOLEAN /\ l.commented \in BOOLEAN
       /\ l.begins \in Nat /\ l.ends \in Nat
       /\ l.stmts \in Seq([kind : StmtKind, name : STRING, needs : SUBSET STRING])

ASSUME ReplAssumption

VARIABLES
  history,   \* the entries retained, each the lines it was typed in
  buffer,    \* the lines of the entry being typed
  ended,     \* the loop is over: "no", "quit", or "abort" of the program
  typed,     \* every line since the start but blank ones between entries
  entries,   \* the entries evaluated
  known,     \* the values of a session that runs each entry once, on what the last left
  forgotten, \* the names whose value came from an entry that was not retained
  turn       \* the last turn: its outcome, what it printed, what it should,
             \* and whether it read no forgotten name

replVars == <<history, buffer, ended, typed, entries, known, forgotten, turn>>

Quiet == [outcome |-> "none", printed |-> <<>>, own |-> <<>>, exact |-> TRUE]

ReplInit ==
  /\ history = <<>>
  /\ buffer = <<>>
  /\ ended = "no"
  /\ typed = <<>>
  /\ entries = <<>>
  /\ known = <<>>
  /\ forgotten = {}
  /\ turn = Quiet

(***************************************************************************)
(* lexer and parser: the top-level statements of a text, or the error.     *)
(***************************************************************************)
Junk == <<[kind |-> "junk", name |-> "", needs |-> {}]>>

Plus(n, l) == n + l.begins - l.ends

\* How many more blocks the lines begin than they end.
Depth(lines) ==
  LET d[k \in 0 .. Len(lines)] == IF k = 0 THEN 0 ELSE Plus(d[k - 1], lines[k])
  IN  d[Len(lines)]

\* A line inside a block belongs to the statement that began it.
Within(stmts, inner) ==
  Append(Front(stmts),
         [Last(stmts) EXCEPT !.needs = @ \cup UNION {s.needs : s \in ToSet(inner)}])

ReadLine(acc, l) ==
  [depth |-> Plus(acc.depth, l),
   sound |-> acc.sound /\ l.lexes /\ Plus(acc.depth, l) >= 0
               /\ \A s \in ToSet(l.stmts) : s.kind \notin {"bare", "junk"},
   stmts |-> IF acc.depth > 0 THEN Within(acc.stmts, l.stmts)
             ELSE acc.stmts \o l.stmts]

Parse(lines) ==
  LET acc[k \in 0 .. Len(lines)] ==
        IF k = 0 THEN [depth |-> 0, sound |-> TRUE, stmts |-> <<>>]
        ELSE ReadLine(acc[k - 1], lines[k])
      end == acc[Len(lines)]
  IN  IF end.sound /\ end.depth = 0 THEN end.stmts ELSE Junk

Parses(stmts) == \A s \in ToSet(stmts) : s.kind # "junk"

\* The statement that prints an expression; one that changes its argument
\* still does.
ShownKind(kind) ==
  CASE kind \in {"bare", "expr"} -> "print" [] kind = "push" -> "pushed" [] OTHER -> kind

\* wrap_print of one expression; the comment behind it takes in the `);`.
WrapPrint(lines) ==
  LET s == lines[1].stmts[1]
  IN  IF Len(lines) = 1 /\ Len(lines[1].stmts) = 1
           /\ s.kind \in {"bare", "expr", "push", "fatal"} /\ ~lines[1].commented
      THEN <<[s EXCEPT !.kind = ShownKind(@)]>>
      ELSE Junk

\* is_definition_stmt of all of them.
Pure(stmts) == stmts # <<>> /\ \A s \in ToSet(stmts) : s.kind \in Retained

\* classify_repl_line: the statements to run, and whether to retain them.
Classify(lines) ==
  LET stmts == Parse(lines)
      plain == Len(stmts) = 1 /\ stmts[1].kind \in {"expr", "push", "fatal"}
  IN  CASE ~Parses(stmts) /\ \A l \in ToSet(lines) : l.lexes ->
             [tail |-> IF lines[1].stmts = <<>> THEN Junk ELSE WrapPrint(lines),
              pure |-> FALSE]
        [] ~Parses(stmts) /\ \E l \in ToSet(lines) : ~l.lexes ->
             [tail |-> Junk, pure |-> FALSE]
        [] Parses(stmts) /\ \E s \in ToSet(stmts) : s.kind = "import" ->
             [tail |-> Junk, pure |-> FALSE]
        [] OTHER -> IF plain THEN [tail |-> WrapPrint(lines), pure |-> FALSE]
                    ELSE [tail |-> stmts, pure |-> Pure(stmts)]

(***************************************************************************)
(* compile_and_jit_run: a program, run from the values of env.             *)
(***************************************************************************)
Mutates(s) == s.kind \in {"push", "pushed", "set"}
Defines(s) == s.kind \in Retained \cup {"shape"} \/ Mutates(s)
Prints(s)  == s.kind \in {"noisy", "pushed", "print"}

\* The names whose values a statement reads, and those it does not compile
\* without.
Uses(s) == s.needs \cup IF Mutates(s) THEN {s.name} ELSE {}
Needs(s) == Uses(s) \cup IF s.kind = "reassign" THEN {s.name} ELSE {}

Seen(env, s)  == [n \in Uses(s) |-> env[n]]
Value(env, s) == [by |-> s.kind, of |-> Seen(env, s)]

Changed(env, s) ==
  [n \in DOMAIN env \cup {s.name} |-> IF n = s.name THEN Value(env, s) ELSE env[n]]

\* A program that does not compile does nothing at all.
Effect(env0, acc, s) ==
  IF acc.outcome # "ok" THEN acc
  ELSE IF ~(Needs(s) \subseteq DOMAIN acc.env)
  THEN [outcome |-> "error", env |-> env0, printed |-> <<>>]
  ELSE [outcome |-> "ok",
        env     |-> IF Defines(s) THEN Changed(acc.env, s) ELSE acc.env,
        printed |-> IF Prints(s) THEN Append(acc.printed, <<s, Seen(acc.env, s)>>)
                    ELSE acc.printed]

Untouched(env0) == [outcome |-> "ok", env |-> env0, printed |-> <<>>]

Executed(env0, stmts) ==
  LET acc[k \in 0 .. Len(stmts)] ==
        IF k = 0 THEN Untouched(env0) ELSE Effect(env0, acc[k - 1], stmts[k])
  IN  acc[Len(stmts)]

Run(env0, stmts) ==
  LET all   == Executed(env0, stmts)
      Fatal == {i \in DOMAIN stmts : stmts[i].kind = "fatal"}
      begun == Executed(env0, SubSeq(stmts, 1, Min(Fatal) - 1))
  IN  CASE ~Parses(stmts) -> [Untouched(env0) EXCEPT !.outcome = "error"]
        [] Parses(stmts) /\ (Fatal = {} \/ all.outcome = "error") -> all
        [] OTHER -> [begun EXCEPT !.outcome = "abort"]

NoNames == <<>>

\* history.join("\n")
Replayed == FlattenSeq([i \in DOMAIN history |-> Parse(history[i])])

\* Mutated: what does not compile is retained as well.
KeepAll(pure, outcome) == pure

Keep(pure, outcome) == pure /\ outcome = "ok"

\* The names statements change, and whether they read one of F.
Names(stmts)    == {s.name : s \in {x \in ToSet(stmts) : Defines(x)}}
Ignores(stmts, F) == \A s \in ToSet(stmts) : Uses(s) \cap F = {}

\* What is forgotten after statements ran: what they changed, unless they
\* are retained and read nothing that is forgotten itself.
Forgets(stmts, kept) ==
  IF kept /\ Ignores(stmts, forgotten) THEN forgotten \ Names(stmts)
  ELSE forgotten \cup Names(stmts)

Evaluate(entry) ==
  LET c    == Classify(entry)
      all  == IF Parses(c.tail) THEN Run(NoNames, Replayed \o c.tail)
              ELSE [outcome |-> "error", env |-> NoNames, printed |-> <<>>]
      once == Run(known, c.tail)
      ran  == all.outcome = "ok"
      keep == Keep(c.pure, all.outcome)
  IN  /\ history' = IF keep THEN Append(history, entry) ELSE history
      /\ known' = IF ran THEN once.env ELSE known
      /\ forgotten' = IF ran THEN Forgets(c.tail, keep) ELSE forgotten
      /\ turn' = [outcome |-> all.outcome, printed |-> all.printed, own |-> once.printed,
                  exact |-> Ignores(c.tail, forgotten)]
      /\ ended' = IF all.outcome = "abort" THEN "abort" ELSE "no"
      /\ entries' = Append(entries, entry)

(***************************************************************************)
(* run_repl: one turn of its loop for each line read.                      *)
(***************************************************************************)
Reading == ended = "no" /\ Len(typed) < MaxTyped

IsBlank(l) == l.stmts = <<>> /\ l.begins = 0 /\ l.ends = 0 /\ l.lexes /\ ~l.commented

SkipBlank ==
  /\ Reading
  /\ buffer = <<>>
  /\ \E l \in ReplLines : IsBlank(l)
  /\ UNCHANGED replVars

\* :quit, or the end of the input, which may come inside an entry.
Quit ==
  /\ Reading
  /\ ended' = "quit"
  /\ UNCHANGED <<history, buffer, typed, entries, known, forgotten, turn>>

\* Mutated: the first `end` closes the entry.
OpenUntilEnd(lines) ==
  /\ \A l \in ToSet(lines) : l.lexes
  /\ Depth(lines) > 0
  /\ \A l \in ToSet(lines) : l.ends = 0

\* block_is_open: a text that does not lex is not waited for.
BlockIsOpen(lines) ==
  /\ \A l \in ToSet(lines) : l.lexes
  /\ Depth(lines) > 0

ReadOn(l) ==
  /\ Reading
  /\ buffer = <<>> => ~IsBlank(l)
  /\ BlockIsOpen(Append(buffer, l))
  /\ buffer' = Append(buffer, l)
  /\ typed' = Append(typed, l)
  /\ UNCHANGED <<history, ended, entries, known, forgotten, turn>>

ReadAndEvaluate(l) ==
  /\ Reading
  /\ buffer = <<>> => ~IsBlank(l)
  /\ ~BlockIsOpen(Append(buffer, l))
  /\ Evaluate(Append(buffer, l))
  /\ buffer' = <<>>
  /\ typed' = Append(typed, l)

ReplNext ==
  \/ SkipBlank
  \/ Quit
  \/ \E l \in ReplLines : ReadOn(l) \/ ReadAndEvaluate(l)

ReplSpec == ReplInit /\ [][ReplNext]_replVars

(***************************************************************************)
(* What the loop promises.                                                 *)
(***************************************************************************)
Noise == {s \in ToSet(Replayed) : Prints(s)}

(* The replay against the session a user has in mind, who types each entry *)
(* once: the retained entries, compiled again from nothing, run without an *)
(* error, define nothing that entries did not define, and give every name  *)
(* its value but those an entry changed that was not retained.  As long as *)
(* no retained initialiser prints, a turn that reads none of these prints  *)
(* what its entry prints in that session, and nothing else.                *)
ReplayRebuilds ==
  LET r == Run(NoNames, Replayed)
  IN  /\ r.outcome = "ok"
      /\ DOMAIN r.env \subseteq DOMAIN known
      /\ \A n \in DOMAIN known \ forgotten : n \in DOMAIN r.env /\ r.env[n] = known[n]
      /\ Noise = {} /\ turn.outcome = "ok" /\ turn.exact => turn.printed = turn.own

(* What src/main.rs:570 says of the replay: all program state is rebuilt   *)
(* every turn.                                                             *)
SessionRebuilt == Run(NoNames, Replayed).env = known

\* Every line typed is evaluated once, in the entry it belongs to: the
\* entries and the one being typed are the lines of the session, and an
\* entry ends at the first line that leaves no block open.
EntriesWhole ==
  /\ FlattenSeq(entries) \o buffer = typed
  /\ \A e \in ToSet(entries) :
       /\ (\A l \in ToSet(e) : l.lexes) => Depth(e) <= 0
       /\ \A k \in 1 .. Len(e) - 1 : Depth(SubSeq(e, 1, k)) > 0
=============================================================================
