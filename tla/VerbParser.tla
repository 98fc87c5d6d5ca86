----------------------------- MODULE VerbParser -----------------------------
(***************************************************************************)
(* parse and parse_recovering of src/parser.rs, statement level.  The      *)
(* recursive descent is the sequence todo: what is still to be parsed, the *)
(* innermost construct first; a token is chosen when it is first looked    *)
(* at, so every text of up to MaxTokens tokens is parsed.                  *)
(*                                                                         *)
(* One "word" stands for a name, an expression, a parameter list or the    *)
(* header of a for loop, well formed; "junk" for a token no statement has  *)
(* there.  Keywords the parser treats alike are one token: assign for      *)
(* declare, repeat for loop, leave for next, record for choice.            *)
(***************************************************************************)
EXTENDS Naturals, SequencesExt

CONSTANT MaxTokens    \* bound on the tokens of the text

ParserAssumption == MaxTokens \in Nat

ASSUME ParserAssumption

VARIABLES
  recovering,   \* parse_recovering, otherwise parse
  read,         \* the tokens parse has passed (parse only)
  peek,         \* the token at pos
  pos,          \* how many tokens come before it
  todo,         \* what is to be parsed
  fn_depth,
  loop_depth,
  saved,        \* saved_loop_depth of the functions being parsed
  pos_before,   \* pos at the start of the statement, and one more
  phase,        \* where the loops of parse are
  errors        \* whether an error was reported

depths == <<fn_depth, loop_depth, saved>>
vars   == <<recovering, read, peek, pos, todo, depths, pos_before, phase, errors>>

Block == <<"begin", "body", "end">>

\* What each statement keyword begins.
Production ==
  [assign |-> <<"assign", "word", "semi">>,
   word   |-> <<"word", "semi">>,
   make   |-> <<"make", "word", "fn_body">>,
   shape  |-> <<"shape", "word", "begin", "fields", "end">>,
   record |-> <<"record", "word", "begin", "names", "end">>,
   return |-> <<"return", "value", "semi">>,
   check  |-> <<"check", "word">> \o Block \o <<"else">>,
   repeat |-> <<"repeat", "word", "loop_body">>,
   each   |-> <<"each", "word">> \o Block,
   match  |-> <<"match", "word", "begin", "arms", "default", "end">>,
   leave  |-> <<"leave", "semi">>,
   begin  |-> Block]

Token ==
  DOMAIN Production
    \cup {"end", "semi", "orelse", "when", "otherwise", "import", "junk"}

Optional == {"body", "fields", "names", "value", "else", "alternative", "arms", "default"}
Scoped   == {"fn_body", "loop_body", "leave_fn", "leave_loop"}
Symbol   == Token \cup {"stmt"} \cup Optional \cup Scoped

\* The token kinds synchronize stops at.
Boundary == {"assign", "make", "return", "check", "repeat", "begin", "shape", "leave"}

TypeOK ==
  /\ recovering \in BOOLEAN
  /\ read \in Seq(Token)
  /\ peek \in Token \cup {"eof"}
  /\ pos \in 0 .. MaxTokens
  /\ todo \in Seq(Symbol)
  /\ fn_depth \in 0 .. MaxTokens
  /\ loop_depth \in 0 .. MaxTokens
  /\ saved \in Seq(0 .. MaxTokens)
  /\ pos_before \in 0 .. MaxTokens + 1
  /\ phase \in {"imports", "sync_imports", "body", "caught", "sync_body", "done"}
  /\ errors \in BOOLEAN

Upcoming(n) == IF n < MaxTokens THEN Token \cup {"eof"} ELSE {"eof"}

Init ==
  /\ recovering \in BOOLEAN
  /\ read = <<>>
  /\ pos = 0
  /\ peek \in Upcoming(0)
  /\ todo = <<>>
  /\ fn_depth = 0 /\ loop_depth = 0 /\ saved = <<>>
  /\ pos_before = 0
  /\ phase = "imports"
  /\ errors = FALSE

Stay == UNCHANGED <<pos, peek, read, recovering>>

\* The parser never passes the end of the text.
Advance ==
  IF peek = "eof" THEN Stay
  ELSE /\ pos' = pos + 1
       /\ peek' \in Upcoming(pos + 1)
       /\ read' = IF recovering THEN read ELSE Append(read, peek)
       /\ UNCHANGED recovering

(***************************************************************************)
(* Errors.  The ? operator leaves every construct of todo; fn_stmt and the *)
(* loops restore the depths on the way.                                    *)
(***************************************************************************)
Depths == [fn |-> fn_depth, loop |-> loop_depth, saved |-> saved]

\* What leaving construct m does to the depths s.
Undo(s, m) ==
  CASE m = "leave_fn" -> [fn |-> s.fn - 1, loop |-> Head(s.saved), saved |-> Tail(s.saved)]
    [] m = "leave_loop" -> [s EXCEPT !.loop = @ - 1]
    [] OTHER -> s

SetDepths(s) == fn_depth' = s.fn /\ loop_depth' = s.loop /\ saved' = s.saved

\* What leaving all of them does.
Unwound ==
  LET left[k \in 0 .. Len(todo)] ==
        IF k = 0 THEN Depths ELSE Undo(left[k - 1], todo[k])
  IN  left[Len(todo)]

Fail ==
  /\ errors' = TRUE
  /\ SetDepths(Unwound)
  /\ todo' = <<>>
  /\ phase' = IF ~recovering THEN "done"
              ELSE IF phase = "imports" THEN "sync_imports" ELSE "caught"
  /\ Stay
  /\ UNCHANGED pos_before

\* Mutated: synchronize is trusted to move on.
NoForce == FALSE

\* Neither the statement nor synchronize consumed a token.
Stuck == pos + 1 = pos_before

\* parse_recovering's handler of a statement's error.
Caught ==
  /\ phase = "caught"
  /\ fn_depth' = 0
  /\ loop_depth' = 0
  /\ phase' = "sync_body"
  /\ Stay
  /\ UNCHANGED <<todo, saved, pos_before, errors>>

Resume(p) ==
  IF p = "sync_imports" THEN "imports" ELSE "body"

\* synchronize, one token at a time; after it, the forced step.
Synchronize ==
  /\ phase \in {"sync_imports", "sync_body"}
  /\ IF peek \in Boundary \cup {"eof"}
     THEN /\ phase' = Resume(phase)
          /\ IF phase = "sync_body" /\ Stuck THEN Advance ELSE Stay
     ELSE /\ phase' = IF peek \in {"semi", "end"} THEN Resume(phase) ELSE phase
          /\ Advance
  /\ UNCHANGED <<todo, depths, pos_before, errors>>

(***************************************************************************)
(* The top level.                                                          *)
(***************************************************************************)
AtTop(p) == phase = p /\ todo = <<>>

Import ==
  /\ AtTop("imports")
  /\ peek = "import"
  /\ todo' = <<"import", "word", "semi">>
  /\ Stay
  /\ UNCHANGED <<depths, pos_before, phase, errors>>

EndOfImports ==
  /\ AtTop("imports")
  /\ peek # "import"
  /\ phase' = "body"
  /\ Stay
  /\ UNCHANGED <<todo, depths, pos_before, errors>>

StrayImport ==
  /\ AtTop("body")
  /\ peek = "import"
  /\ errors' = TRUE
  /\ phase' = IF recovering THEN "body" ELSE "done"
  /\ IF recovering THEN Advance ELSE Stay
  /\ UNCHANGED <<todo, depths, pos_before>>

NextStatement ==
  /\ AtTop("body")
  /\ peek \notin {"import", "eof"}
  /\ todo' = <<"stmt">>
  /\ pos_before' = pos + 1
  /\ Stay
  /\ UNCHANGED <<depths, phase, errors>>

EndOfText ==
  /\ AtTop("body")
  /\ peek = "eof"
  /\ phase' = "done"
  /\ Stay
  /\ UNCHANGED <<todo, depths, pos_before, errors>>

(***************************************************************************)
(* The statements.                                                         *)
(***************************************************************************)
Parsing(S) == todo # <<>> /\ Head(todo) \in S

Replace(s) == todo' = s \o Tail(todo)

Quiet == Stay /\ UNCHANGED <<pos_before, phase, errors>>

\* Mutated: return and leave are statements anywhere.
AnyStatement == peek \in DOMAIN Production

\* statement: a token that begins no statement is left to expression, which
\* wants a word.
Allowed ==
  /\ peek \in DOMAIN Production
  /\ peek = "return" => fn_depth > 0
  /\ peek = "leave" => loop_depth > 0

Statement ==
  /\ Parsing({"stmt"})
  /\ IF Allowed THEN Replace(Production[peek]) /\ Quiet /\ UNCHANGED depths
     ELSE Fail

Expect ==
  /\ Parsing(Token)
  /\ IF peek = Head(todo)
     THEN Advance /\ Replace(<<>>) /\ UNCHANGED <<depths, pos_before, phase, errors>>
     ELSE Fail

\* A loop of the parser goes round once more, or an optional part is there.
Expansion(sym) ==
  CASE sym = "body" /\ peek \notin {"end", "eof"} -> <<"stmt", "body">>
    [] sym = "fields" /\ peek \notin {"end", "eof"} -> <<"word", "fields">>
    [] sym = "names" /\ peek # "end" -> <<"word">>
    [] sym = "value" /\ peek # "semi" -> <<"word">>
    [] sym = "else" /\ peek = "orelse" -> <<"orelse", "alternative">>
    [] sym = "alternative" -> IF peek = "check" THEN Production.check ELSE Block
    [] sym = "arms" /\ peek = "when" -> <<"when", "word">> \o Block \o <<"arms">>
    [] sym = "default" /\ peek = "otherwise" -> <<"otherwise">> \o Block
    [] OTHER -> <<>>

Expand ==
  /\ Parsing(Optional)
  /\ Replace(Expansion(Head(todo)))
  /\ Quiet
  /\ UNCHANGED depths

\* Mutated: the body of a function is still in the loop around it.
FnBodyInLoop ==
  /\ Parsing({"fn_body"})
  /\ Replace(Block \o <<"leave_fn">>)
  /\ SetDepths([fn |-> fn_depth + 1, loop |-> loop_depth, saved |-> <<loop_depth>> \o saved])
  /\ Quiet

FnBody ==
  /\ Parsing({"fn_body"})
  /\ Replace(Block \o <<"leave_fn">>)
  /\ SetDepths([fn |-> fn_depth + 1, loop |-> 0, saved |-> <<loop_depth>> \o saved])
  /\ Quiet

LoopBody ==
  /\ Parsing({"loop_body"})
  /\ Replace(Block \o <<"leave_loop">>)
  /\ loop_depth' = loop_depth + 1
  /\ Quiet
  /\ UNCHANGED <<fn_depth, saved>>

LeaveBody ==
  /\ Parsing({"leave_fn", "leave_loop"})
  /\ SetDepths(Undo(Depths, Head(todo)))
  /\ Replace(<<>>)
  /\ Quiet

Next ==
  \/ Import \/ EndOfImports \/ StrayImport \/ NextStatement \/ EndOfText
  \/ Statement \/ Expect \/ Expand
  \/ FnBody \/ LoopBody \/ LeaveBody
  \/ Caught \/ Synchronize

\* The parser is sequential: it stops only when it is done.
Spec == Init /\ [][Next]_vars /\ WF_vars(Next)

(***************************************************************************)
(* What parse_recovering promises.                                         *)
(***************************************************************************)
\* The functions around the statement being parsed, and the loops around it
\* up to the innermost function: the places where they are left.
FunctionsOpen == {k \in DOMAIN todo : todo[k] = "leave_fn"}

LoopsOpen ==
  {k \in DOMAIN todo : todo[k] = "leave_loop" /\ \A f \in FunctionsOpen : k < f}

\* An error unwinds the depths before the handler sees it, so resetting them
\* there changes nothing.
ErrorUnwinds == phase = "caught" => fn_depth = 0 /\ loop_depth = 0

\* fn_depth and loop_depth are what return, leave and next are judged by;
\* they count exactly the functions around the statement and the loops
\* between it and the innermost of them, whatever was parsed or failed
\* before: the code generator relies on it when it looks for the loop of a
\* leave.
DepthsMatchNesting ==
  /\ TypeOK
  /\ fn_depth = Cardinality(FunctionsOpen)
  /\ loop_depth = Cardinality(LoopsOpen)
  /\ Len(saved) = fn_depth
  /\ ErrorUnwinds

\* Each statement parse_recovering tries begins further on than the one
\* before, good or bad.
Progress == AtTop("body") => pos >= pos_before

\* It reaches the end of every text.
Terminates == <>(phase = "done")

(***************************************************************************)
(* What parse accepts, as a grammar: the texts of n tokens, for the        *)
(* statements inside a function or not (fn), inside a loop of it or not    *)
(* (loop).                                                                 *)
(***************************************************************************)
Context == [fn : BOOLEAN, loop : BOOLEAN]
TopLevel == [fn |-> FALSE, loop |-> FALSE]

Then(S, T) == {s \o t : s \in S, t \in T}
If(b, S) == IF b THEN S ELSE {}

\* Splits of n into two parts.
Cat(n, f(_), g(_)) == UNION {Then(f(k), g(n - k)) : k \in 0 .. n}

\* The texts of n tokens from table T of the shorter ones.
Entry(T, n) ==
  LET List(m, c)  == IF m = 0 THEN {<<>>} ELSE T[m].list[c]
      Braced(m, c) == If(m >= 2, Then({<<"begin">>}, Then(List(m - 2, c), {<<"end">>})))
      Ifs(m, c)   == If(m >= 1, T[m].ifs[c])
      Arms(m, c)  == IF m = 0 THEN {<<>>} ELSE T[m].arms[c]
      Headed(h, S) == Then({h}, S)
      if(c) ==
        IF n < 4 THEN {}
        ELSE Headed(<<"check", "word">>,
               Braced(n - 2, c)
               \cup If(n >= 5, Cat(n - 3,
                      LAMBDA k : Then(Braced(k, c), {<<"orelse">>}),
                      LAMBDA k : Braced(k, c) \cup Ifs(k, c))))
      arms(c) ==
        IF n < 4 THEN {}
        ELSE Headed(<<"when", "word">>,
               Cat(n - 2, LAMBDA k : Braced(k, c), LAMBDA k : Arms(k, c)))
      default(m, c) ==
        IF m = 0 THEN {<<>>} ELSE Headed(<<"otherwise">>, Braced(m - 1, c))
      statement(c) ==
        UNION {
          If(n = 2, {<<"word", "semi">>}),
          If(n = 3, {<<"assign", "word", "semi">>}),
          If(n = 2 /\ c.loop, {<<"leave", "semi">>}),
          If(n = 2 /\ c.fn, {<<"return", "semi">>}),
          If(n = 3 /\ c.fn, {<<"return", "word", "semi">>}),
          If(n \in {4, 5}, {<<"record", "word", "begin">> \o [i \in 1 .. n - 4 |-> "word"]
                              \o <<"end">>}),
          If(n >= 4, {<<"shape", "word", "begin">> \o [i \in 1 .. n - 4 |-> "word"]
                        \o <<"end">>}),
          Braced(n, c),
          If(n >= 4, Headed(<<"make", "word">>, Braced(n - 2, [fn |-> TRUE, loop |-> FALSE]))),
          If(n >= 4, Headed(<<"repeat", "word">>, Braced(n - 2, [c EXCEPT !.loop = TRUE]))),
          If(n >= 4, Headed(<<"each", "word">>, Braced(n - 2, c))),
          If(n >= 4, Headed(<<"match", "word", "begin">>,
            Then(Cat(n - 4, LAMBDA k : Arms(k, c), LAMBDA k : default(k, c)), {<<"end">>}))),
          if(c)}
      first(c) == [k \in 1 .. n |-> IF k = n THEN statement(c) ELSE T[k].stmt[c]]
  IN  [stmt |-> [c \in Context |-> statement(c)],
       list |-> [c \in Context |->
                   UNION {Then(first(c)[k], List(n - k, c)) : k \in 1 .. n}],
       ifs  |-> [c \in Context |-> if(c)],
       arms |-> [c \in Context |-> arms(c)]]

Texts == FoldLeft(LAMBDA T, n : Append(T, Entry(T, n)), <<>>, [n \in 1 .. MaxTokens |-> n])

Imports(k) == FlattenSeq([i \in 1 .. k |-> <<"import", "word", "semi">>])

Programs ==
  {Imports(k) : k \in 0 .. MaxTokens \div 3}
    \cup UNION {Then({Imports(k)}, UNION {Texts[n].list[TopLevel] : n \in 1 .. MaxTokens - 3 * k}) :
                  k \in 0 .. MaxTokens \div 3}

Beginnings == UNION {{SubSeq(p, 1, n) : n \in 1 .. Len(p)} : p \in {q \o <<"eof">> : q \in Programs}}

\* parse accepts exactly the programs of the grammar, return only inside a
\* function and leave only inside a loop of the same function, and reports
\* the first token that no program has after those before it.
ParsesGrammar ==
  ~recovering /\ phase = "done" =>
    (errors <=> Append(read, peek) \notin Beginnings)
=============================================================================
