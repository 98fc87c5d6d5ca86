------------------------------- MODULE VerbExpr -------------------------------
(***************************************************************************)
(* The expressions of src/parser.rs: one function per level of precedence, *)
(* each a loop around the next tighter one.  calls is what the native      *)
(* stack holds, the innermost first: the loops whose function has not      *)
(* returned, and what a construct still expects.  A token is chosen when   *)
(* it is first looked at, so every text of up to MaxExprTokens is parsed.  *)
(*                                                                         *)
(* Operators of one level are one token, and so are not and neg; "lit"     *)
(* stands for every literal.                                               *)
(***************************************************************************)
EXTENDS Naturals, SequencesExt

CONSTANT MaxExprTokens    \* bound on the tokens before the semicolon

ExprAssumption == MaxExprTokens \in Nat

ASSUME ExprAssumption

VARIABLES
  passed,   \* the tokens before pos
  ahead,    \* the token at pos
  calls,    \* what is to be parsed
  trees,    \* the expressions of the functions that have not returned
  parsed    \* "no", "yes", or "error"

exprVars == <<passed, ahead, calls, trees, parsed>>

\* or_expr, and_expr, equality, comparison, term, factor: loosest first.
Level == <<"or", "and", "equals", "trails", "add", "times">>

BinaryOp  == ToSet(Level)
Operand   == {"name", "lit"}
ExprToken == BinaryOp \cup Operand \cup {"not", "of", "(", ")", ",", "list"}

\* What each loop goes round with.
GoesOn ==
  [x \in BinaryOp \cup {"args", "elems", "call", "of"} |->
     CASE x \in {"args", "elems"} -> ","
       [] x = "call" -> "("
       [] OTHER -> x]

Loop == DOMAIN GoesOn

Call == Loop \cup {"unary", "field", "arguments", "take", ")", ";"}

Tree(o, as) == [op |-> o, args |-> as]

\* What a call of the function of level l goes through.
FromLevel(l) == <<"unary">> \o Reverse(SubSeq(Level, l, Len(Level)))

Expression == FromLevel(1)

Ahead(text) == IF Len(text) < MaxExprTokens THEN ExprToken \cup {";"} ELSE {";"}

ExprInit ==
  /\ passed = <<>>
  /\ ahead \in Ahead(<<>>)
  /\ calls = Expression \o <<";">>
  /\ trees = <<>>
  /\ parsed = "no"

Due(S) == parsed = "no" /\ Head(calls) \in S

Go(s) == calls' = s \o Tail(calls)

Take ==
  /\ passed' = Append(passed, ahead)
  /\ ahead' \in Ahead(passed')
  /\ UNCHANGED parsed

PushTree(t) == trees' = <<t>> \o trees

\* The topmost expression becomes the first part of another.
Wrap(o) == trees' = <<Tree(o, <<Head(trees)>>)>> \o Tail(trees)

Reject ==
  /\ parsed' = "error"
  /\ UNCHANGED <<passed, ahead, calls, trees>>

\* unary: a prefix operator.
Prefix ==
  /\ Due({"unary"})
  /\ ahead = "not"
  /\ Take
  /\ PushTree(Tree("not", <<>>))
  /\ Go(<<"unary", "take">>)

\* primary, under call and field_expr.
Primary ==
  /\ Due({"unary", "field"})
  /\ ~(Head(calls) = "unary" /\ ahead = "not")
  /\ CASE ahead \in Operand ->
            Take /\ PushTree(Tree(ahead, <<>>)) /\ Go(<<"call", "of">>)
       [] ahead = "(" ->
            Take /\ Go(Expression \o <<")", "call", "of">>) /\ UNCHANGED trees
       [] ahead = "list" ->
            /\ Take
            /\ PushTree(Tree("list", <<>>))
            /\ Go(Expression \o <<"take", "elems", "call", "of">>)
       [] OTHER -> Reject

\* Mutated: the right operand is read like the whole.
RightOfSame(o) == FromLevel(CHOOSE l \in DOMAIN Level : Level[l] = o)

\* The right operand of a binary operator comes from the next level.
RightOf(o) ==
  FromLevel(1 + CHOOSE l \in DOMAIN Level : Level[l] = o)

\* One round of the loop of a level.
Binary ==
  /\ Due(BinaryOp)
  /\ ahead = Head(calls)
  /\ Take
  /\ Wrap(ahead)
  /\ Go(RightOf(ahead) \o <<"take", ahead>>)

\* field_expr: a field is a name, in parentheses or not.
FieldOf ==
  /\ Due({"of"})
  /\ ahead = "of"
  /\ IF Head(trees).op = "name"
     THEN Take /\ Wrap("of") /\ Go(<<"field", "take">>)
     ELSE Reject

\* call: the callee is done.
CallOf ==
  /\ Due({"call"})
  /\ ahead = "("
  /\ Take
  /\ Wrap("call")
  /\ Go(<<"arguments", "call">>)

Arguments ==
  /\ Due({"arguments"})
  /\ Go(IF ahead = ")" THEN <<")">> ELSE Expression \o <<"take", "args", ")">>)
  /\ UNCHANGED <<passed, ahead, trees, parsed>>

\* The next argument of a call, or element of a list.
Another ==
  /\ Due({"args", "elems"})
  /\ ahead = ","
  /\ Take
  /\ Go(Expression \o <<"take", Head(calls)>>)
  /\ UNCHANGED trees

\* A part is done: the construct it belongs to takes it.
TakePart ==
  /\ Due({"take"})
  /\ trees' = <<Tree(trees[2].op, Append(trees[2].args, trees[1]))>> \o Tail(Tail(trees))
  /\ Go(<<>>)
  /\ UNCHANGED <<passed, ahead, parsed>>

\* The functions return whose loops do not go on with the token ahead.
Return ==
  /\ Due(Loop)
  /\ ahead # GoesOn[Head(calls)]
  /\ LET stays == {k \in DOMAIN calls : calls[k] \in Loop => GoesOn[calls[k]] = ahead}
     IN  calls' = SubSeq(calls, CHOOSE k \in stays : \A j \in stays : k <= j, Len(calls))
  /\ UNCHANGED <<passed, ahead, trees, parsed>>

Expected ==
  /\ Due({")", ";"})
  /\ CASE ahead # Head(calls) -> Reject
       [] ahead = Head(calls) /\ ahead = ")" -> Take /\ Go(<<>>) /\ UNCHANGED trees
       [] OTHER -> parsed' = "yes" /\ Go(<<>>) /\ UNCHANGED <<passed, ahead, trees>>

ExprNext ==
  \/ Prefix \/ Primary \/ Binary \/ FieldOf \/ CallOf \/ Arguments
  \/ Another \/ TakePart \/ Return \/ Expected

(***************************************************************************)
(* What an expression means, without the parser: it splits at the last of  *)
(* its loosest operators outside parentheses, and a list reaches as far as *)
(* it can.                                                                 *)
(***************************************************************************)
Many(x, w) == Len(SelectSeq(w, LAMBDA y : y = x))

Outside(w, k) == LET u == SubSeq(w, 1, k - 1) IN Many("(", u) = Many(")", u)

\* Where w can be split at one of ts.
Splits(w, ts) ==
  {k \in DOMAIN w :
     /\ w[k] \in ts
     /\ Outside(w, k)
     /\ \A j \in 1 .. k - 1 : w[j] = "list" => ~Outside(w, j)}

Pieces(w) ==
  LET cuts == <<0>> \o SetToSortSeq(Splits(w, {","}), <) \o <<Len(w) + 1>>
  IN  [k \in 1 .. Len(cuts) - 1 |-> SubSeq(w, cuts[k] + 1, cuts[k + 1] - 1)]

None == Tree("none", <<>>)

RECURSIVE Meaning(_)

\* The meanings of the parts of an o.
Compose(o, ws) ==
  LET parts == [k \in DOMAIN ws |-> Meaning(ws[k])]
  IN  IF None \in ToSet(parts) THEN None ELSE Tree(o, parts)

Meaning(w) ==
  LET n       == Len(w)
      loosest == SelectInSeq(Level, LAMBDA o : Splits(w, {o}) # {})
      left(k)  == SubSeq(w, 1, k - 1)
      right(k) == SubSeq(w, k + 1, n)
      fields  == Splits(w, {"of"})
      opens   == {k \in DOMAIN w : w[k] = "(" /\ Outside(w, k)}
  IN CASE n = 0 -> None
       [] loosest # 0 ->
            LET k == Max(Splits(w, {Level[loosest]}))
            IN  Compose(Level[loosest], <<left(k), right(k)>>)
       [] n > 0 /\ loosest = 0 /\ w[1] = "not" -> Compose("not", <<Tail(w)>>)
       [] n > 0 /\ loosest = 0 /\ w[1] # "not" /\ fields # {} ->
            LET k == Min(fields)
            IN  IF Meaning(left(k)).op = "name" /\ k < n /\ w[k + 1] # "not"
                THEN Compose("of", <<left(k), right(k)>>) ELSE None
       [] OTHER ->
            CASE w[1] = "list" -> Compose("list", Pieces(Tail(w)))
              [] n = 1 /\ w[1] \in Operand -> Tree(w[1], <<>>)
              [] w[1] # "list" /\ w[n] = ")" /\ opens # {} ->
                   LET k      == Max(opens)
                       inside == SubSeq(w, k + 1, n - 1)
                   IN  CASE k = 1 -> Meaning(inside)
                         [] k > 1 /\ inside = <<>> -> Compose("call", <<left(k)>>)
                         [] OTHER -> Compose("call", <<left(k)>> \o Pieces(inside))
              [] OTHER -> None

\* The shortest end of a text that began so: a name where an operand is due,
\* and the parentheses.
Completed(w) ==
  LET due == IF w = <<>> \/ Last(w) \notin Operand \cup {")"} THEN <<"name">> ELSE <<>>
  IN  w \o due \o [k \in 1 .. Many("(", w) - Many(")", w) |-> ")"]

ExprTypeOK ==
  /\ passed \in Seq(ExprToken)
  /\ Len(passed) <= MaxExprTokens
  /\ ahead \in ExprToken \cup {";"}
  /\ calls \in Seq(Call)
  /\ \A k \in DOMAIN trees : trees[k].op \in ExprToken \cup {"call"}
  /\ parsed \in {"no", "yes", "error"}

(* The tree of an expression is its meaning: every operator has the        *)
(* operands its precedence and side give it, among prefix operators,       *)
(* fields, calls and lists without parentheses of their own.  And an error *)
(* is reported only where no expression goes on like that.                 *)
TreeMeant ==
  /\ ExprTypeOK
  /\ parsed = "yes" => trees = <<Meaning(passed)>>
  /\ parsed = "error" =>
       None = Meaning(IF ahead = ";" THEN passed ELSE Completed(Append(passed, ahead)))
=============================================================================
