----------------------------- MODULE MCVerbRepl -----------------------------
EXTENDS VerbRepl

\* Lines: what they begin and end, and their statements.
Stmt(kind, name, needs) == [kind |-> kind, name |-> name, needs |-> needs]

Row(b, e, ss) ==
  [lexes |-> TRUE, commented |-> FALSE, begins |-> b, ends |-> e, stmts |-> ss]

const_Lines ==
  { Row(0, 0, <<>>),
    Row(0, 0, <<Stmt("assign", "x", {})>>),
    Row(0, 0, <<Stmt("noisy", "y", {"f"})>>),
    Row(0, 0, <<Stmt("reassign", "x", {})>>),
    Row(0, 0, <<Stmt("reassign", "x", {"x"}), Stmt("print", "", {"x"})>>),
    Row(0, 0, <<Stmt("push", "x", {})>>),
    Row(0, 0, <<Stmt("set", "x", {})>>),
    Row(0, 0, <<Stmt("assign", "z", {"x"})>>),
    Row(0, 0, <<Stmt("bare", "", {"x"})>>),
    [Row(0, 0, <<Stmt("expr", "", {"x"})>>) EXCEPT !.commented = TRUE],
    Row(0, 0, <<Stmt("fatal", "", {})>>),
    Row(0, 0, <<Stmt("import", "", {})>>),
    Row(1, 0, <<Stmt("fn", "f", {})>>),
    Row(0, 1, <<>>),
    [Row(0, 0, <<Stmt("junk", "", {})>>) EXCEPT !.lexes = FALSE] }
=============================================================================
