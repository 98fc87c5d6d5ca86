--------------------------- MODULE MCVerbDebugger ---------------------------
EXTENDS VerbDebugger

\* One function in the main file, one in a file it imports.
const_FnFile == [g \in Fn |-> IF g = "f" THEN "main.verb" ELSE "lib.verb"]

\* The statements open in all calls.
Open == FoldSeq(LAMBDA c, n : n + Len(c.open), 0, stack)

\* Deep stacks with few breakpoints, many breakpoints with low stacks.
Small == Open <= 3 /\ Open + Len(asked) <= 4
=============================================================================
