----------------------------- MODULE MCVerbMap -----------------------------
EXTENDS VerbMap, TLC

Blocks == Permutations(Block)

\* What one program uses: of kinds of blocks, at most so many blocks, values
\* in each, operands, scopes, and references lost.
Program(kinds, blocks, width, temps, scopes, lost) ==
  [kinds |-> kinds, blocks |-> blocks, width |-> width, temps |-> temps,
   scopes |-> scopes, lost |-> lost]

\* Maps of strings and maps; their snapshots, and entries that are removed;
\* each over a map.
Programs ==
  { Program({"map", "str"}, 2, 2, 3, 0, 0),
    Program({"map", "arr"}, 2, 2, 3, 0, 0),
    Program({"map", "arr"}, 2, 1, 3, 0, 1),
    Program({"map", "str", "cell"}, 3, 1, 3, 2, 0) }

Within(p) ==
  /\ Cardinality(Live) <= p.blocks
  /\ sp <= p.temps
  /\ depth <= p.scopes
  /\ \A b \in Live : kind[b] \in p.kinds /\ len[b] <= p.width /\ orphan[b] <= p.lost

OneProgram == \E p \in Programs : Within(p)
=============================================================================
