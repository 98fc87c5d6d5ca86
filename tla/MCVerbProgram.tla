--------------------------- MODULE MCVerbProgram ---------------------------
EXTENDS VerbProgram, TLC

Blocks == Permutations(Block)

\* The part of the language, and of the bounds, that one program uses.
Program(kinds, blocks, width, temps, scopes, loop, lost) ==
  [kinds |-> kinds, blocks |-> blocks, width |-> width, temps |-> temps,
   scopes |-> scopes, loop |-> loop, lost |-> lost]

\* In turn: arrays that array set loses elements of, and arrays that grow;
\* each over arrays, and out of nested loops; each over strings; records and
\* variants with match, and with fields that are set.
Programs ==
  { Program({"arr", "str"}, 2, 1, 3, 0, FALSE, 1),
    Program({"arr"}, 2, 2, 3, 0, FALSE, 0),
    Program({"arr", "cell"}, 3, 1, 2, 2, TRUE, 0),
    Program({"arr", "cell"}, 2, 1, 2, 3, TRUE, 0),
    Program({"str", "cell"}, 4, 1, 1, 2, TRUE, 0),
    Program({"struct", "enum", "str", "cell"}, 2, 2, 2, 1, FALSE, 0),
    Program({"struct", "cell"}, 2, 1, 3, 1, FALSE, 0) }

Within(p) ==
  /\ Cardinality(Live) <= p.blocks
  /\ sp <= p.temps
  /\ depth <= p.scopes
  /\ p.loop \/ (loops = <<>> /\ fe = <<>>)
  /\ \A b \in Live : kind[b] \in p.kinds /\ len[b] <= p.width /\ orphan[b] <= p.lost

OneProgram == \E p \in Programs : Within(p)
=============================================================================
