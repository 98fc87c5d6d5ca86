---------------------------- MODULE MCVerbLibrary ----------------------------
EXTENDS VerbLibrary, MCVerbVariants, MCVerbStdIo

NoNames == [x \in {} |-> 0]

const_Builtins == [x \in {"len"} |-> 1]

const_StdModules ==
  [m \in {"io", "map", "thread"} |->
     CASE m = "io" -> [x \in {"send_line"} |-> 2]
       [] m = "map" -> [x \in {"map_len", "map_key_at"} |-> IF x = "map_len" THEN 1 ELSE 2]
       [] m = "thread" -> [x \in {"mutex_new"} |-> 0]]

const_Types == {NoNames, [x \in {"Circle"} |-> 1]}

\* A function of the library may be named like one of std map.
const_Signatures ==
  {NoNames, [x \in {"c_add", "map_len"} |-> [params |-> 1, str |-> x = "map_len"]]}
=============================================================================
