----------------------------- MODULE MCVerbStdIo -----------------------------
EXTENDS VerbStdIo

\* One thread sends a line of two bytes and an empty one, the other a byte.
const_Script == [t \in Sender |-> IF t = "t1" THEN << <<1, 2>>, <<>> >> ELSE << <<3>> >>]
=============================================================================
