--------------------------- MODULE MCVerbVariants ---------------------------
EXTENDS VerbVariants

\* A choice with more fields than its neighbours, and one without any.
const_Decls ==
  << [choice |-> "Shape", variants |-> <<<<"Circle", 1>>, <<"Square", 1>>, <<"Box", 2>>>>],
     [choice |-> "Flag", variants |-> <<<<"On", 0>>, <<"Off", 0>>>>] >>
=============================================================================
