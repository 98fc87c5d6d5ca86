---------------------------- MODULE MCVerbFormat ----------------------------
EXTENDS VerbFormat

Tok(kind, text) == [kind |-> kind, text |-> text, gap |-> 0]
Keyword(text) == Tok("word", text)

\* assign x be 3.0;   f("s", 1.5);   check x begin end orelse begin end
\* loop i; i; i begin leave; end
Skeletons == {
  << Keyword("assign"), Tok("ident", "x"), Keyword("be"), Tok("float", "3"), Tok("semi", ";") >>,
  << Tok("ident", "f"), Tok("lparen", "("), Tok("str", "s"), Tok("comma", ","),
     Tok("float", "1.5"), Tok("rparen", ")"), Tok("semi", ";") >>,
  << Keyword("check"), Tok("ident", "x"), Tok("begin", "begin"), Tok("end", "end"),
     Tok("orelse", "orelse"), Tok("begin", "begin"), Tok("end", "end") >>,
  << Tok("loop", "loop"), Tok("ident", "i"), Tok("semi", ";"), Tok("ident", "i"),
     Tok("semi", ";"), Tok("ident", "i"), Tok("begin", "begin"), Keyword("leave"),
     Tok("semi", ";"), Tok("end", "end") >> }

Remark(k, gap) == [kind |-> k, text |-> k, gap |-> gap]

\* A comment of kind c before the k-th token, g lines below the one before
\* it, the token h lines below the comment.
With(s, c, k, g, h) ==
  LET t == IF k > Len(s) THEN s ELSE [s EXCEPT ![k].gap = h]
  IN  InsertAt(t, k, Remark(c, g))

Commented(S, G) ==
  UNION {{With(s, c, k, g, h) : c \in Comment, k \in 1 .. Len(s) + 1, g \in G, h \in G} : s \in S}

Short == {s \in Skeletons : Len(s) = 5}

\* One comment anywhere, or two in the shortest text.
const_Sources ==
  Skeletons \cup
  {s \in Commented(Skeletons, {0, 1, 3}) \cup Commented(Commented(Short, {0, 2}), {0, 2}) :
     \A k \in 2 .. Len(s) : s[k - 1].kind = "line" => s[k].gap > 0}
=============================================================================
