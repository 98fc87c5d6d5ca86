----------------------------- MODULE VerbFormat -----------------------------
(***************************************************************************)
(* The printer of src/formatter.rs: one pass over the tokens and comments  *)
(* of a text, in the order they stand in it, that writes each with the     *)
(* white space two rules on neighbouring tokens and one flag ask for.      *)
(*                                                                         *)
(* The text is the sequence of its tokens and comments, each with its line.*)
(* What is printed is a sequence too, each item with the white space       *)
(* before it; Lexed reads it back the way the scanner does (VerbLexer), and*)
(* the printer then runs once more on its own output.                      *)
(***************************************************************************)
EXTENDS Naturals, SequencesExt

CONSTANT Sources   \* the texts: sequences of items, gap lines after the one before

\* "word" is a keyword or operator without a rule of its own.
Comment   == {"line", "block", "tall"}
WordKind  == {"ident", "int", "float", "word", "loop", "begin", "end", "orelse"}
TokenKind == WordKind \cup {"str", "lparen", "rparen", "comma", "semi"}

\* What follows a line comment stands on a later line.
FormatAssumption ==
  \A s \in Sources :
    /\ s \in Seq([kind : Comment \cup TokenKind, text : STRING, gap : Nat])
    /\ \A k \in 2 .. Len(s) : s[k - 1].kind = "line" => s[k].gap > 0

ASSUME FormatAssumption

VARIABLES
  source,    \* the text as it was typed
  items,     \* the text being formatted: source, then what was printed of it
  pos,       \* the next item: the printer's pos and cpos
  out,       \* what is printed: items with the white space before each
  indent, inLoopHeader, prevKind, lastLine, forceNewline,
  first      \* what the first pass printed; none during it

formatVars ==
  <<source, items, pos, out, indent, inLoopHeader, prevKind, lastLine, forceNewline, first>>

NoKind == "none"

\* The items of a text with their lines: item k starts down[k] lines below
\* the item before; a tall comment ends one line below its first.
Tall(it) == IF it.kind = "tall" THEN 1 ELSE 0

Placed(seq, down) ==
  LET line[k \in DOMAIN seq] ==
        (IF k = 1 THEN 1 ELSE line[k - 1] + Tall(seq[k - 1])) + down[k]
  IN  [k \in DOMAIN seq |-> [kind |-> seq[k].kind, text |-> seq[k].text, line |-> line[k]]]

Rewound ==
  /\ pos = 1
  /\ out = <<>>
  /\ indent = 0
  /\ inLoopHeader = FALSE
  /\ prevKind = NoKind
  /\ lastLine = 1
  /\ forceNewline = FALSE

FormatInit ==
  /\ source \in Sources
  /\ items = Placed(source, [k \in DOMAIN source |-> source[k].gap])
  /\ first = <<>>
  /\ Rewound

Cur == items[pos]

\* start_new_output_line: nothing before the first item; a gap of two lines
\* or more becomes one blank line.
NewLine(line) ==
  IF out = <<>> THEN "" ELSE IF line > lastLine + 1 THEN "blank" ELSE "newline"

\* token_text: a float that is a whole number is printed without its point,
\* as an int.
Written(kind, text) == IF kind = "float" /\ text = "3" THEN "int" ELSE kind

Put(it, space, depth) ==
  out' = Append(out, [kind |-> Written(it.kind, it.text), text |-> it.text,
                      space |-> space, depth |-> depth])

\* Mutated: a comment that has several lines is taken to end on its first.
EndsWhereItStarts(it) == it.line

\* comment_end_line
EndLine(it) == it.line + Tall(it)

\* A comment on the line of the item before it stays there.
FlushComment ==
  /\ pos <= Len(items)
  /\ Cur.kind \in Comment
  /\ IF Cur.line = lastLine /\ out # <<>>
     THEN Put(Cur, " ", 0)
     ELSE Put(Cur, NewLine(Cur.line), indent)
  /\ lastLine' = EndLine(Cur)
  /\ forceNewline' = TRUE
  /\ pos' = pos + 1
  /\ UNCHANGED <<source, items, indent, inLoopHeader, prevKind, first>>

StartsNewLine(kind) ==
  \/ prevKind = "semi" /\ ~inLoopHeader
  \/ prevKind = "begin"
  \/ prevKind = "end" /\ kind # "orelse"

NeedsSpaceBefore(kind) ==
  /\ prevKind \notin {NoKind, "lparen"}
  /\ kind \notin {"semi", "comma", "rparen"}
  /\ kind = "lparen" => prevKind \notin {"ident", "rparen"}

\* Mutated: what follows a comment goes on in its line.
NewLineByRule(kind) == StartsNewLine(kind)

OnNewLine(kind) == forceNewline \/ StartsNewLine(kind)

Dedented == IF Cur.kind = "end" /\ indent > 0 THEN indent - 1 ELSE indent

PlaceToken ==
  /\ pos <= Len(items)
  /\ Cur.kind \in TokenKind
  /\ IF OnNewLine(Cur.kind) THEN Put(Cur, NewLine(Cur.line), Dedented)
     ELSE Put(Cur, IF NeedsSpaceBefore(Cur.kind) THEN " " ELSE "", 0)
  /\ indent' = Dedented + IF Cur.kind = "begin" THEN 1 ELSE 0
  /\ inLoopHeader' = (Cur.kind # "begin" /\ (inLoopHeader \/ Cur.kind = "loop"))
  /\ prevKind' = Cur.kind
  /\ lastLine' = Cur.line
  /\ forceNewline' = FALSE
  /\ pos' = pos + 1
  /\ UNCHANGED <<source, items, first>>

(***************************************************************************)
(* The printed text, read back.                                            *)
(***************************************************************************)
\* A line comment takes in what follows it on its line, and two words
\* without white space between them are one.
ReadBack(seq, it) ==
  LET before == Last(seq)
      glued  == [before EXCEPT !.text = "glued"]
  IN  IF /\ seq # <<>>
         /\ it.space \in {"", " "}
         /\ \/ before.kind = "line"
            \/ it.space = "" /\ {before.kind, it.kind} \subseteq WordKind
      THEN Append(Front(seq), glued)
      ELSE Append(seq, it)

Lines(it) == IF it.space = "newline" THEN 1 ELSE IF it.space = "blank" THEN 2 ELSE 0

Lexed(printed) ==
  LET seen[k \in 0 .. Len(printed)] ==
        IF k = 0 THEN <<>> ELSE ReadBack(seen[k - 1], printed[k])
      read == seen[Len(printed)]
  IN  Placed(read, [k \in DOMAIN read |-> Lines(read[k])])

Finished == pos > Len(items)

\* The end of the text: what was printed is formatted again.
FormatAgain ==
  /\ Finished
  /\ first = <<>> /\ out # <<>>
  /\ first' = out
  /\ items' = Lexed(out)
  /\ pos' = 1 /\ out' = <<>>
  /\ indent' = 0 /\ inLoopHeader' = FALSE /\ prevKind' = NoKind
  /\ lastLine' = 1 /\ forceNewline' = FALSE
  /\ UNCHANGED source

FormatNext == FlushComment \/ PlaceToken \/ FormatAgain

FormatSpec == FormatInit /\ [][FormatNext]_formatVars

(***************************************************************************)
(* What the formatter promises.                                            *)
(***************************************************************************)
Bare(seq) == [i \in DOMAIN seq |-> <<seq[i].kind, seq[i].text>>]

KeptAs(printed) ==
  [i \in DOMAIN source |-> <<Written(source[i].kind, source[i].text), source[i].text>>]
    = Bare(Lexed(printed))

\* Every token and every comment of the text is in the formatted text, in
\* the same order: no comment swallows the code behind it, no two words
\* melt, whatever comments stand between any two tokens.  Only a whole float
\* comes back as an int.
TextKept == Finished => KeptAs(out)

\* A formatted text is left as it is by the formatter: every blank line,
\* indentation and place of a comment it chooses it chooses again.
Stable == Finished /\ first # <<>> => out = first

\* The comment at the head of formatter.rs: it just echoes the tokens it sees.
EchoesTokens == Finished => Bare(source) = Bare(Lexed(out))
=============================================================================
