----------------------------- MODULE VerbLexer -----------------------------
(***************************************************************************)
(* lex_with_comments of src/lexer.rs: one pass over the characters of a    *)
(* text, an index and a (line, column) counted along by hand at each place *)
(* that moves the index.  Every token and comment carries the position of  *)
(* its first character; diagnostics, breakpoints and the formatter rely on *)
(* it.  One step is one turn of one of the scanner's loops.                *)
(***************************************************************************)
EXTENDS Naturals, SequencesExt

CONSTANTS
  Texts,      \* the texts scanned: sequences of the characters below
  Suffix,     \* ".verb" in the code: folded into the word before it
  MaxDigits   \* an int literal with more digits is too large

\* Characters that the scanner treats alike are one character here: "a" is a
\* letter or an underscore, "1" a digit, "n" a letter that is an escape too.
Char == {" ", "nl", "%", "!", "?", "(", "-", ">", "quote", "\\", "a", "n", "1", ".", "@"}

LexerAssumption ==
  /\ Texts \subseteq Seq(Char)
  /\ Suffix \in Seq(Char \ {"nl"}) /\ Suffix # <<>> /\ Suffix[1] = "."
  /\ MaxDigits \in Nat \ {0}

ASSUME LexerAssumption

VARIABLES
  text,      \* chars
  i,         \* the index of the next character, from 1
  line, col,
  mode,      \* the loop the scanner is in
  start,     \* where the token or comment being scanned began: index, tl, tc
  toks,      \* tokens and comments so far, each with its position and span
  lexErr     \* "" or what is wrong, with its position

lexVars == <<text, i, line, col, mode, start, toks, lexErr>>

Letter == {"a", "n"}
Blank  == {" "}
WordChar == Letter \cup {"1"}
NoError == [msg |-> "", line |-> 0, col |-> 0]

\* chars.get(k) == Some(c): false beyond the end.
At(k, c) == k <= Len(text) /\ text[k] = c
AtIn(k, S) == k <= Len(text) /\ text[k] \in S
Opens(k) == At(k, "!") /\ At(k + 1, "?") /\ At(k + 2, "!")

Stop(msg, l, c) ==
  /\ lexErr' = [msg |-> msg, line |-> l, col |-> c]
  /\ mode' = "failed"
  /\ UNCHANGED <<text, i, line, col, start, toks>>

\* i and col move on by n, within a line.
Advance(n) ==
  /\ i' = i + n
  /\ col' = col + n
  /\ UNCHANGED line

\* Mutated: a line inside a block comment leaves the column as it is.
NewlineKeepsCol == i' = i + 1 /\ line' = line + 1 /\ UNCHANGED col

Newline == i' = i + 1 /\ line' = line + 1 /\ col' = 1

Begin(m) ==
  /\ mode' = m
  /\ start' = [at |-> i, line |-> line, col |-> col]

\* The item that started at s and ends before index e.
Item(kind, s, e) ==
  [kind |-> kind, line |-> s.line, col |-> s.col, from |-> s.at, to |-> e - 1]

Push(kind, s, e) == toks' = Append(toks, Item(kind, s, e))

Here == [at |-> i, line |-> line, col |-> col]

LexInit ==
  /\ text \in Texts
  /\ i = 1 /\ line = 1 /\ col = 1
  /\ mode = "next"
  /\ start = Here
  /\ toks = <<>>
  /\ lexErr = NoError

Between(k) == mode = "next" /\ AtIn(k, Char)

Whitespace ==
  /\ Between(i)
  /\ \/ text[i] \in Blank /\ Advance(1)
     \/ text[i] = "nl" /\ Newline
  /\ UNCHANGED <<text, mode, start, toks, lexErr>>

Punctuation ==
  /\ Between(i)
  /\ \/ At(i, "(") /\ Push("lparen", Here, i + 1) /\ Advance(1)
     \/ At(i, "-") /\ At(i + 1, ">") /\ Push("arrow", Here, i + 2) /\ Advance(2)
  /\ UNCHANGED <<text, mode, start, lexErr>>

OpenLineComment ==
  /\ Between(i)
  /\ At(i, "%") /\ At(i + 1, "%")
  /\ Begin("line")
  /\ UNCHANGED <<text, i, line, col, toks, lexErr>>

LineComment ==
  /\ mode = "line"
  /\ IF AtIn(i, Char \ {"nl"})
     THEN Advance(1) /\ UNCHANGED <<mode, toks>>
     ELSE Push("comment", start, i) /\ mode' = "next" /\ UNCHANGED <<i, line, col>>
  /\ UNCHANGED <<text, start, lexErr>>

OpenBlockComment ==
  /\ Between(i)
  /\ Opens(i)
  /\ Begin("block")
  /\ Advance(3)
  /\ UNCHANGED <<text, toks, lexErr>>

\* The character at i is read: the end of the text is tested first.
BlockComment ==
  /\ mode = "block"
  /\ IF i > Len(text) THEN Stop("unterminated comment", start.line, start.col)
     ELSE IF Opens(i)
     THEN /\ Push("comment", start, i + 3)
          /\ mode' = "next"
          /\ Advance(3)
          /\ UNCHANGED <<text, start, lexErr>>
     ELSE /\ IF text[i] = "nl" THEN Newline ELSE Advance(1)
          /\ UNCHANGED <<text, mode, start, toks, lexErr>>

OpenString ==
  /\ Between(i)
  /\ At(i, "quote")
  /\ Begin("string")
  /\ Advance(1)
  /\ UNCHANGED <<text, toks, lexErr>>

\* Mutated: an escape counts as the one character it stands for.
EscapeWidthOne == i' = i + 2 /\ col' = col + 1 /\ UNCHANGED line

SkipEscape == Advance(2)

Escape == {"n", "quote", "\\"}

StringChar ==
  /\ mode = "string"
  /\ IF i > Len(text) \/ At(i, "nl") THEN Stop("unterminated string", start.line, start.col)
     ELSE IF At(i, "quote")
     THEN /\ Push("string", start, i + 1)
          /\ mode' = "next"
          /\ Advance(1)
          /\ UNCHANGED <<text, start, lexErr>>
     ELSE IF At(i, "\\") /\ i + 1 > Len(text)
     THEN Stop("unterminated string", start.line, start.col)
     ELSE IF At(i, "\\") /\ text[i + 1] \notin Escape
     THEN Stop("unknown escape", line, col)
     ELSE /\ IF At(i, "\\") THEN SkipEscape ELSE Advance(1)
          /\ UNCHANGED <<text, mode, start, toks, lexErr>>

OpenNumber ==
  /\ Between(i)
  /\ At(i, "1")
  /\ Begin("digits")
  /\ UNCHANGED <<text, i, line, col, toks, lexErr>>

\* The digits, then a point only when a digit follows it.
Number ==
  /\ mode \in {"digits", "fraction"}
  /\ IF At(i, "1") THEN Advance(1) /\ UNCHANGED <<text, mode, start, toks, lexErr>>
     ELSE IF mode = "digits" /\ At(i, ".") /\ At(i + 1, "1")
     THEN Advance(1) /\ mode' = "fraction" /\ UNCHANGED <<text, start, toks, lexErr>>
     ELSE IF mode = "digits" /\ i - start.at > MaxDigits
     THEN Stop("int too large", start.line, start.col)
     ELSE /\ Push(IF mode = "digits" THEN "int" ELSE "float", start, i)
          /\ mode' = "next"
          /\ UNCHANGED <<text, i, line, col, start, lexErr>>

OpenWord ==
  /\ Between(i)
  /\ AtIn(i, Letter)
  /\ Begin("word")
  /\ UNCHANGED <<text, i, line, col, toks, lexErr>>

\* Mutated: the suffix is folded in even when a word goes on behind it.
SuffixAnywhere(k) ==
  \A j \in DOMAIN Suffix : At(k + j - 1, Suffix[j])

\* The suffix stands at k and no word character follows it.
SuffixAt(k) ==
  /\ \A j \in DOMAIN Suffix : At(k + j - 1, Suffix[j])
  /\ ~AtIn(k + Len(Suffix), WordChar)

Word ==
  /\ mode = "word"
  /\ IF AtIn(i, WordChar) THEN Advance(1) /\ UNCHANGED <<mode, toks>>
     ELSE LET n == IF SuffixAt(i) THEN Len(Suffix) ELSE 0
          IN  /\ Advance(n)
              /\ Push("word", start, i + n)
              /\ mode' = "next"
  /\ UNCHANGED <<text, start, lexErr>>

\* Whether a lexeme may start with the character at i.
Starts ==
  \/ AtIn(i, Blank \cup {"nl", "(", "quote", "1"} \cup Letter)
  \/ At(i, "%") /\ At(i + 1, "%")
  \/ Opens(i)
  \/ At(i, "-") /\ At(i + 1, ">")

Unexpected ==
  /\ Between(i)
  /\ ~Starts
  /\ Stop("unexpected character", line, col)

Eof ==
  /\ mode = "next"
  /\ i > Len(text)
  /\ Push("eof", Here, i)
  /\ mode' = "done"
  /\ UNCHANGED <<text, i, line, col, start, lexErr>>

LexNext ==
  \/ Whitespace \/ Punctuation \/ OpenLineComment \/ LineComment
  \/ OpenBlockComment \/ BlockComment \/ OpenString \/ StringChar
  \/ OpenNumber \/ Number \/ OpenWord \/ Word \/ Unexpected \/ Eof

LexSpec == LexInit /\ [][LexNext]_lexVars

(***************************************************************************)
(* What the scan promises.                                                 *)
(***************************************************************************)
\* The line and column of an index, from the text alone.
LineOf(k) == 1 + Cardinality({j \in 1 .. k - 1 : text[j] = "nl"})
ColOf(k) == k - Max({0} \cup {j \in 1 .. k - 1 : text[j] = "nl"})

\* Every token, comment and error stands where the text says it does, the
\* one of an unterminated string or comment where that began: line and
\* column, counted along in ten places of the scanner, never drift from the
\* index.
PositionsExact ==
  /\ i \in 1 .. Len(text) + 1
  /\ line = LineOf(i) /\ col = ColOf(i)
  /\ \A t \in ToSet(toks) : t.line = LineOf(t.from) /\ t.col = ColOf(t.from)
  /\ lexErr # NoError =>
       \E k \in 1 .. Len(text) :
         lexErr.line = LineOf(k) /\ lexErr.col = ColOf(k) /\ k \in {i, start.at}

\* No character is lost: the tokens and comments do not overlap, stand in
\* the order of the text, and between two of them there is nothing but
\* blanks; a word that ends in the suffix has no word character behind it.
NothingSkipped ==
  /\ \A k \in 1 .. Len(toks) - 1 : toks[k].to < toks[k + 1].from
  /\ mode \in {"next", "done"} =>
       \A k \in 1 .. i - 1 :
         \/ text[k] \in Blank \cup {"nl"}
         \/ \E t \in ToSet(toks) : k \in t.from .. t.to
  /\ \A t \in ToSet(toks) :
       t.kind = "word" => ~AtIn(t.to + 1, WordChar)
=============================================================================
