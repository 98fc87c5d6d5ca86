------------------------------ MODULE VerbLsp ------------------------------
(***************************************************************************)
(* The language server, src/bin/verb-lsp.rs: one loop that reads a message,*)
(* handles it to its end and reads the next.  It keeps the text of each    *)
(* open document.  The editor may send anything in any order.              *)
(*                                                                         *)
(* A text is abstracted to what the compiler says of it: a lexical error,  *)
(* some syntax errors, a semantic error, or nothing.                       *)
(***************************************************************************)
EXTENDS Naturals, SequencesExt

CONSTANTS
  Doc,        \* document uris
  DocTexts,      \* the texts a document can have
  Lexes,      \* those without a lexical error
  SyntaxErrors,   \* of each text, how many parse_recovering finds
  Compiles,   \* those that code generation accepts
  Tidy,       \* those that format leaves as they are
  ChangeLists,    \* the lists of changes one message can have
  MaxMessages \* bound on the messages of a session

LspAssumption ==
  /\ Lexes \subseteq DocTexts /\ Compiles \subseteq DocTexts /\ Tidy \subseteq DocTexts
  /\ SyntaxErrors \in [DocTexts -> Nat]
  /\ ChangeLists \subseteq Seq(DocTexts)
  /\ MaxMessages \in Nat

ASSUME LspAssumption

VARIABLES
  docs,        \* the texts of the open documents
  shutting,    \* a shutdown request was received
  loop,        \* "on", or how the server ended
  sent,        \* everything sent
  received     \* the messages handled so far

lspVars == <<docs, shutting, loop, sent, received>>

LspInit ==
  /\ docs = [u \in {} |-> "none"]
  /\ shutting = FALSE
  /\ loop = "on"
  /\ sent = <<>>
  /\ received = <<>>

\* The id of a message: the n-th; 0 of a notification.  Any message can be
\* sent with an id and without.
Fresh == Len(received) + 1
Ids   == {0, Fresh}

Serving == loop = "on" /\ Len(received) < MaxMessages

Receive(m) == received' = Append(received, m)

\* send_response and send_error: to a request only.
Response(id, result) ==
  IF id = 0 THEN <<>> ELSE <<[to |-> id, result |-> result]>>

Answer(m, result) ==
  /\ Serving
  /\ Receive(m)
  /\ sent' = sent \o Response(m.id, result)

\* compute_diagnostics: the first stage that has an error to report.
Diagnostics(t) ==
  IF t \notin Lexes THEN <<"lexical">>
  ELSE IF SyntaxErrors[t] > 0 THEN [k \in 1 .. SyntaxErrors[t] |-> "syntax"]
  ELSE IF t \notin Compiles THEN <<"semantic">>
  ELSE <<>>

Publish(u, diagnostics) == <<[uri |-> u, diagnostics |-> diagnostics]>>

Initialize(id) ==
  /\ Answer([method |-> "initialize", id |-> id], "capabilities")
  /\ UNCHANGED <<docs, shutting, loop>>

Shutdown(id) ==
  /\ Answer([method |-> "shutdown", id |-> id], "null")
  /\ shutting' = TRUE
  /\ UNCHANGED <<docs, loop>>

\* An id does not have exit answered.
Exit(id) ==
  /\ Serving
  /\ Receive([method |-> "exit", id |-> id])
  /\ loop' = IF shutting THEN "exit 0" ELSE "exit 1"
  /\ UNCHANGED <<docs, shutting, sent>>

\* initialized, and a message that has no method, which may be the answer of
\* the editor to a request the server never made: nothing is done, and an id
\* is not answered.
Ignore(method, id) ==
  /\ Serving
  /\ method \in {"initialized", ""}
  /\ Receive([method |-> method, id |-> id])
  /\ UNCHANGED <<docs, shutting, loop, sent>>

\* The end of the input or a message that is not framed as it should be.
EndOfInput ==
  /\ Serving
  /\ loop' = "broken off"
  /\ UNCHANGED <<docs, shutting, sent, received>>

\* Mutated: the text a document was opened with stays.
KeepFirst(u, t) == [x \in DOMAIN docs \cup {u} |-> IF x \in DOMAIN docs THEN docs[x] ELSE t]

KeepText(u, t) == [x \in DOMAIN docs \cup {u} |-> IF x = u THEN t ELSE docs[x]]

DidOpen(u, t, id) ==
  /\ Serving
  /\ Receive([method |-> "didOpen", id |-> id, uri |-> u, text |-> t])
  /\ docs' = KeepText(u, t)
  /\ sent' = sent \o Publish(u, Diagnostics(t))
  /\ UNCHANGED <<shutting, loop>>

\* Mutated: the first of several changes is taken.
FirstChange(changes) == changes[1]

\* Each change is a whole text: the last one counts.
Change(changes) == changes[Len(changes)]

\* A document that was never opened may be changed too; no change at all is
\* a message without effect.
DidChange(u, changes, id) ==
  /\ Serving
  /\ Receive([method |-> "didChange", id |-> id, uri |-> u, changes |-> changes])
  /\ IF changes = <<>> THEN UNCHANGED <<docs, sent>>
     ELSE /\ docs' = KeepText(u, Change(changes))
          /\ sent' = sent \o Publish(u, Diagnostics(Change(changes)))
  /\ UNCHANGED <<shutting, loop>>

DidClose(u, id) ==
  /\ Serving
  /\ Receive([method |-> "didClose", id |-> id, uri |-> u])
  /\ docs' = Restrict(docs, DOMAIN docs \ {u})
  /\ sent' = sent \o Publish(u, <<>>)
  /\ UNCHANGED <<shutting, loop>>

\* docs.get: at most one text.
TextOf(u) == {docs[x] : x \in {u} \cap DOMAIN docs}

\* format_edits: null without a document or when it does not parse, no edit
\* when it is tidy already.
Edits(texts) ==
  IF \E t \in texts \cap Lexes : SyntaxErrors[t] = 0
  THEN IF texts \subseteq Tidy THEN "no edits" ELSE "one edit"
  ELSE "null"

\* What can be said of a document: hover has nothing to say of most places,
\* completion takes a document that is not open for an empty one.
Results(method, texts) ==
  CASE method = "hover"      -> texts \cup {"null"}
    [] method = "completion" -> IF texts = {} THEN {"keywords"} ELSE texts
    [] method = "formatting" -> {Edits(texts)}

AskAbout(method, u, id) ==
  /\ \E r \in Results(method, TextOf(u)) :
       Answer([method |-> method, id |-> id, uri |-> u], r)
  /\ UNCHANGED <<docs, shutting, loop>>

Unknown(id) ==
  /\ Answer([method |-> "unknown", id |-> id], "method not found")
  /\ UNCHANGED <<docs, shutting, loop>>

Asking == {"hover", "completion", "formatting"}

LspNext ==
  \/ EndOfInput
  \/ \E id \in Ids :
       \/ Initialize(id) \/ Shutdown(id) \/ Unknown(id) \/ Exit(id)
       \/ \E method \in {"initialized", ""} : Ignore(method, id)
       \/ \E u \in Doc :
            \/ \E t \in DocTexts : DidOpen(u, t, id)
            \/ \E changes \in ChangeLists : DidChange(u, changes, id)
            \/ DidClose(u, id)
            \/ \E method \in Asking : AskAbout(method, u, id)

LspSpec == LspInit /\ [][LspNext]_lspVars

(***************************************************************************)
(* What the server promises.                                               *)
(***************************************************************************)
Responses == {p \in DOMAIN sent : "to" \in DOMAIN sent[p]}

\* The messages that write into u, of the first n.
About(u, n) ==
  {k \in 1 .. n :
     /\ received[k].method \in {"didOpen", "didChange", "didClose"}
     /\ received[k].uri = u
     /\ received[k].method = "didChange" => received[k].changes # <<>>}

WrittenBy(m) ==
  CASE m.method = "didOpen" -> {m.text}
    [] m.method = "didChange" -> {m.changes[Len(m.changes)]}
    [] m.method = "didClose" -> {}

\* What the editor had written into u after n messages, if u was open then:
\* from its messages alone.
TextAt(u, n) ==
  IF About(u, n) = {} THEN {} ELSE WrittenBy(received[Max(About(u, n))])

\* What is left unanswered, whoever waits for it.
Unanswered == {"", "initialized", "exit", "didOpen", "didChange", "didClose"}

\* Every request but those of an unanswered method is answered once, in the
\* order they came; and what an answer says of a document is said of the
\* text the editor had written when it asked, whatever was opened, changed,
\* closed or opened again before and after.
AnswersCurrent ==
  /\ \A p, q \in Responses : p < q => sent[p].to < sent[q].to
  /\ {sent[p].to : p \in Responses} =
       {k \in DOMAIN received : received[k].id # 0 /\ received[k].method \notin Unanswered}
  /\ \A p \in Responses :
       LET k == sent[p].to
           m == received[k]
       IN  m.method \in Asking =>
             sent[p].result \in Results(m.method, TextAt(m.uri, k - 1))

\* What the editor shows for u: the last it was sent.
News(u) == {p \in DOMAIN sent : "uri" \in DOMAIN sent[p] /\ sent[p].uri = u}
Shown(u) == IF News(u) = {} THEN <<>> ELSE sent[Max(News(u))].diagnostics

\* The diagnostics an editor shows for a document are those of the text it
\* has now; a document that is closed shows none.
DiagnosticsCurrent ==
  \A u \in Doc :
    LET texts == TextAt(u, Len(received))
    IN  IF texts = {} THEN Shown(u) = <<>>
        ELSE \A t \in texts : Shown(u) = Diagnostics(t)
=============================================================================
