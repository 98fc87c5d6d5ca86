----------------------------- MODULE VerbLibrary -----------------------------
(***************************************************************************)
(* The parts of code generator and runtime that share no state with each   *)
(* other: helpers on strings and on numbers, tagged unions, calls by name, *)
(* a connection of std io, the counts of threads.  A behaviour is one of a *)
(* single part, with the others at the end of one of theirs.               *)
(***************************************************************************)
EXTENDS VerbStrings, VerbNumbers, VerbVariants, VerbStdIo, VerbCalls, VerbThreadHeap

\* The empty string, split by the empty one.
NoString ==
  /\ s = <<>> /\ sep = <<>>
  /\ pc = "done"
  /\ cur = 0 /\ count = 1 /\ i = 1
  /\ elems = << <<>> >>

\* Zero, negated.
NoNumber ==
  /\ a = IntV(0) /\ b = IntV(0)
  /\ op = "neg" /\ res = IntV(0)

\* A match without arms has aborted.
NoVariant ==
  /\ declared = 1
  /\ variants = Register([v \in Variant |-> None], 1)
  /\ value = Nil /\ failed = "other"
  /\ code = [arms |-> <<>>, otherwise |-> FALSE]
  /\ at = 0 /\ outcome = Aborted

\* The host has no address.
NoConnection ==
  /\ addrs = <<>> /\ fds = {} /\ sock = "none" /\ wire = <<>>
  /\ sends = [t \in Sender |-> [at |-> 1, off |-> 0, results |-> <<>>]]
  /\ order = <<>> /\ closing = NotYet /\ line = <<>> /\ got = <<>>
  /\ sigpipe = "ignored"

\* The program was rejected.
NoCall ==
  /\ imports = FALSE /\ stdImports = {} /\ bound = {} /\ sites = {}
  /\ externSigs = [x \in {} |-> 0] /\ externs = [x \in {} |-> 0]
  /\ constructors \in {c \in Types : DOMAIN c = {}}
  /\ decls = {Declaration(f, 0, Passes("runtime", 0)) : f \in Runtime}
  /\ compiling = FALSE

\* A program without threads has ended.
NoThreads ==
  /\ reach = {} /\ home = {} /\ stale = {"global"}
  /\ rc = [blk \in Block |-> 0] /\ freed = Block
  /\ refs = [t \in Thread |-> {}] /\ inside = [t \in Thread |-> Idle]
  /\ phase = [t \in Thread |-> IF t = Main THEN "exited" ELSE "unborn"]
  /\ queue = {} /\ touched = {}

Init ==
  \/ StrInit /\ NoNumber /\ NoVariant /\ NoConnection /\ NoCall /\ NoThreads
  \/ NumInit /\ NoString /\ NoVariant /\ NoConnection /\ NoCall /\ NoThreads
  \/ VariantInit /\ NoString /\ NoNumber /\ NoConnection /\ NoCall /\ NoThreads
  \/ IoInit /\ NoString /\ NoNumber /\ NoVariant /\ NoCall /\ NoThreads
  \/ CallsInit /\ NoString /\ NoNumber /\ NoVariant /\ NoConnection /\ NoThreads
  \/ HeapInit /\ NoString /\ NoNumber /\ NoVariant /\ NoConnection /\ NoCall

vars == <<strVars, numVars, variantVars, ioVars, callVars, heapVars>>

StringStep  == StrNext     /\ UNCHANGED <<numVars, variantVars, ioVars, callVars, heapVars>>
NumberStep  == NumNext     /\ UNCHANGED <<strVars, variantVars, ioVars, callVars, heapVars>>
VariantStep == VariantNext /\ UNCHANGED <<strVars, numVars, ioVars, callVars, heapVars>>
IoStep      == IoNext      /\ UNCHANGED <<strVars, numVars, variantVars, callVars, heapVars>>
CallStep    == CallsNext   /\ UNCHANGED <<strVars, numVars, variantVars, ioVars, heapVars>>
HeapStep    == HeapNext    /\ UNCHANGED <<strVars, numVars, variantVars, ioVars, callVars>>

Next ==
  \/ StringStep \/ NumberStep \/ VariantStep
  \/ IoStep \/ CallStep \/ HeapStep

Spec == Init /\ [][Next]_vars /\ IoFairness
=============================================================================
