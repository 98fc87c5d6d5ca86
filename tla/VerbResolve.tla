----------------------------- MODULE VerbResolve -----------------------------
(***************************************************************************)
(* Resolver of src/resolve.rs: the files a program imports with            *)
(* `import mod f.verb;`, read depth first and spliced in front of their    *)
(* importer.  The recursion of process is the variable stack: each frame   *)
(* has the file it reads and the import it is at.                          *)
(*                                                                         *)
(* A file is identified by its path, as in the code: a bare file name      *)
(* joined to the importer's directory, the same for every file of a        *)
(* program.  The statements of a file are abstracted to the file itself.   *)
(***************************************************************************)
EXTENDS Naturals, SequencesExt

CONSTANTS
  File,         \* the names that can be imported
  Entry,        \* the file given on the command line
  Library,      \* C++ libraries and std modules
  MaxImports    \* bound on the imports of one file

ResolveAssumption ==
  /\ Entry \in File
  /\ MaxImports \in Nat

ASSUME ResolveAssumption

VARIABLES
  onDisk,     \* what the files hold; nobody writes them meanwhile
  stack,      \* the files being processed, the entry first
  pending,    \* the path process has just been called with, if any
  done,       \* the files whose statements are in the program
  sources,    \* the files read, for the error messages
  stmts,      \* the program: the files whose statements it has, in order
  libs,       \* the libraries and std modules to link
  verdict     \* "none" until resolve returns

resolveVars == <<onDisk, stack, pending, done, sources, stmts, libs, verdict>>

\* The parser drops the second of two equal imports.
Imports(S) == {s \in UNION {[1 .. n -> S] : n \in 0 .. MaxImports} : IsInjective(s)}

Unreadable == [state |-> "unreadable", files |-> <<>>, libs |-> <<>>]
Malformed  == [state |-> "malformed", files |-> <<>>, libs |-> <<>>]

Contents ==
  [state : {"valid"}, files : Imports(File), libs : Imports(Library)]
    \cup {Unreadable, Malformed}

Frame == [path : File, next : 1 .. MaxImports + 1]

ResolveTypeOK ==
  /\ onDisk \in [File -> Contents]
  /\ stack \in Seq(Frame)
  /\ pending \subseteq File
  /\ done \subseteq File
  /\ sources \in Seq(File)
  /\ stmts \in Seq(File)
  /\ libs \in Seq(Library)
  /\ verdict \in {"none", "ok", "io", "compile", "cycle"}

ResolveInit ==
  /\ onDisk \in [File -> Contents]
  /\ stack = <<>>
  /\ pending = {Entry}
  /\ done = {}
  /\ sources = <<>>
  /\ stmts = <<>>
  /\ libs = <<>>
  /\ verdict = "none"

Stacked == {stack[i].path : i \in DOMAIN stack}
Top     == stack[Len(stack)]
More    == Top.next <= Len(onDisk[Top.path].files)

Fail(v) ==
  /\ verdict' = v
  /\ UNCHANGED <<onDisk, stack, pending, done, stmts, libs>>

\* done.contains: the file is in the program already.
Done(p) == p \in done

\* stack.contains: the file waits for its own import.
OnStack(p) == p \in Stacked

AlreadyDone(p) ==
  /\ Done(p)
  /\ pending' = {}
  /\ UNCHANGED <<onDisk, stack, done, sources, stmts, libs, verdict>>

\* Mutated: an import of a file that is being processed is skipped.
CycleSkipped(p) ==
  /\ ~Done(p)
  /\ OnStack(p)
  /\ pending' = {}
  /\ UNCHANGED <<onDisk, stack, done, sources, stmts, libs, verdict>>

Cycle(p) ==
  /\ ~Done(p)
  /\ OnStack(p)
  /\ Fail("cycle")
  /\ UNCHANGED sources

CannotRead(p) ==
  /\ ~Done(p) /\ ~OnStack(p)
  /\ onDisk[p] = Unreadable
  /\ Fail("io")
  /\ UNCHANGED sources

\* The text was read; lex or parse reports its first error.
CannotParse(p) ==
  /\ ~Done(p) /\ ~OnStack(p)
  /\ onDisk[p] = Malformed
  /\ sources' = Append(sources, p)
  /\ Fail("compile")

\* The file parses; the loop over its imports begins.
Open(p) ==
  /\ ~Done(p) /\ ~OnStack(p)
  /\ onDisk[p].state = "valid"
  /\ sources' = Append(sources, p)
  /\ stack' = Append(stack, [path |-> p, next |-> 1])
  /\ pending' = {}
  /\ UNCHANGED <<onDisk, done, stmts, libs, verdict>>

\* Mutated: the loop over the imports does not advance.
SameImport ==
  /\ More
  /\ pending' = {onDisk[Top.path].files[Top.next]}
  /\ UNCHANGED <<onDisk, stack, done, sources, stmts, libs, verdict>>

NextImport ==
  /\ More
  /\ pending' = {onDisk[Top.path].files[Top.next]}
  /\ stack' = [stack EXCEPT ![Len(stack)].next = @ + 1]
  /\ UNCHANGED <<onDisk, done, sources, stmts, libs, verdict>>

\* Mutated: the libraries of an imported file are pushed again.
PushAll(a, b) == a \o b

\* dedup_push of each item of b: those that a lacks, in order.
DedupPush(a, b) ==
  LET push[k \in 0 .. Len(b)] ==
        IF k = 0 THEN a
        ELSE IF b[k] \in ToSet(push[k - 1]) THEN push[k - 1] ELSE Append(push[k - 1], b[k])
  IN  push[Len(b)]

\* Every import is in the program: the file's own statements follow.
Splice ==
  /\ ~More
  /\ stmts' = Append(stmts, Top.path)
  /\ libs' = DedupPush(libs, onDisk[Top.path].libs)
  /\ done' = done \cup {Top.path}
  /\ stack' = Front(stack)
  /\ verdict' = IF Len(stack) = 1 THEN "ok" ELSE verdict
  /\ UNCHANGED <<onDisk, pending, sources>>

ResolveNext ==
  /\ verdict = "none"
  /\ \/ \E p \in pending :
          \/ AlreadyDone(p)
          \/ Cycle(p)
          \/ CannotRead(p)
          \/ CannotParse(p)
          \/ Open(p)
     \/ pending = {} /\ NextImport
     \/ pending = {} /\ Splice

\* One thread runs the resolver and nothing makes it wait.
ResolveFairness == WF_resolveVars(ResolveNext)

ResolveSpec == ResolveInit /\ [][ResolveNext]_resolveVars /\ ResolveFairness

(***************************************************************************)
(* What import resolution promises.                                        *)
(***************************************************************************)

\* Whatever a file of P imports is in P.
Closed(P) == \A f \in P : ToSet(onDisk[f].files) \subseteq P

\* The files of S and everything they import, directly or not: what every
\* closed set has that holds S.
Closure(S) == {f \in File : \A P \in SUBSET File : S \subseteq P /\ Closed(P) => f \in P}

Reachable == Closure({Entry})

ImportsItself(f) == f \in Closure(ToSet(onDisk[f].files))

\* When a file's statements run, the statements of everything it imports
\* stand before them, once, however many files import it: the order of the
\* files puts no use before its definition and defines nothing twice.
ImportsFirst ==
  /\ ResolveTypeOK
  /\ IsInjective(stmts) /\ IsInjective(sources)
  /\ \A i \in DOMAIN stmts :
       ToSet(onDisk[stmts[i]].files) \subseteq {stmts[j] : j \in 1 .. i - 1}

\* resolve accepts exactly the programs whose files can all be read and
\* parsed and import nothing that imports them; then every file the entry
\* reaches is in the program, with its libraries, and nothing else.  It
\* speaks of a cycle only if there is one, and of a bad file only if the
\* entry reaches one.
Verdict ==
  /\ verdict = "ok" <=>
       /\ verdict # "none"
       /\ \A f \in Reachable : onDisk[f].state = "valid" /\ ~ImportsItself(f)
  /\ verdict = "ok" =>
       /\ ToSet(stmts) = Reachable
       /\ ToSet(libs) = UNION {ToSet(onDisk[f].libs) : f \in Reachable}
       /\ IsInjective(libs)
  /\ verdict = "cycle" => \E f \in Reachable : ImportsItself(f)
  /\ verdict = "io" => \E f \in Reachable : onDisk[f] = Unreadable
  /\ verdict = "compile" => \E f \in Reachable : onDisk[f] = Malformed

\* resolve returns, whatever the files import.
Returns == <>(verdict # "none")
=============================================================================
