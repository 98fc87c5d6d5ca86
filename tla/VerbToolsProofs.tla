--------------------------- MODULE VerbToolsProofs ---------------------------
(***************************************************************************)
(* The parts of the verb commands, for all that each may be given: the     *)
(* resolver, for any files that import each other in any way; the builder, *)
(* for any targets and any failures; the scanner, for any text; the        *)
(* language server, for any session of messages about any documents; the   *)
(* read-eval-print loop, for any lines typed; and the formatter, for any   *)
(* text.                                                                   *)
(***************************************************************************)
EXTENDS VerbResolve, VerbBuild, VerbLexer, VerbLsp, VerbRepl, VerbFormat, FiniteSetTheorems, SequenceTheorems, WellFoundedInduction, TLAPS

(***************************************************************************)
(* What is reached by imports, from the files d holds.                     *)
(***************************************************************************)
Lists(d, p) == ToSet(d[p].files)

\* x is in the closure of S.
Goes(d, S, x) ==
  /\ x \in File
  /\ \A P \in SUBSET File : S \subseteq P /\ (\A f \in P : Lists(d, f) \subseteq P) => x \in P

(* What a file holds.                                                      *)
LEMMA ContentsAre ==
  ASSUME NEW d \in [File -> Contents], NEW p \in File
  PROVE  /\ d[p].files \in Seq(File) /\ d[p].libs \in Seq(Library)
         /\ Len(d[p].files) \in 0 .. MaxImports
         /\ DOMAIN d[p].files = 1 .. Len(d[p].files)
         /\ Lists(d, p) \subseteq File
         /\ \A n \in DOMAIN d[p].files : d[p].files[n] \in Lists(d, p)
         /\ d[p].state = "valid" => d[p] # Unreadable /\ d[p] # Malformed
<1>1. d[p] \in Contents
  OBVIOUS
<1>2. \/ d[p].files = <<>> /\ d[p].libs = <<>>
      \/ d[p].files \in Imports(File) /\ d[p].libs \in Imports(Library)
  BY <1>1 DEF Contents, Unreadable, Malformed
<1>3. \A S : \A s \in Imports(S) : s \in Seq(S) /\ Len(s) \in 0 .. MaxImports
  <2> SUFFICES ASSUME NEW S, NEW s \in Imports(S) PROVE s \in Seq(S) /\ Len(s) \in 0 .. MaxImports
    OBVIOUS
  <2>1. PICK n \in 0 .. MaxImports : s \in [1 .. n -> S]
    BY DEF Imports
  <2>2. n \in Nat /\ Len(s) = n
    BY <2>1
  <2> QED
    BY <2>1, <2>2
<1>4. d[p].files \in Seq(File) /\ d[p].libs \in Seq(Library) /\ Len(d[p].files) \in 0 .. MaxImports
  <2>1. CASE d[p].files = <<>> /\ d[p].libs = <<>>
    <3>1. d[p].files \in Seq(File) /\ d[p].libs \in Seq(Library)
      BY <2>1
    <3>2. Len(d[p].files) = 0
      BY <2>1
    <3> QED
      BY <3>1, <3>2, ResolveAssumption DEF ResolveAssumption
  <2>2. CASE d[p].files \in Imports(File) /\ d[p].libs \in Imports(Library)
    BY <1>3, <2>2
  <2> QED
    BY <1>2, <2>1, <2>2
<1>5. DOMAIN d[p].files = 1 .. Len(d[p].files)
  BY <1>4
<1>6. Lists(d, p) \subseteq File /\ \A n \in DOMAIN d[p].files : d[p].files[n] \in Lists(d, p)
  BY <1>4, <1>5, ElementOfSeq DEF Lists, ToSet
<1>7. d[p].state = "valid" => d[p] # Unreadable /\ d[p] # Malformed
  BY DEF Unreadable, Malformed
<1> QED
  BY <1>4, <1>5, <1>6, <1>7

(* A member is reached, and so is what one that is reached imports.        *)
LEMMA GoesOn ==
  ASSUME NEW d \in [File -> Contents], NEW S
  PROVE  /\ \A x \in S : x \in File => Goes(d, S, x)
         /\ \A p, x : Goes(d, S, p) /\ x \in Lists(d, p) => Goes(d, S, x)
<1>1. \A p \in File : Lists(d, p) \subseteq File
  BY ContentsAre
<1> QED
  BY <1>1 DEF Goes

(* Closure is what is reached.                                             *)
LEMMA ClosureIs ==
  ASSUME NEW S
  PROVE  \A x : x \in Closure(S) <=> Goes(onDisk, S, x)
BY DEF Closure, Closed, Goes, Lists

(***************************************************************************)
(* dedup_push.                                                             *)
(***************************************************************************)

(* The least-number principle, for sets.                                   *)
LEMMA LeastNumber ==
  ASSUME NEW S \in SUBSET Nat, S # {}
  PROVE  \E m \in S : \A k \in S : m <= k
<1> DEFINE T == {0 .. n : n \in S}
<1>1. T \subseteq FiniteSubsetsOf(Nat) /\ T # {}
  <2>1. \A n \in S : IsFiniteSet(0 .. n) /\ 0 .. n \in SUBSET Nat
    BY FS_Interval
  <2> QED
    BY <2>1 DEF FiniteSubsetsOf
<1>2. PICK x \in T : \A y \in T : ~(<<y, x>> \in StrictSubsetOrdering(Nat))
  BY <1>1, FS_StrictSubsetOrderingWellFounded, WFMin
<1>3. PICK m \in S : x = 0 .. m
  OBVIOUS
<1>4. ASSUME NEW k \in S, k < m
      PROVE  FALSE
  <2>1. 0 .. k \subseteq 0 .. m /\ m \in 0 .. m /\ m \notin 0 .. k
    BY <1>4
  <2>2. <<0 .. k, 0 .. m>> \in StrictSubsetOrdering(Nat)
    BY <2>1 DEF StrictSubsetOrdering
  <2> QED
    BY <1>2, <1>3, <2>2
<1> QED
  BY <1>4

\* The list after each of the first n pushes.
Pushes(a, b, n, f) ==
  f = [k \in 0 .. n |->
         IF k = 0 THEN a
         ELSE IF b[k] \in ToSet(f[k - 1]) THEN f[k - 1] ELSE Append(f[k - 1], b[k])]

(* There is one after as many as are asked for.                            *)
LEMMA PushesExist ==
  ASSUME NEW a, NEW b, NEW N \in Nat
  PROVE  \E f : Pushes(a, b, N, f)
<1> DEFINE S == {n \in Nat : ~ \E f : Pushes(a, b, n, f)}
<1>1. SUFFICES ASSUME S # {}
               PROVE  FALSE
  OBVIOUS
<1>2. PICK m \in S : \A k \in S : m <= k
  BY <1>1, LeastNumber
<1>3. CASE m = 0
  <2> DEFINE f == [n \in 0 .. 0 |-> a]
  <2>1. Pushes(a, b, 0, f)
    BY DEF Pushes
  <2> QED
    BY <1>3, <2>1
<1>4. CASE m > 0
  <2>1. m - 1 \in Nat /\ m - 1 \notin S
    BY <1>2, <1>4
  <2>2. PICK h : Pushes(a, b, m - 1, h)
    BY <2>1
  <2>3. PICK v : v = IF b[m] \in ToSet(h[m - 1]) THEN h[m - 1] ELSE Append(h[m - 1], b[m])
    OBVIOUS
  <2> DEFINE f == [n \in 0 .. m |-> IF n = m THEN v ELSE h[n]]
  <2>4. ASSUME NEW n \in 0 .. m
        PROVE  f[n] = IF n = 0 THEN a
                      ELSE IF b[n] \in ToSet(f[n - 1]) THEN f[n - 1] ELSE Append(f[n - 1], b[n])
    <3>1. CASE n = m
      BY <1>4, <2>3, <3>1
    <3>2. CASE n # m
      <4>1. n \in 0 .. m - 1 /\ (n # 0 => n - 1 \in 0 .. m /\ n - 1 # m)
        BY <3>2
      <4>2. h[n] = IF n = 0 THEN a
                   ELSE IF b[n] \in ToSet(h[n - 1]) THEN h[n - 1] ELSE Append(h[n - 1], b[n])
        BY <2>2, <4>1 DEF Pushes
      <4>3. f[n] = h[n] /\ (n # 0 => f[n - 1] = h[n - 1])
        BY <3>2, <4>1
      <4> QED
        BY <4>2, <4>3
    <3> QED
      BY <3>1, <3>2
  <2>5. Pushes(a, b, m, f)
    BY <2>4 DEF Pushes
  <2> QED
    BY <2>5
<1> QED
  BY <1>3, <1>4

\* What the list is after n pushes.
PushedFirst(a, b, n, q, L) ==
  /\ q \in Seq(L)
  /\ ToSet(q) = ToSet(a) \cup {b[k] : k \in 1 .. n}
  /\ IsInjective(q)

(* One push keeps it so.                                                   *)
LEMMA OnePush ==
  ASSUME NEW L, NEW a \in Seq(L), NEW b \in Seq(L), NEW n \in 1 .. Len(b), NEW q,
         PushedFirst(a, b, n - 1, q, L)
  PROVE  PushedFirst(a, b, n, IF b[n] \in ToSet(q) THEN q ELSE Append(q, b[n]), L)
<1>1. /\ q \in Seq(L) /\ b[n] \in L /\ IsInjective(q) /\ Len(q) \in Nat
      /\ ToSet(q) = ToSet(a) \cup {b[k] : k \in 1 .. n - 1}
  BY ElementOfSeq DEF PushedFirst
<1>2. {b[k] : k \in 1 .. n} = {b[k] : k \in 1 .. n - 1} \cup {b[n]}
  <2>1. \A k : k \in 1 .. n <=> k \in 1 .. n - 1 \/ k = n
    OBVIOUS
  <2> QED
    BY <2>1
<1>3. CASE b[n] \in ToSet(q)
  BY <1>1, <1>2, <1>3 DEF PushedFirst
<1>4. CASE b[n] \notin ToSet(q)
  <2>1. PICK r : r = Append(q, b[n])
    OBVIOUS
  <2>2. /\ r \in Seq(L) /\ Len(r) = Len(q) + 1 /\ r[Len(q) + 1] = b[n]
        /\ \A k \in 1 .. Len(q) : r[k] = q[k]
    BY <1>1, <2>1
  <2>3. DOMAIN q = 1 .. Len(q) /\ DOMAIN r = 1 .. Len(q) + 1
    BY <1>1, <2>2
  <2>4. \A k : k \in DOMAIN r <=> k \in DOMAIN q \/ k = Len(q) + 1
    BY <1>1, <2>3
  <2>5. ToSet(r) = ToSet(q) \cup {b[n]}
    BY <2>2, <2>3, <2>4 DEF ToSet
  <2>6. IsInjective(r)
    <3> SUFFICES ASSUME NEW m \in DOMAIN r, NEW j \in DOMAIN r, r[m] = r[j] PROVE m = j
      BY DEF IsInjective
    <3>1. \A k \in DOMAIN q : r[k] # b[n]
      BY <1>4, <2>2, <2>3 DEF ToSet
    <3> QED
      BY <1>1, <2>2, <2>3, <2>4, <3>1 DEF IsInjective
  <2> QED
    BY <1>1, <1>2, <1>4, <2>1, <2>2, <2>5, <2>6 DEF PushedFirst
<1> QED
  BY <1>3, <1>4

(* What dedup_push makes of a list without repetitions.                    *)
LEMMA DedupPushed ==
  ASSUME NEW L, NEW a \in Seq(L), NEW b \in Seq(L), IsInjective(a)
  PROVE  PushedFirst(a, b, Len(b), DedupPush(a, b), L)
<1>1. PICK N \in Nat : N = Len(b)
  OBVIOUS
<1>2. PICK f : Pushes(a, b, N, f) /\ DedupPush(a, b) = f[N]
  <2>1. \E f : Pushes(a, b, N, f)
    BY PushesExist
  <2> DEFINE R == CHOOSE f : f = [k \in 0 .. N |->
                    IF k = 0 THEN a
                    ELSE IF b[k] \in ToSet(f[k - 1]) THEN f[k - 1] ELSE Append(f[k - 1], b[k])]
  <2>2. R = [k \in 0 .. N |->
               IF k = 0 THEN a
               ELSE IF b[k] \in ToSet(R[k - 1]) THEN R[k - 1] ELSE Append(R[k - 1], b[k])]
    BY <2>1 DEF Pushes
  <2>3. DedupPush(a, b) = R[N]
    BY <1>1 DEF DedupPush
  <2> QED
    BY <2>2, <2>3 DEF Pushes
<1> DEFINE S == {n \in 0 .. N : ~PushedFirst(a, b, n, f[n], L)}
<1>3. ASSUME S # {} PROVE FALSE
  <2>1. S \in SUBSET Nat
    OBVIOUS
  <2> HIDE DEF S
  <2>2. PICK m \in S : \A k \in S : m <= k
    BY <1>3, <2>1, LeastNumber
  <2> USE DEF S
  <2>3. CASE m = 0
    <3>1. f[0] = a
      BY <1>2 DEF Pushes
    <3>2. PushedFirst(a, b, 0, a, L)
      BY DEF PushedFirst
    <3> QED
      BY <2>2, <2>3, <3>1, <3>2
  <2>4. CASE m # 0
    <3>1. m - 1 \in 0 .. N /\ m - 1 \notin S /\ m \in 1 .. Len(b)
      BY <1>1, <2>2, <2>4
    <3>2. PICK q : q = f[m - 1]
      OBVIOUS
    <3>3. PushedFirst(a, b, m - 1, q, L)
      BY <3>1, <3>2
    <3>4. f[m] = IF b[m] \in ToSet(q) THEN q ELSE Append(q, b[m])
      <4>1. m \in 0 .. N /\ m # 0
        BY <1>1, <3>1
      <4>2. f[m] = IF m = 0 THEN a
                   ELSE IF b[m] \in ToSet(f[m - 1]) THEN f[m - 1] ELSE Append(f[m - 1], b[m])
        BY <1>2, <4>1 DEF Pushes
      <4> QED
        BY <3>2, <4>1, <4>2
    <3>5. PushedFirst(a, b, m, f[m], L)
      BY <3>1, <3>3, <3>4, OnePush
    <3> QED
      BY <2>2, <3>5
  <2> QED
    BY <2>3, <2>4
<1> QED
  BY <1>1, <1>2, <1>3

(***************************************************************************)
(* The inductive invariant of the resolver.                                *)
(***************************************************************************)

\* The files being processed are distinct, not in the program yet, and were
\* parsed; the entry is the first of them until it is in the program.
Chained ==
  /\ \A k \in DOMAIN stack : \A m \in DOMAIN stack : stack[k].path = stack[m].path => k = m
  /\ \A k \in DOMAIN stack : stack[k].path \notin done
  /\ \A k \in DOMAIN stack : onDisk[stack[k].path].state = "valid"
  /\ stack # <<>> => stack[1].path = Entry
  /\ \A f \in done : onDisk[f].state = "valid"
  /\ \A p \in pending : \A q \in pending : p = q
  /\ verdict = "none" /\ stack = <<>> => pending = {Entry} /\ done = {}
  /\ verdict = "ok" => Entry \in done

\* Each of them is reached from those that wait for it.
Waiting ==
  /\ \A k \in DOMAIN stack : \A m \in DOMAIN stack :
       k < m => Goes(onDisk, Lists(onDisk, stack[k].path), stack[m].path)
  /\ \A k \in DOMAIN stack : \A p \in pending : Goes(onDisk, Lists(onDisk, stack[k].path), p)
  /\ \A k \in DOMAIN stack : Goes(onDisk, {Entry}, stack[k].path)
  /\ \A p \in pending \cup done : Goes(onDisk, {Entry}, p)

\* The imports a frame has passed are in the program, but for the last one,
\* which is the frame above or the path about to be processed.
Progress ==
  \A k \in DOMAIN stack : \A n \in DOMAIN onDisk[stack[k].path].files :
    LET f == onDisk[stack[k].path].files[n]
    IN  n < stack[k].next =>
          \/ f \in done
          \/ k < Len(stack) /\ f = stack[k + 1].path
          \/ k = Len(stack) /\ f \in pending

\* The program: every file once, behind what it imports.
Ordered ==
  /\ IsInjective(stmts)
  /\ done = ToSet(stmts)
  /\ \A k \in DOMAIN stmts : Lists(onDisk, stmts[k]) \subseteq {stmts[j] : j \in 1 .. k - 1}

\* A file is read once: what has been read is in the program or on the stack.
ReadOnce ==
  /\ IsInjective(sources)
  /\ verdict = "none" => ToSet(sources) = done \cup Stacked

LibsOnce ==
  /\ IsInjective(libs)
  /\ ToSet(libs) = UNION {ToSet(onDisk[f].libs) : f \in done}

\* A failure has a cause.
Blamed ==
  /\ verdict = "cycle" => \E f : Goes(onDisk, {Entry}, f) /\ Goes(onDisk, Lists(onDisk, f), f)
  /\ verdict = "io" => \E f : Goes(onDisk, {Entry}, f) /\ onDisk[f] = Unreadable
  /\ verdict = "compile" => \E f : Goes(onDisk, {Entry}, f) /\ onDisk[f] = Malformed

ResolveInv ==
  ResolveTypeOK /\ Chained /\ Waiting /\ Progress /\ Ordered /\ ReadOnce /\ LibsOnce /\ Blamed

(* The frames of the stack.                                                *)
LEMMA Frames ==
  ASSUME ResolveTypeOK
  PROVE  /\ Len(stack) \in Nat /\ DOMAIN stack = 1 .. Len(stack)
         /\ \A k \in DOMAIN stack : stack[k] \in Frame /\ stack[k].path \in File
                                   /\ stack[k].next \in 1 .. MaxImports + 1
         /\ stack # <<>> => Len(stack) \in DOMAIN stack
<1>1. stack \in Seq(Frame)
  BY DEF ResolveTypeOK
<1>2. Len(stack) \in Nat /\ DOMAIN stack = 1 .. Len(stack)
  BY <1>1
<1>3. \A k \in DOMAIN stack : stack[k] \in Frame
  BY <1>1, <1>2, ElementOfSeq
<1>4. stack # <<>> => Len(stack) \in DOMAIN stack
  BY <1>1, <1>2
<1> QED
  BY <1>2, <1>3, <1>4 DEF Frame

(* Nothing is in the program, nothing waits and nothing failed.            *)
LEMMA ResolveStarts == ResolveInit => ResolveInv
<1> SUFFICES ASSUME ResolveInit PROVE ResolveInv
  OBVIOUS
<1> USE DEF ResolveInit
<1>1. Entry \in File /\ stack = <<>> /\ DOMAIN stack = {} /\ ToSet(stmts) = {} /\ ToSet(sources) = {} /\ ToSet(libs) = {}
  BY ResolveAssumption DEF ResolveAssumption, ToSet
<1>2. DOMAIN stmts = {} /\ DOMAIN sources = {} /\ DOMAIN libs = {}
  OBVIOUS
<1>3. ResolveTypeOK
  BY <1>1 DEF ResolveTypeOK
<1>4. Chained
  BY <1>1 DEF Chained
<1>5. Waiting
  BY <1>1, GoesOn DEF Waiting
<1>6. Progress
  BY <1>1 DEF Progress
<1>7. Ordered /\ ReadOnce /\ LibsOnce
  BY <1>1, <1>2 DEF Ordered, ReadOnce, LibsOnce, IsInjective, Stacked
<1>8. Blamed
  BY DEF Blamed
<1> QED
  BY <1>3, <1>4, <1>5, <1>6, <1>7, <1>8 DEF ResolveInv

(* One item more.                                                          *)
LEMMA OneMore ==
  ASSUME NEW L, NEW s \in Seq(L), NEW x \in L, NEW r, r = Append(s, x)
  PROVE  /\ r \in Seq(L) /\ Len(s) \in Nat /\ Len(r) = Len(s) + 1
         /\ DOMAIN s = 1 .. Len(s) /\ DOMAIN r = 1 .. Len(s) + 1
         /\ \A k : k \in DOMAIN r <=> k \in DOMAIN s \/ k = Len(s) + 1
         /\ \A k \in DOMAIN s : r[k] = s[k]
         /\ r[Len(s) + 1] = x
         /\ x \notin ToSet(s) /\ IsInjective(s) => IsInjective(r)
<1>1. r \in Seq(L) /\ Len(s) \in Nat /\ Len(r) = Len(s) + 1
  OBVIOUS
<1>2. DOMAIN s = 1 .. Len(s) /\ DOMAIN r = 1 .. Len(s) + 1
  BY <1>1
<1>3. \A k : k \in DOMAIN r <=> k \in DOMAIN s \/ k = Len(s) + 1
  BY <1>1, <1>2
<1>4. (\A k \in DOMAIN s : r[k] = s[k]) /\ r[Len(s) + 1] = x
  BY <1>1, <1>2
<1>5. ASSUME x \notin ToSet(s), IsInjective(s)
      PROVE  IsInjective(r)
  <2> SUFFICES ASSUME NEW k \in DOMAIN r, NEW m \in DOMAIN r, r[k] = r[m] PROVE k = m
    BY DEF IsInjective
  <2>1. \A n \in DOMAIN s : r[n] # x
    BY <1>4, <1>5 DEF ToSet
  <2> QED
    BY <1>3, <1>4, <1>5, <2>1 DEF IsInjective
<1> QED
  BY <1>1, <1>2, <1>3, <1>4, <1>5

(* The items of a sequence with one more.                                  *)
LEMMA OneMoreThere ==
  ASSUME NEW L, NEW s \in Seq(L), NEW x \in L
  PROVE  ToSet(Append(s, x)) = ToSet(s) \cup {x}
<1>1. PICK r : r = Append(s, x)
  OBVIOUS
<1>2. /\ \A k : k \in DOMAIN r <=> k \in DOMAIN s \/ k = Len(s) + 1
      /\ \A k \in DOMAIN s : r[k] = s[k]
      /\ r[Len(s) + 1] = x
  BY <1>1, OneMore
<1>3. ToSet(r) = ToSet(s) \cup {x}
  BY <1>2 DEF ToSet
<1> QED
  BY <1>1, <1>3

(* One that is new leaves it without repetitions.                          *)
LEMMA OneMoreOnce ==
  ASSUME NEW L, NEW s \in Seq(L), NEW x \in L, x \notin ToSet(s), IsInjective(s)
  PROVE  IsInjective(Append(s, x))
<1>1. PICK r : r = Append(s, x)
  OBVIOUS
<1>2. IsInjective(r)
  BY <1>1, OneMore
<1> QED
  BY <1>1, <1>2

(* A path that is in the program already.                                  *)
LEMMA SkipKeeps ==
  ASSUME ResolveInv, verdict = "none", NEW p \in pending, AlreadyDone(p)
  PROVE  ResolveInv'
<1> USE DEF AlreadyDone, Done
<1>1. \A q \in pending : q \in done
  BY DEF ResolveInv, Chained
<1>2. ResolveTypeOK'
  BY DEF ResolveInv, ResolveTypeOK
<1>3. stack # <<>>
  BY DEF ResolveInv, Chained
<1>4. Chained'
  BY <1>3 DEF ResolveInv, Chained
<1>5. Waiting'
  BY DEF ResolveInv, Waiting
<1>6. Progress'
  BY <1>1 DEF ResolveInv, Progress
<1>7. Ordered' /\ LibsOnce'
  BY DEF ResolveInv, Ordered, LibsOnce
<1>8. ReadOnce' /\ Blamed'
  BY DEF ResolveInv, ReadOnce, Blamed, Stacked
<1> QED
  BY <1>2, <1>4, <1>5, <1>6, <1>7, <1>8 DEF ResolveInv

(* A failure: nothing but the verdict, and what has been read.             *)
LEMMA FailKeeps ==
  ASSUME ResolveInv, verdict = "none", NEW p \in pending,
         Cycle(p) \/ CannotRead(p) \/ CannotParse(p)
  PROVE  ResolveInv'
<1> USE DEF Fail
<1>1. /\ UNCHANGED <<onDisk, stack, pending, done, stmts, libs>>
      /\ verdict' \in {"cycle", "io", "compile"}
  BY DEF Cycle, CannotRead, CannotParse
<1>2. p \in File /\ Goes(onDisk, {Entry}, p)
  BY DEF ResolveInv, ResolveTypeOK, Waiting
<1>3. sources' \in Seq(File) /\ IsInjective(sources')
  <2>1. CASE sources' = sources
    BY <2>1 DEF ResolveInv, ResolveTypeOK, ReadOnce
  <2>2. CASE CannotParse(p)
    <3>1. p \notin ToSet(sources)
      BY <2>2 DEF CannotParse, Done, OnStack, ResolveInv, ReadOnce
    <3>2. sources \in Seq(File) /\ sources' = Append(sources, p) /\ IsInjective(sources)
      BY <2>2 DEF CannotParse, ResolveInv, ResolveTypeOK, ReadOnce
    <3> QED
      BY <1>2, <3>1, <3>2, OneMore
  <2> QED
    BY <2>1, <2>2 DEF Cycle, CannotRead
<1>4. ResolveTypeOK'
  BY <1>1, <1>3 DEF ResolveInv, ResolveTypeOK
<1>5. Chained'
  BY <1>1 DEF ResolveInv, Chained
<1>6. Waiting' /\ Progress' /\ Ordered' /\ LibsOnce'
  <2>1. Waiting'
    BY <1>1 DEF ResolveInv, Waiting
  <2>2. Progress'
    BY <1>1 DEF ResolveInv, Progress
  <2>3. Ordered' /\ LibsOnce'
    BY <1>1 DEF ResolveInv, Ordered, LibsOnce
  <2> QED
    BY <2>1, <2>2, <2>3
<1>7. ReadOnce'
  BY <1>1, <1>3 DEF ReadOnce
<1>8. Blamed'
  <2>1. CASE Cycle(p)
    <3>1. PICK k \in DOMAIN stack : p = stack[k].path
      BY <2>1 DEF Cycle, OnStack, Stacked
    <3>2. Goes(onDisk, Lists(onDisk, p), p)
      BY <3>1 DEF ResolveInv, Waiting
    <3> QED
      BY <1>1, <1>2, <2>1, <3>2 DEF Blamed, Cycle
  <2>2. CASE CannotRead(p)
    BY <1>1, <1>2, <2>2 DEF Blamed, CannotRead
  <2>3. CASE CannotParse(p)
    BY <1>1, <1>2, <2>3 DEF Blamed, CannotParse
  <2> QED
    BY <2>1, <2>2, <2>3
<1> QED
  BY <1>4, <1>5, <1>6, <1>7, <1>8 DEF ResolveInv

(* A file is opened: it is the import the frame below has just passed.     *)
LEMMA OpenKeeps ==
  ASSUME ResolveInv, verdict = "none", NEW p \in pending, Open(p)
  PROVE  ResolveInv'
<1> DEFINE f == [path |-> p, next |-> 1]
<1>1. /\ UNCHANGED <<onDisk, done, stmts, libs, verdict>> /\ pending' = {}
      /\ sources' = Append(sources, p) /\ stack' = Append(stack, f)
      /\ p \notin done /\ p \notin Stacked /\ onDisk[p].state = "valid"
  BY DEF Open, Done, OnStack
<1>2. /\ p \in File /\ pending = {p} /\ Goes(onDisk, {Entry}, p)
      /\ (stack = <<>> => p = Entry)
  BY DEF ResolveInv, ResolveTypeOK, Waiting, Chained
<1>3. f \in Frame
  BY <1>2, ResolveAssumption DEF Frame, ResolveAssumption
<1> HIDE DEF f
<1>4. f.path = p /\ f.next = 1
  BY DEF f
<1>5. stack \in Seq(Frame) /\ sources \in Seq(File)
  BY DEF ResolveInv, ResolveTypeOK
<1>6. /\ stack' \in Seq(Frame) /\ Len(stack) \in Nat /\ Len(stack') = Len(stack) + 1
      /\ DOMAIN stack = 1 .. Len(stack)
      /\ \A k : k \in DOMAIN stack' <=> k \in DOMAIN stack \/ k = Len(stack) + 1
      /\ \A k \in DOMAIN stack : stack'[k] = stack[k]
      /\ stack'[Len(stack) + 1] = f
  BY <1>1, <1>3, <1>5, OneMore
<1>7. p \notin ToSet(sources)
  BY <1>1 DEF ResolveInv, ReadOnce
<1>8. sources' \in Seq(File) /\ ToSet(sources') = ToSet(sources) \cup {p} /\ IsInjective(sources')
  <2>1. IsInjective(sources)
    BY DEF ResolveInv, ReadOnce
  <2>2. sources \in Seq(File) /\ p \in File /\ sources' = Append(sources, p)
    BY <1>1, <1>2, <1>5
  <2>3. PICK r : r = sources'
    OBVIOUS
  <2>4. r = Append(sources, p)
    BY <2>2, <2>3
  <2>5. r \in Seq(File)
    BY <2>2, <2>4
  <2>7. ToSet(r) = ToSet(sources) \cup {p}
    BY <2>2, <2>4, OneMoreThere
  <2>6. IsInjective(r)
    BY <1>7, <2>1, <2>2, <2>4, OneMore
  <2> QED
    BY <2>3, <2>5, <2>6, <2>7
<1>9. ResolveTypeOK'
  BY <1>1, <1>6, <1>8 DEF ResolveInv, ResolveTypeOK
<1>10. \A k \in DOMAIN stack : stack[k].path # p
  BY <1>1 DEF Stacked
<1>11. Chained'
  <2>1. stack' # <<>> /\ stack'[1].path = Entry
    <3>1. CASE stack = <<>>
      <4>1. Len(stack) + 1 = 1
        BY <3>1
      <4>2. stack'[1] = f /\ 1 \in DOMAIN stack'
        BY <1>6, <4>1
      <4> QED
        BY <1>2, <1>4, <3>1, <4>2
    <3>2. CASE stack # <<>>
      <4>1. 1 \in DOMAIN stack
        BY <1>5, <1>6, <3>2
      <4> QED
        BY <1>6, <4>1, <3>2 DEF ResolveInv, Chained
    <3> QED
      BY <3>1, <3>2
  <2>2. \A k \in DOMAIN stack' : \A m \in DOMAIN stack' : stack'[k].path = stack'[m].path => k = m
    BY <1>4, <1>6, <1>10 DEF ResolveInv, Chained
  <2>3. \A k \in DOMAIN stack' : stack'[k].path \notin done' /\ onDisk'[stack'[k].path].state = "valid"
    BY <1>1, <1>4, <1>6 DEF ResolveInv, Chained
  <2> QED
    BY <1>1, <2>1, <2>2, <2>3 DEF ResolveInv, Chained
<1>12. Waiting'
  <2>1. \A k \in DOMAIN stack' : \A m \in DOMAIN stack' :
          k < m => Goes(onDisk, Lists(onDisk, stack'[k].path), stack'[m].path)
    <3> SUFFICES ASSUME NEW k \in DOMAIN stack', NEW m \in DOMAIN stack', k < m
                 PROVE  Goes(onDisk, Lists(onDisk, stack'[k].path), stack'[m].path)
      OBVIOUS
    <3>1. k \in DOMAIN stack
      BY <1>6
    <3>2. CASE m \in DOMAIN stack
      BY <1>6, <3>1, <3>2 DEF ResolveInv, Waiting
    <3>3. CASE m = Len(stack) + 1
      BY <1>2, <1>4, <1>6, <3>1, <3>3 DEF ResolveInv, Waiting
    <3> QED
      BY <1>6, <3>2, <3>3
  <2>2. \A k \in DOMAIN stack' : Goes(onDisk, {Entry}, stack'[k].path)
    BY <1>2, <1>4, <1>6 DEF ResolveInv, Waiting
  <2> QED
    BY <1>1, <2>1, <2>2 DEF ResolveInv, Waiting
<1>13. Progress'
  <2> SUFFICES ASSUME NEW k \in DOMAIN stack', NEW n \in DOMAIN onDisk[stack'[k].path].files,
                      n < stack'[k].next
               PROVE  LET g == onDisk[stack'[k].path].files[n]
                      IN  g \in done \/ (k < Len(stack') /\ g = stack'[k + 1].path)
    BY <1>1 DEF Progress
  <2>1. CASE k \in DOMAIN stack
    <3>1. stack'[k] = stack[k] /\ k < Len(stack') /\ k \in 1 .. Len(stack)
      BY <1>6, <2>1
    <3>2. LET g == onDisk[stack[k].path].files[n]
          IN  g \in done \/ (k < Len(stack) /\ g = stack[k + 1].path) \/ (k = Len(stack) /\ g = p)
      BY <1>2, <2>1, <3>1 DEF ResolveInv, Progress
    <3>3. k < Len(stack) => stack'[k + 1] = stack[k + 1]
      BY <1>6, <3>1
    <3>4. k = Len(stack) => stack'[k + 1].path = p
      BY <1>4, <1>6
    <3> QED
      BY <3>1, <3>2, <3>3, <3>4
  <2>2. CASE k = Len(stack) + 1
    <3>1. onDisk[p].files \in Seq(File) /\ DOMAIN onDisk[p].files = 1 .. Len(onDisk[p].files)
      BY <1>2, ContentsAre DEF ResolveInv, ResolveTypeOK
    <3>2. n < 1 /\ n \in 1 .. Len(onDisk[p].files) /\ Len(onDisk[p].files) \in Nat
      BY <1>4, <1>6, <2>2, <3>1
    <3> QED
      BY <3>2
  <2> QED
    BY <1>6, <2>1, <2>2
<1>14. Ordered' /\ LibsOnce'
  BY <1>1 DEF ResolveInv, Ordered, LibsOnce
<1>15. ReadOnce'
  <2>1. Stacked' = Stacked \cup {p}
    BY <1>4, <1>6 DEF Stacked
  <2> QED
    BY <1>1, <1>8, <2>1 DEF ResolveInv, ReadOnce
<1>16. Blamed'
  BY <1>1 DEF ResolveInv, Blamed
<1> QED
  BY <1>9, <1>11, <1>12, <1>13, <1>14, <1>15, <1>16 DEF ResolveInv

(* The loop over the imports advances.                                     *)
LEMMA NextImportKeeps ==
  ASSUME ResolveInv, verdict = "none", pending = {}, NextImport
  PROVE  ResolveInv'
<1>1. PICK N : N = Len(stack)
  OBVIOUS
<1>2. PICK t : t = stack[N]
  OBVIOUS
<1>3. PICK g : g = onDisk[t.path].files[t.next]
  OBVIOUS
<1>4. /\ UNCHANGED <<onDisk, done, sources, stmts, libs, verdict>>
      /\ t.next <= Len(onDisk[t.path].files) /\ pending' = {g}
      /\ stack' = [stack EXCEPT ![N].next = @ + 1]
  BY <1>1, <1>2, <1>3 DEF NextImport, More, Top
<1>5. stack # <<>>
  BY DEF ResolveInv, Chained
<1>6. /\ stack \in Seq(Frame) /\ N \in Nat /\ DOMAIN stack = 1 .. N /\ N \in DOMAIN stack
      /\ t \in Frame /\ t.path \in File /\ t.next \in 1 .. MaxImports + 1
  BY <1>1, <1>2, <1>5, Frames DEF ResolveInv, ResolveTypeOK
<1>7. /\ Len(onDisk[t.path].files) \in 0 .. MaxImports
      /\ DOMAIN onDisk[t.path].files = 1 .. Len(onDisk[t.path].files)
      /\ Lists(onDisk, t.path) \subseteq File
      /\ \A n \in DOMAIN onDisk[t.path].files : onDisk[t.path].files[n] \in Lists(onDisk, t.path)
  <2>1. onDisk \in [File -> Contents]
    BY DEF ResolveInv, ResolveTypeOK
  <2> QED
    BY <1>6, <2>1, ContentsAre
<1>8. t.next \in DOMAIN onDisk[t.path].files /\ t.next + 1 \in 1 .. MaxImports + 1
  BY <1>4, <1>6, <1>7, ResolveAssumption DEF ResolveAssumption
<1>9. g \in Lists(onDisk, t.path) /\ g \in File
  BY <1>3, <1>7, <1>8
<1>10. PICK u : u = [t EXCEPT !.next = @ + 1]
  OBVIOUS
<1>11. u \in Frame /\ u.path = t.path /\ u.next = t.next + 1
  BY <1>6, <1>8, <1>10 DEF Frame
<1>12. /\ stack' = [stack EXCEPT ![N] = u]
  BY <1>2, <1>4, <1>10
<1>13. /\ stack' \in Seq(Frame) /\ Len(stack') = N /\ DOMAIN stack' = DOMAIN stack /\ stack'[N] = u
       /\ \A k \in DOMAIN stack : stack'[k].path = stack[k].path /\ (k # N => stack'[k] = stack[k])
  <2>1. DOMAIN stack' = DOMAIN stack /\ stack'[N] = u /\ \A k \in DOMAIN stack : k # N => stack'[k] = stack[k]
    BY <1>6, <1>12
  <2>2. stack' \in Seq(Frame) /\ Len(stack') = N
    BY <1>1, <1>6, <1>11, <1>12
  <2>3. \A k \in DOMAIN stack : stack'[k].path = stack[k].path
    BY <1>2, <1>11, <2>1
  <2> QED
    BY <2>1, <2>2, <2>3
<1>14. ResolveTypeOK'
  BY <1>4, <1>9, <1>13 DEF ResolveInv, ResolveTypeOK
<1>15. stack' # <<>> /\ 1 \in DOMAIN stack
  BY <1>6, <1>13
<1>16. Chained'
  <2>1. \A k \in DOMAIN stack' : \A m \in DOMAIN stack' : stack'[k].path = stack'[m].path => k = m
    BY <1>13 DEF ResolveInv, Chained
  <2>2. \A k \in DOMAIN stack' : stack'[k].path \notin done' /\ onDisk'[stack'[k].path].state = "valid"
    BY <1>4, <1>13 DEF ResolveInv, Chained
  <2>3. stack'[1].path = Entry
    BY <1>5, <1>13, <1>15 DEF ResolveInv, Chained
  <2> QED
    BY <1>4, <1>15, <2>1, <2>2, <2>3 DEF ResolveInv, Chained
<1>17. \A S : Goes(onDisk, S, t.path) => Goes(onDisk, S, g)
  BY <1>9, GoesOn DEF ResolveInv, ResolveTypeOK
<1>18. Waiting'
  <2>1. \A k \in DOMAIN stack : Goes(onDisk, Lists(onDisk, stack[k].path), g)
    <3> SUFFICES ASSUME NEW k \in DOMAIN stack PROVE Goes(onDisk, Lists(onDisk, stack[k].path), g)
      OBVIOUS
    <3>1. CASE k = N
      <4>1. onDisk \in [File -> Contents] /\ stack[k].path = t.path
        BY <1>2, <3>1 DEF ResolveInv, ResolveTypeOK
      <4> QED
        BY <1>9, <4>1, GoesOn
    <3>2. CASE k # N
      <4>1. k < N
        BY <1>6, <3>2
      <4>2. Goes(onDisk, Lists(onDisk, stack[k].path), t.path)
        BY <1>2, <1>6, <4>1 DEF ResolveInv, Waiting
      <4> QED
        BY <1>17, <4>2
    <3> QED
      BY <3>1, <3>2
  <2>2. Goes(onDisk, {Entry}, g)
    <3>1. Goes(onDisk, {Entry}, t.path)
      BY <1>2, <1>6 DEF ResolveInv, Waiting
    <3> QED
      BY <1>17, <3>1
  <2>3. \A k \in DOMAIN stack' : \A m \in DOMAIN stack' :
          k < m => Goes(onDisk, Lists(onDisk, stack'[k].path), stack'[m].path)
    BY <1>13 DEF ResolveInv, Waiting
  <2>4. \A k \in DOMAIN stack' : Goes(onDisk, Lists(onDisk, stack'[k].path), g)
                                  /\ Goes(onDisk, {Entry}, stack'[k].path)
    BY <1>13, <2>1 DEF ResolveInv, Waiting
  <2> QED
    BY <1>4, <2>2, <2>3, <2>4 DEF ResolveInv, Waiting
<1>19. Progress'
  <2> SUFFICES ASSUME NEW k \in DOMAIN stack, NEW n \in DOMAIN onDisk[stack[k].path].files,
                      n < stack'[k].next
               PROVE  LET h == onDisk[stack[k].path].files[n]
                      IN  \/ h \in done
                          \/ k < N /\ h = stack'[k + 1].path
                          \/ k = N /\ h = g
    BY <1>4, <1>13 DEF Progress
  <2>1. n < stack[k].next =>
          LET h == onDisk[stack[k].path].files[n]
          IN  h \in done \/ (k < N /\ h = stack[k + 1].path)
    BY <1>1 DEF ResolveInv, Progress
  <2>2. k < N => k + 1 \in DOMAIN stack
    BY <1>6
  <2>3. k < N => stack'[k + 1].path = stack[k + 1].path
    BY <1>13, <2>2
  <2>4. CASE n < stack[k].next
    BY <2>1, <2>3, <2>4
  <2>5. CASE ~(n < stack[k].next)
    <3>1. k = N
      BY <1>13, <2>5
    <3>2. n \in 1 .. Len(onDisk[t.path].files) /\ n < t.next + 1 /\ ~(n < t.next)
      BY <1>2, <1>7, <1>11, <1>13, <2>5, <3>1
    <3>3. n = t.next
      BY <1>6, <1>7, <3>2
    <3> QED
      BY <1>2, <1>3, <3>1, <3>3
  <2> QED
    BY <2>4, <2>5
<1>20. Ordered' /\ LibsOnce'
  BY <1>4 DEF ResolveInv, Ordered, LibsOnce
<1>21. ReadOnce'
  <2>1. Stacked' = Stacked
    BY <1>13 DEF Stacked
  <2> QED
    BY <1>4, <2>1 DEF ResolveInv, ReadOnce
<1>22. Blamed'
  BY <1>4 DEF ResolveInv, Blamed
<1> QED
  BY <1>14, <1>16, <1>18, <1>19, <1>20, <1>21, <1>22 DEF ResolveInv

(* The stack without its last frame.                                       *)
LEMMA OneLess ==
  ASSUME NEW L, NEW s \in Seq(L), s # <<>>
  PROVE  /\ Front(s) \in Seq(L) /\ Len(s) \in Nat \ {0} /\ Len(Front(s)) = Len(s) - 1
         /\ DOMAIN s = 1 .. Len(s) /\ DOMAIN Front(s) = 1 .. Len(s) - 1
         /\ \A k \in DOMAIN Front(s) : Front(s)[k] = s[k]
<1>1. Len(s) \in Nat \ {0} /\ DOMAIN s = 1 .. Len(s)
  OBVIOUS
<1>2. Front(s) = SubSeq(s, 1, Len(s) - 1)
  BY DEF Front
<1>3. Len(s) - 1 \in Nat /\ 1 \in 1 .. Len(s) + 1 /\ Len(s) - 1 \in 1 - 1 .. Len(s)
  BY <1>1
<1>4. Front(s) \in Seq(L) /\ Len(Front(s)) = Len(s) - 1
  BY <1>1, <1>2, <1>3, SubSeqProperties
<1>5. \A k \in 1 .. Len(s) - 1 : Front(s)[k] = s[k]
  BY <1>1, <1>2, <1>3, SubSeqProperties
<1>6. DOMAIN Front(s) = 1 .. Len(s) - 1
  BY <1>3, <1>4
<1> QED
  BY <1>1, <1>4, <1>5, <1>6

(* Every import is in the program: the file follows.                       *)
LEMMA SpliceKeeps ==
  ASSUME ResolveInv, verdict = "none", pending = {}, Splice
  PROVE  ResolveInv'
<1>1. PICK N : N = Len(stack)
  OBVIOUS
<1>2. PICK t : t = stack[N]
  OBVIOUS
<1>3. /\ UNCHANGED <<onDisk, pending, sources>>
      /\ ~(t.next <= Len(onDisk[t.path].files))
      /\ stmts' = Append(stmts, t.path) /\ libs' = DedupPush(libs, onDisk[t.path].libs)
      /\ done' = done \cup {t.path} /\ stack' = Front(stack)
      /\ verdict' = IF N = 1 THEN "ok" ELSE "none"
  BY <1>1, <1>2 DEF Splice, More, Top
<1>4. stack # <<>>
  BY DEF ResolveInv, Chained
<1>5. /\ stack \in Seq(Frame) /\ N \in Nat \ {0} /\ DOMAIN stack = 1 .. N /\ N \in DOMAIN stack
      /\ 1 \in DOMAIN stack
      /\ t \in Frame /\ t.path \in File /\ t.next \in 1 .. MaxImports + 1
  <2>1. N \in Nat /\ N \in DOMAIN stack /\ DOMAIN stack = 1 .. N
    BY <1>1, <1>4, Frames DEF ResolveInv
  <2>2. t \in Frame /\ t.path \in File /\ t.next \in 1 .. MaxImports + 1
    BY <1>2, <2>1, Frames DEF ResolveInv
  <2> QED
    BY <2>1, <2>2 DEF ResolveInv, ResolveTypeOK
<1>6. /\ stack' \in Seq(Frame) /\ Len(stack') = N - 1 /\ DOMAIN stack' = 1 .. N - 1
      /\ \A k \in 1 .. N - 1 : stack'[k] = stack[k]
  BY <1>1, <1>3, <1>4, <1>5, OneLess
<1>7. onDisk \in [File -> Contents]
  BY DEF ResolveInv, ResolveTypeOK
<1>8. /\ onDisk[t.path].libs \in Seq(Library)
      /\ Len(onDisk[t.path].files) \in 0 .. MaxImports
      /\ DOMAIN onDisk[t.path].files = 1 .. Len(onDisk[t.path].files)
  BY <1>5, <1>7, ContentsAre
<1>9. Lists(onDisk, t.path) \subseteq done
  <2> SUFFICES ASSUME NEW n \in DOMAIN onDisk[t.path].files
               PROVE  onDisk[t.path].files[n] \in done
    BY DEF Lists, ToSet
  <2>1. n < t.next /\ ~(N < N)
    BY <1>3, <1>5, <1>8
  <2> QED
    BY <1>1, <1>2, <1>5, <2>1 DEF ResolveInv, Progress
<1>10. t.path \notin done /\ onDisk[t.path].state = "valid"
  BY <1>2, <1>5 DEF ResolveInv, Chained
<1>11. stmts \in Seq(File) /\ done = ToSet(stmts) /\ IsInjective(stmts)
  BY DEF ResolveInv, ResolveTypeOK, Ordered
<1>12. /\ stmts' \in Seq(File) /\ Len(stmts) \in Nat /\ DOMAIN stmts = 1 .. Len(stmts)
       /\ \A k : k \in DOMAIN stmts' <=> k \in DOMAIN stmts \/ k = Len(stmts) + 1
       /\ \A k \in DOMAIN stmts : stmts'[k] = stmts[k]
       /\ stmts'[Len(stmts) + 1] = t.path
  BY <1>3, <1>5, <1>11, OneMore
<1>13. ToSet(stmts') = ToSet(stmts) \cup {t.path} /\ IsInjective(stmts')
  <2>1. t.path \notin ToSet(stmts)
    BY <1>10, <1>11
  <2>2. IsInjective(stmts')
    BY <1>3, <1>5, <1>11, <2>1, OneMoreOnce
  <2>3. ToSet(stmts') = ToSet(stmts) \cup {t.path}
    BY <1>3, <1>5, <1>11, OneMoreThere
  <2> QED
    BY <2>2, <2>3
<1>14. PICK lb : lb = onDisk[t.path].libs
  OBVIOUS
<1>15. libs \in Seq(Library) /\ IsInjective(libs) /\ lb \in Seq(Library)
  BY <1>8, <1>14 DEF ResolveInv, ResolveTypeOK, LibsOnce
<1>16. PICK q : q = DedupPush(libs, lb)
  OBVIOUS
<1>17. /\ q \in Seq(Library) /\ IsInjective(q)
       /\ ToSet(q) = ToSet(libs) \cup {lb[k] : k \in 1 .. Len(lb)}
  <2>1. PushedFirst(libs, lb, Len(lb), q, Library)
    BY <1>15, <1>16, DedupPushed
  <2> QED
    BY <2>1 DEF PushedFirst
<1>18. libs' = q
  BY <1>3, <1>14, <1>16
<1>19. ResolveTypeOK'
  <2>1. done' \subseteq File /\ verdict' \in {"none", "ok", "io", "compile", "cycle"}
    BY <1>3, <1>5 DEF ResolveInv, ResolveTypeOK
  <2> QED
    BY <1>3, <1>6, <1>12, <1>17, <1>18, <2>1 DEF ResolveInv, ResolveTypeOK
<1>20. \A k \in 1 .. N - 1 : stack[k].path # t.path
  <2>1. \A k \in 1 .. N - 1 : k \in DOMAIN stack /\ k # N
    BY <1>5
  <2> QED
    BY <1>2, <1>5, <2>1 DEF ResolveInv, Chained
<1>21. \A k \in 1 .. N - 1 : k \in DOMAIN stack
  BY <1>5
<1>22. Chained'
  <2>1. \A k \in DOMAIN stack' : \A m \in DOMAIN stack' : stack'[k].path = stack'[m].path => k = m
    BY <1>6, <1>21 DEF ResolveInv, Chained
  <2>2. \A k \in DOMAIN stack' : stack'[k].path \notin done' /\ onDisk'[stack'[k].path].state = "valid"
    BY <1>3, <1>6, <1>20, <1>21 DEF ResolveInv, Chained
  <2>3. stack' # <<>> => stack'[1].path = Entry
    <3>1. SUFFICES ASSUME stack' # <<>> PROVE stack'[1].path = Entry
      OBVIOUS
    <3>2. 1 \in 1 .. N - 1
      BY <1>5, <1>6, <3>1
    <3> QED
      BY <1>4, <1>6, <3>2 DEF ResolveInv, Chained
  <2>4. \A f \in done' : onDisk'[f].state = "valid"
    BY <1>3, <1>10 DEF ResolveInv, Chained
  <2>5. verdict' = "ok" => Entry \in done'
    BY <1>2, <1>3, <1>4 DEF ResolveInv, Chained
  <2>6. verdict' = "none" => stack' # <<>>
    <3>1. verdict' = "none" => N - 1 # 0
      BY <1>3, <1>5
    <3> QED
      BY <1>6, <3>1
  <2>7. \A p \in pending' : \A r \in pending' : p = r
    BY <1>3
  <2> QED
    BY <2>1, <2>2, <2>3, <2>4, <2>5, <2>6, <2>7 DEF Chained
<1>23. Goes(onDisk, {Entry}, t.path)
  BY <1>2, <1>5 DEF ResolveInv, Waiting
<1>24. Waiting'
  <2>1. \A k \in DOMAIN stack' : \A m \in DOMAIN stack' :
          k < m => Goes(onDisk, Lists(onDisk, stack'[k].path), stack'[m].path)
    BY <1>6, <1>21 DEF ResolveInv, Waiting
  <2>2. \A k \in DOMAIN stack' : Goes(onDisk, {Entry}, stack'[k].path)
    BY <1>6, <1>21 DEF ResolveInv, Waiting
  <2>3. \A p \in pending' \cup done' : Goes(onDisk, {Entry}, p)
    BY <1>3, <1>23 DEF ResolveInv, Waiting
  <2> QED
    BY <1>3, <2>1, <2>2, <2>3 DEF Waiting
<1>25. Progress'
  <2> SUFFICES ASSUME NEW k \in DOMAIN stack', NEW n \in DOMAIN onDisk'[stack'[k].path].files,
                      n < stack'[k].next
               PROVE  LET h == onDisk'[stack'[k].path].files[n]
                      IN  h \in done' \/ (k < Len(stack') /\ h = stack'[k + 1].path)
    BY DEF Progress
  <2>0. k \in 1 .. N - 1 /\ stack'[k] = stack[k] /\ onDisk' = onDisk
    BY <1>3, <1>6
  <2>1. k \in DOMAIN stack /\ k # N
    BY <1>5, <2>0
  <2>2. LET h == onDisk[stack[k].path].files[n]
        IN  h \in done \/ (k < N /\ h = stack[k + 1].path)
    BY <1>1, <2>1, <2>0 DEF ResolveInv, Progress
  <2>3. CASE k = N - 1
    <3>1. k + 1 = N
      BY <1>5, <2>3
    <3> QED
      BY <1>2, <1>3, <2>2, <2>0, <3>1
  <2>4. CASE k # N - 1
    <3>1. k + 1 \in 1 .. N - 1 /\ k < N - 1
      BY <1>5, <2>4, <2>0
    <3> QED
      <4>1. done \subseteq done'
        BY <1>3
      <4> QED
        BY <1>6, <2>0, <2>2, <3>1, <4>1
  <2> QED
    BY <2>3, <2>4
<1>26. Ordered'
  <2>1. \A k \in DOMAIN stmts' :
          Lists(onDisk, stmts'[k]) \subseteq {stmts'[j] : j \in 1 .. k - 1}
    <3> SUFFICES ASSUME NEW k \in DOMAIN stmts', NEW x \in Lists(onDisk, stmts'[k])
                 PROVE  \E j \in 1 .. k - 1 : x = stmts'[j]
      OBVIOUS
    <3>1. CASE k \in DOMAIN stmts
      <4>1. PICK j \in 1 .. k - 1 : x = stmts[j]
        BY <1>12, <3>1 DEF ResolveInv, Ordered
      <4>2. j \in DOMAIN stmts
        BY <1>12, <3>1
      <4> QED
        BY <1>12, <4>1, <4>2
    <3>2. CASE k = Len(stmts) + 1
      <4>1. x \in ToSet(stmts)
        BY <1>9, <1>11, <1>12, <3>2
      <4>2. PICK j \in DOMAIN stmts : x = stmts[j]
        BY <4>1 DEF ToSet
      <4>3. j \in 1 .. k - 1
        BY <1>12, <3>2
      <4> QED
        BY <1>12, <4>2, <4>3
    <3> QED
      BY <1>12, <3>1, <3>2
  <2> QED
    BY <1>3, <1>11, <1>13, <2>1 DEF Ordered
<1>27. LibsOnce'
  <2>1. DOMAIN lb = 1 .. Len(lb)
    BY <1>15
  <2>2. ToSet(q) = ToSet(libs) \cup ToSet(lb)
    BY <1>17, <2>1 DEF ToSet
  <2>3. ToSet(libs) = UNION {ToSet(onDisk[f].libs) : f \in done}
    BY DEF ResolveInv, LibsOnce
  <2>4. ToSet(q) = UNION {ToSet(onDisk[f].libs) : f \in done \cup {t.path}}
    BY <1>14, <2>2, <2>3
  <2> QED
    BY <1>3, <1>17, <1>18, <2>4 DEF LibsOnce
<1>28. ReadOnce'
  <2>1. done' \cup Stacked' = done \cup Stacked
    <3>1. Stacked = Stacked' \cup {t.path}
      <4>1. \A k : k \in DOMAIN stack <=> k \in DOMAIN stack' \/ k = N
        BY <1>5, <1>6
      <4> QED
        BY <1>2, <1>6, <4>1 DEF Stacked
    <3> QED
      BY <1>3, <3>1
  <2> QED
    BY <1>3, <2>1 DEF ResolveInv, ReadOnce
<1>29. Blamed'
  BY <1>3 DEF Blamed
<1> QED
  BY <1>19, <1>22, <1>24, <1>25, <1>26, <1>27, <1>28, <1>29 DEF ResolveInv

(* The inductive invariant holds at every step.                            *)
THEOREM ResolveInvariance == ResolveSpec => []ResolveInv
<1>1. ResolveInv /\ [ResolveNext]_resolveVars => ResolveInv'
  <2> SUFFICES ASSUME ResolveInv, [ResolveNext]_resolveVars PROVE ResolveInv'
    OBVIOUS
  <2>1. CASE ResolveNext
    <3>1. verdict = "none"
      BY <2>1 DEF ResolveNext
    <3>2. CASE \E p \in pending : AlreadyDone(p)
      BY <3>1, <3>2, SkipKeeps
    <3>3. CASE \E p \in pending : Cycle(p) \/ CannotRead(p) \/ CannotParse(p)
      BY <3>1, <3>3, FailKeeps
    <3>4. CASE \E p \in pending : Open(p)
      BY <3>1, <3>4, OpenKeeps
    <3>5. CASE pending = {} /\ NextImport
      BY <3>1, <3>5, NextImportKeeps
    <3>6. CASE pending = {} /\ Splice
      BY <3>1, <3>6, SpliceKeeps
    <3> QED
      BY <2>1, <3>2, <3>3, <3>4, <3>5, <3>6 DEF ResolveNext
  <2>2. CASE UNCHANGED resolveVars
    <3>1. ResolveTypeOK'
      BY <2>2 DEF resolveVars, ResolveInv, ResolveTypeOK
    <3>2. Chained'
      BY <2>2 DEF resolveVars, ResolveInv, Chained
    <3>3. Waiting'
      BY <2>2 DEF resolveVars, ResolveInv, Waiting
    <3>4. Progress'
      BY <2>2 DEF resolveVars, ResolveInv, Progress
    <3>5. Ordered' /\ LibsOnce'
      BY <2>2 DEF resolveVars, ResolveInv, Ordered, LibsOnce
    <3>6. ReadOnce'
      BY <2>2 DEF resolveVars, ResolveInv, ReadOnce, Stacked
    <3>7. Blamed'
      BY <2>2 DEF resolveVars, ResolveInv, Blamed
    <3> QED
      BY <3>1, <3>2, <3>3, <3>4, <3>5, <3>6, <3>7 DEF ResolveInv
  <2> QED
    BY <2>1, <2>2
<1> QED
  BY ResolveStarts, <1>1, PTL DEF ResolveSpec

(* In the program every file stands once and behind what it imports, and   *)
(* every file is read once (ImportsFirst of VerbResolve).                  *)
THEOREM ImportsStandFirst == ResolveSpec => []ImportsFirst
<1>1. ResolveInv => ImportsFirst
  BY DEF ResolveInv, Ordered, ReadOnce, ImportsFirst, Lists
<1> QED
  BY <1>1, ResolveInvariance, PTL

(* What is reached is in every set that holds the start and is closed.     *)
LEMMA GoesWithin ==
  ASSUME NEW d, NEW S, NEW x, Goes(d, S, x), NEW P \in SUBSET File, S \subseteq P,
         \A f \in P : Lists(d, f) \subseteq P
  PROVE  x \in P
BY DEF Goes

(* A file of the program does not import itself, directly or not: the part *)
(* of the program before it is closed and holds its imports.               *)
LEMMA NoneImportsItself ==
  ASSUME ResolveInv, NEW f \in done
  PROVE  ~Goes(onDisk, Lists(onDisk, f), f)
<1>1. /\ stmts \in Seq(File) /\ done = ToSet(stmts) /\ IsInjective(stmts)
      /\ \A k \in DOMAIN stmts : Lists(onDisk, stmts[k]) \subseteq {stmts[j] : j \in 1 .. k - 1}
  BY DEF ResolveInv, ResolveTypeOK, Ordered
<1>2. PICK n \in DOMAIN stmts : f = stmts[n]
  BY <1>1 DEF ToSet
<1>3. DOMAIN stmts = 1 .. Len(stmts) /\ Len(stmts) \in Nat
  BY <1>1
<1>4. PICK P : P = {stmts[j] : j \in 1 .. n - 1}
  OBVIOUS
<1>5. P \in SUBSET File
  <2>1. \A j \in 1 .. n - 1 : j \in DOMAIN stmts
    BY <1>3
  <2>2. \A j \in DOMAIN stmts : stmts[j] \in File
    BY <1>1, <1>3, ElementOfSeq
  <2> QED
    BY <1>4, <2>1, <2>2
<1>6. \A g \in P : Lists(onDisk, g) \subseteq P
  <2> SUFFICES ASSUME NEW k \in 1 .. n - 1, NEW x \in Lists(onDisk, stmts[k]) PROVE x \in P
    BY <1>4
  <2>1. k \in DOMAIN stmts
    BY <1>3
  <2>2. PICK j \in 1 .. k - 1 : x = stmts[j]
    BY <1>1, <2>1
  <2>3. j \in 1 .. n - 1
    BY <1>3
  <2> QED
    BY <1>4, <2>2, <2>3
<1>7. Lists(onDisk, f) \subseteq P
  BY <1>1, <1>2, <1>4
<1>8. f \notin P
  <2>1. \A j \in 1 .. n - 1 : j \in DOMAIN stmts /\ j # n
    BY <1>3
  <2> QED
    BY <1>1, <1>2, <1>4, <2>1 DEF IsInjective
<1> QED
  BY <1>5, <1>6, <1>7, <1>8, GoesWithin

(* The files of a program that holds the entry are those it reaches.       *)
LEMMA AllReached ==
  ASSUME ResolveInv, Entry \in done
  PROVE  \A x : Goes(onDisk, {Entry}, x) <=> x \in done
<1>1. done \in SUBSET File
  BY DEF ResolveInv, ResolveTypeOK
<1>2. \A f \in done : Lists(onDisk, f) \subseteq done
  <2> SUFFICES ASSUME NEW f \in done, NEW x \in Lists(onDisk, f) PROVE x \in done
    OBVIOUS
  <2>1. stmts \in Seq(File) /\ done = ToSet(stmts)
    BY DEF ResolveInv, ResolveTypeOK, Ordered
  <2>2. DOMAIN stmts = 1 .. Len(stmts) /\ Len(stmts) \in Nat
    BY <2>1
  <2>3. PICK k \in DOMAIN stmts : f = stmts[k]
    BY <2>1 DEF ToSet
  <2>4. PICK j \in 1 .. k - 1 : x = stmts[j]
    BY <2>3 DEF ResolveInv, Ordered
  <2>5. j \in DOMAIN stmts
    BY <2>2
  <2> QED
    BY <2>1, <2>4, <2>5 DEF ToSet
<1>3. \A x : Goes(onDisk, {Entry}, x) => x \in done
  BY <1>1, <1>2, GoesWithin
<1>4. \A x \in done : Goes(onDisk, {Entry}, x)
  BY DEF ResolveInv, Waiting
<1> QED
  BY <1>3, <1>4

(* resolve accepts exactly the programs it should, with exactly the files  *)
(* and libraries they reach, and what it blames is to be blamed (Verdict   *)
(* of VerbResolve).                                                        *)
THEOREM VerdictRight == ResolveSpec => []Verdict
<1>1. ASSUME ResolveInv PROVE Verdict
  <2>1. \A f : f \in Reachable <=> Goes(onDisk, {Entry}, f)
    BY ClosureIs DEF Reachable
  <2>2. \A f : ImportsItself(f) <=> Goes(onDisk, Lists(onDisk, f), f)
    BY ClosureIs DEF ImportsItself, Lists
  <2>3. ASSUME verdict = "ok"
        PROVE  /\ \A f \in Reachable : onDisk[f].state = "valid" /\ ~ImportsItself(f)
               /\ ToSet(stmts) = Reachable
               /\ ToSet(libs) = UNION {ToSet(onDisk[f].libs) : f \in Reachable}
               /\ IsInjective(libs)
    <3>1. Entry \in done
      BY <1>1, <2>3 DEF ResolveInv, Chained
    <3>2. Reachable = done
      BY <1>1, <2>1, <3>1, AllReached
    <3>3. \A f \in done : onDisk[f].state = "valid" /\ ~ImportsItself(f)
      BY <1>1, <2>2, NoneImportsItself DEF ResolveInv, Chained
    <3>4. done = ToSet(stmts) /\ IsInjective(libs) /\ ToSet(libs) = UNION {ToSet(onDisk[f].libs) : f \in done}
      BY <1>1 DEF ResolveInv, Ordered, LibsOnce
    <3> QED
      BY <3>2, <3>3, <3>4
  <2>4. /\ verdict = "cycle" => \E f \in Reachable : ImportsItself(f)
        /\ verdict = "io" => \E f \in Reachable : onDisk[f] = Unreadable
        /\ verdict = "compile" => \E f \in Reachable : onDisk[f] = Malformed
    BY <1>1, <2>1, <2>2 DEF ResolveInv, Blamed
  <2>5. ASSUME verdict # "none", verdict # "ok"
        PROVE  \E f \in Reachable : onDisk[f].state # "valid" \/ ImportsItself(f)
    <3>1. verdict \in {"io", "compile", "cycle"}
      BY <1>1, <2>5 DEF ResolveInv, ResolveTypeOK
    <3>2. Unreadable.state # "valid" /\ Malformed.state # "valid"
      BY DEF Unreadable, Malformed
    <3> QED
      BY <2>4, <3>1, <3>2
  <2> QED
    BY <2>3, <2>4, <2>5 DEF Verdict
<1> QED
  BY <1>1, ResolveInvariance, PTL

(***************************************************************************)
(* The inductive invariant of the builder.                                 *)
(***************************************************************************)
AnyTarget == ToSet(AllTargets) \cup {Host}

Result == [target : AnyTarget, ok : BOOLEAN]

BuildTypeOK ==
  /\ command \in {"host", "cross", "all"}
  /\ todo \in Seq(AnyTarget)
  /\ stage \in 1 .. 7
  /\ temps = [f \in DOMAIN temps |-> temps[f]]
  /\ results \in Seq(Result)
  /\ exit \in {"no", "0", "1"}

\* The stage a unit is compiled in.
Place(u) ==
  CASE u = "io" -> 2
    [] u = "net" -> 3
    [] u = "map" -> 4
    [] u = "thread" -> 5
    [] u = "time" -> 6

\* The objects the target being built has by now.
Made ==
  {f \in {Program(Target)} : stage > 1}
    \cup {<<"unit", u>> : u \in {v \in Unit : Wanted(v) /\ Place(v) < stage}}

Failed(t) == \E r \in ToSet(results) : ~r.ok /\ r.target = t

\* They are its own; whatever else is left was made for a target that failed.
Objects ==
  /\ todo # <<>> => \A f \in Made : f \in DOMAIN temps /\ temps[f] = Target
  /\ \A f \in DOMAIN temps :
       Failed(temps[f]) \/ (todo # <<>> /\ f \in Made /\ temps[f] = Target)

\* Each target is built once.
Turns ==
  /\ IsInjective(todo)
  /\ \A r \in ToSet(results) : r.target \notin ToSet(todo)
  /\ \A r \in ToSet(results) : \A q \in ToSet(results) : r.target = q.target => r = q
  /\ command = "all" => {r.target : r \in ToSet(results)} \cup ToSet(todo) = ToSet(AllTargets)
  /\ command = "host" => ToSet(todo) \subseteq {Host}
  /\ command = "host" /\ todo # <<>> => ToSet(results) = {}

\* The links, the results and the exit status agree.
Outcome ==
  /\ exit # "no" => todo = <<>>
  /\ exit = "0" => \A r \in ToSet(results) : r.ok
  /\ exit = "1" => \E r \in ToSet(results) : ~r.ok
  /\ \A l \in linked : \E r \in ToSet(results) : r.ok /\ r.target = l.target
  /\ \A r \in ToSet(results) : r.ok => \E l \in linked : l.target = r.target
  /\ exit # "no" /\ command = "host" => DOMAIN temps \subseteq {<<"unit", "net">>}

BuildInv == BuildTypeOK /\ Objects /\ Turns /\ Outcome /\ LinkFresh

(* The stages and the units.                                               *)
LEMMA Stagings ==
  /\ \A u \in Unit : Place(u) \in 2 .. 6
  /\ Place("io") = 2 /\ Place("net") = 3 /\ Place("map") = 4 /\ Place("thread") = 5 /\ Place("time") = 6
  /\ \A u \in Unit : \A v \in Unit : Place(u) = Place(v) => u = v
  /\ Stages[1] = "emit" /\ Stages[7] = "link"
  /\ \A u \in Unit : Stages[Place(u)] = u
  /\ \A n \in 1 .. 7 : n # 1 /\ n # 7 => \E u \in Unit : n = Place(u)
<1>1. Place("io") = 2 /\ Place("net") = 3 /\ Place("map") = 4 /\ Place("thread") = 5 /\ Place("time") = 6
  BY DEF Place
<1>2. Unit = {"io", "net", "map", "thread", "time"}
  BY DEF Unit
<1>3. /\ Stages[1] = "emit" /\ Stages[2] = "io" /\ Stages[3] = "net" /\ Stages[4] = "map"
      /\ Stages[5] = "thread" /\ Stages[6] = "time" /\ Stages[7] = "link"
  BY DEF Stages
<1>4. \A u \in Unit : Place(u) \in 2 .. 6
  BY <1>1, <1>2
<1>5. \A u \in Unit : Stages[Place(u)] = u
  BY <1>1, <1>2, <1>3
<1>6. \A n \in 1 .. 7 : n # 1 /\ n # 7 => \E u \in Unit : n = Place(u)
  <2> SUFFICES ASSUME NEW n \in 1 .. 7, n # 1, n # 7 PROVE \E u \in Unit : n = Place(u)
    OBVIOUS
  <2>1. n = 2 \/ n = 3 \/ n = 4 \/ n = 5 \/ n = 6
    OBVIOUS
  <2> QED
    BY <1>1, <1>2, <2>1
<1> QED
  BY <1>1, <1>3, <1>4, <1>5, <1>6

(* What is being built tells the stage.                                    *)
LEMMA StageIs ==
  ASSUME BuildTypeOK
  PROVE  /\ Building("emit") => stage = 1
         /\ \A u \in Unit : Building(u) => stage = Place(u)
         /\ Building("link") => stage = 7
<1>1. stage \in 1 .. 7
  BY DEF BuildTypeOK
<1>2. stage = 1 \/ stage = 7 \/ \E u \in Unit : stage = Place(u)
  BY <1>1, Stagings
<1>3. "emit" \notin Unit /\ "link" \notin Unit
  BY DEF Unit
<1> QED
  BY <1>2, <1>3, Stagings DEF Building

(* The first of the targets to build, and the others.                      *)
LEMMA TodoIs ==
  ASSUME BuildTypeOK, IsInjective(todo), todo # <<>>
  PROVE  /\ Target \in AnyTarget /\ Target \in ToSet(todo) /\ Len(todo) \in Nat \ {0}
         /\ Tail(todo) \in Seq(AnyTarget) /\ IsInjective(Tail(todo))
         /\ ToSet(todo) = {Target} \cup ToSet(Tail(todo)) /\ Target \notin ToSet(Tail(todo))
         /\ Len(todo) = 1 <=> Tail(todo) = <<>>
<1>1. todo \in Seq(AnyTarget)
  BY DEF BuildTypeOK
<1>2. PICK n : n = Len(todo)
  OBVIOUS
<1>3. PICK s : s = Tail(todo)
  OBVIOUS
<1>4. n \in Nat \ {0} /\ DOMAIN todo = 1 .. n /\ 1 \in 1 .. n
  BY <1>1, <1>2
<1>5. Target = todo[1] /\ Target \in AnyTarget
  BY <1>1, <1>2, <1>4, ElementOfSeq DEF Target
<1>6. s \in Seq(AnyTarget) /\ Len(s) = n - 1 /\ \A k \in 1 .. n - 1 : s[k] = todo[k + 1]
  BY <1>1, <1>2, <1>3
<1>7. DOMAIN s = 1 .. n - 1
  BY <1>4, <1>6
<1>8. \A k : k \in 1 .. n <=> k = 1 \/ \E m \in 1 .. n - 1 : k = m + 1
  <2> SUFFICES ASSUME NEW k \in 1 .. n, k # 1 PROVE k - 1 \in 1 .. n - 1 /\ k = (k - 1) + 1
    BY <1>4
  <2> QED
    BY <1>4
<1>9. ToSet(todo) = {Target} \cup ToSet(s)
  <2>1. \A x : x \in ToSet(todo) <=> \E k \in 1 .. n : x = todo[k]
    BY <1>4 DEF ToSet
  <2>2. \A x : x \in ToSet(s) <=> \E k \in 1 .. n - 1 : x = s[k]
    BY <1>7 DEF ToSet
  <2>3. \A x : x \in ToSet(s) <=> \E k \in 1 .. n - 1 : x = todo[k + 1]
    BY <1>6, <2>2
  <2> QED
    BY <1>5, <1>8, <2>1, <2>3
<1>10. \A k \in 1 .. n - 1 : k + 1 \in 1 .. n /\ k + 1 # 1
  BY <1>4
<1>11. Target \notin ToSet(s)
  <2> SUFFICES ASSUME NEW k \in 1 .. n - 1, s[k] = Target PROVE FALSE
    BY <1>7 DEF ToSet
  <2>1. todo[k + 1] = todo[1]
    BY <1>5, <1>6
  <2> QED
    BY <1>4, <1>10, <2>1 DEF IsInjective
<1>12. IsInjective(s)
  <2> SUFFICES ASSUME NEW k \in 1 .. n - 1, NEW m \in 1 .. n - 1, s[k] = s[m] PROVE k = m
    BY <1>7 DEF IsInjective
  <2>1. k + 1 = m + 1
    BY <1>4, <1>6, <1>10 DEF IsInjective
  <2> QED
    BY <2>1
<1>13. n = 1 <=> s = <<>>
  BY <1>4, <1>6
<1> QED
  BY <1>2, <1>3, <1>4, <1>5, <1>6, <1>9, <1>11, <1>12, <1>13

(* The targets of the command, and nothing made.                           *)
LEMMA BuildStarts == BuildInit => BuildInv
<1> SUFFICES ASSUME BuildInit PROVE BuildInv
  OBVIOUS
<1>1. /\ command \in {"host", "cross", "all"} /\ stage = 1 /\ temps = [f \in {} |-> Host]
      /\ linked = {} /\ results = <<>> /\ exit = "no"
  BY DEF BuildInit
<1>2. DOMAIN temps = {} /\ ToSet(results) = {}
  BY <1>1 DEF ToSet
<1>3. \/ command = "host" /\ todo = <<Host>>
      \/ command = "all" /\ todo = AllTargets
      \/ command = "cross" /\ \E t \in ToSet(AllTargets) : todo = <<t>>
  BY DEF BuildInit
<1>4. todo \in Seq(AnyTarget) /\ IsInjective(todo)
  <2>1. AllTargets \in Seq(AnyTarget) /\ IsInjective(AllTargets)
    <3>1. AllTargets \in Seq(ToSet(AllTargets)) /\ IsInjective(AllTargets)
      BY BuildAssumption DEF BuildAssumption
    <3>2. PICK n \in Nat : n = Len(AllTargets) /\ AllTargets \in [1 .. n -> ToSet(AllTargets)]
      BY <3>1
    <3>3. AllTargets \in [1 .. n -> AnyTarget]
      BY <3>2 DEF AnyTarget
    <3> QED
      BY <3>1, <3>3
  <2>2. \A t \in AnyTarget : <<t>> \in Seq(AnyTarget) /\ IsInjective(<<t>>)
    BY DEF IsInjective
  <2> QED
    BY <1>3, <2>1, <2>2 DEF AnyTarget
<1>5. command = "host" => ToSet(todo) \subseteq {Host}
  BY <1>3 DEF ToSet
<1>6. command = "all" => todo = AllTargets
  BY <1>3
<1>7. BuildTypeOK
  BY <1>1, <1>4 DEF BuildTypeOK
<1>8. Objects
  BY <1>1, <1>2, Stagings DEF Objects, Made
<1>9. Turns
  BY <1>2, <1>4, <1>5, <1>6 DEF Turns
<1>10. Outcome /\ LinkFresh
  BY <1>1, <1>2 DEF Outcome, LinkFresh
<1> QED
  BY <1>7, <1>8, <1>9, <1>10 DEF BuildInv

(* One stage further: the objects of the target are those of the stages    *)
(* behind it.                                                              *)
LEMMA GoOnKeeps ==
  ASSUME BuildInv, exit = "no", todo # <<>>, GoOn, stage # 7,
         NEW N, Made' = Made \cup N,
         DOMAIN temps' = DOMAIN temps \cup N,
         temps' = [f \in DOMAIN temps \cup N |-> IF f \in N THEN Target ELSE temps[f]]
  PROVE  BuildInv'
<1>1. /\ UNCHANGED <<command, std, todo, linked, results, exit>> /\ stage' = stage + 1
      /\ UNCHANGED Target
  BY DEF GoOn, Target
<1>2. BuildTypeOK'
  <2>1. stage' \in 1 .. 7
    BY <1>1 DEF BuildInv, BuildTypeOK
  <2>2. temps' = [f \in DOMAIN temps' |-> temps'[f]]
    OBVIOUS
  <2> QED
    BY <1>1, <2>1, <2>2 DEF BuildInv, BuildTypeOK
<1>3. Objects'
  <2>1. \A f \in Made' : f \in DOMAIN temps' /\ temps'[f] = Target'
    <3> SUFFICES ASSUME NEW f \in Made \cup N PROVE f \in DOMAIN temps' /\ temps'[f] = Target
      BY <1>1
    <3>1. f \in Made => f \in DOMAIN temps /\ temps[f] = Target
      BY DEF BuildInv, Objects
    <3> QED
      BY <3>1
  <2>2. \A f \in DOMAIN temps' : Failed(temps'[f]) \/ (f \in Made' /\ temps'[f] = Target')
    <3> SUFFICES ASSUME NEW f \in DOMAIN temps \cup N
                 PROVE  Failed(temps'[f]) \/ (f \in Made \cup N /\ temps'[f] = Target)
      BY <1>1
    <3>1. f \in DOMAIN temps => Failed(temps[f]) \/ (f \in Made /\ temps[f] = Target)
      BY DEF BuildInv, Objects
    <3> QED
      BY <3>1
  <2>3. \A t : Failed(t) <=> Failed(t)'
    BY <1>1 DEF Failed
  <2> QED
    BY <1>1, <2>1, <2>2, <2>3 DEF Objects, Failed
<1>4. Turns'
  BY <1>1 DEF BuildInv, Turns
<1>5. Outcome'
  BY <1>1 DEF BuildInv, Outcome
<1>6. LinkFresh'
  BY <1>1 DEF BuildInv, LinkFresh, Needed, Wanted
<1> QED
  BY <1>2, <1>3, <1>4, <1>5, <1>6 DEF BuildInv

(* The stages that do not end the build of a target.                       *)
LEMMA StageKeeps ==
  ASSUME BuildInv, Emit \/ \E u \in Unit : SkipUnit(u) \/ CompileUnit(u)
  PROVE  BuildInv'
<1>1. BuildTypeOK
  BY DEF BuildInv
<1>2. CASE Emit
  <2>1. /\ exit = "no" /\ todo # <<>> /\ GoOn /\ stage = 1
        /\ temps' = WithFile(Program(Target))
    BY <1>1, <1>2, StageIs DEF Emit, Building
  <2>2. Made' = Made \cup {Program(Target)}
    <3>1. todo' = todo /\ std' = std /\ stage' = 2
      BY <2>1 DEF GoOn
    <3>2. Made = {}
      BY <2>1, Stagings DEF Made
    <3>3. Made' = {Program(Target)}
      BY <3>1, Stagings DEF Made, Target
    <3> QED
      BY <3>2, <3>3
  <2>3. PICK N : N = {Program(Target)}
    OBVIOUS
  <2>4. temps' = [f \in DOMAIN temps \cup N |-> IF f \in N THEN Target ELSE temps[f]]
    BY <2>1, <2>3 DEF WithFile
  <2>5. DOMAIN temps' = DOMAIN temps \cup N /\ stage # 7 /\ Made' = Made \cup N
    BY <2>1, <2>2, <2>3, <2>4
  <2> QED
    BY <2>1, <2>4, <2>5, GoOnKeeps
<1>3. ASSUME NEW u \in Unit, SkipUnit(u) \/ CompileUnit(u)
      PROVE  BuildInv'
  <2>1. exit = "no" /\ todo # <<>> /\ GoOn /\ stage = Place(u) /\ Place(u) \in 2 .. 6
    BY <1>1, <1>3, StageIs, Stagings DEF SkipUnit, CompileUnit, Building
  <2>2. todo' = todo /\ std' = std /\ stage' = stage + 1
    BY <2>1 DEF GoOn
  <2>3. \A v \in Unit : Place(v) < stage' <=> Place(v) < stage \/ v = u
    <3> SUFFICES ASSUME NEW v \in Unit PROVE Place(v) < stage' <=> Place(v) < stage \/ v = u
      OBVIOUS
    <3>1. Place(v) \in 2 .. 6 /\ (Place(v) = Place(u) => v = u)
      BY Stagings
    <3> QED
      BY <2>1, <2>2, <3>1
  <2>4. Made' = Made \cup {<<"unit", v>> : v \in {w \in {u} : Wanted(w)}}
    <3>1. stage > 1 /\ stage' > 1
      BY <2>1, <2>2
    <3>2. \A v : Wanted(v)' <=> Wanted(v)
      BY <2>2 DEF Wanted
    <3>3. Program(Target)' = Program(Target)
      BY <2>2 DEF Target, Program
    <3> QED
      BY <2>2, <2>3, <3>1, <3>2, <3>3 DEF Made, Wanted
  <2>5. CASE SkipUnit(u)
    <3>1. ~Wanted(u) /\ temps' = temps
      BY <2>5 DEF SkipUnit
    <3>2. Made' = Made \cup {}
      BY <2>4, <3>1
    <3>3. temps' = [f \in DOMAIN temps \cup {} |-> IF f \in {} THEN Target ELSE temps[f]]
      BY <1>1, <3>1 DEF BuildTypeOK
    <3>4. DOMAIN temps' = DOMAIN temps \cup {}
      BY <3>1
    <3> QED
      BY <2>1, <3>2, <3>3, <3>4, GoOnKeeps
  <2>6. CASE CompileUnit(u)
    <3>1. Wanted(u) /\ temps' = WithFile(<<"unit", u>>)
      BY <2>6 DEF CompileUnit
    <3>2. PICK N : N = {<<"unit", u>>}
      OBVIOUS
    <3>3. Made' = Made \cup N
      BY <2>4, <3>1, <3>2
    <3>4. temps' = [f \in DOMAIN temps \cup N |-> IF f \in N THEN Target ELSE temps[f]]
      BY <3>1, <3>2 DEF WithFile
    <3>5. DOMAIN temps' = DOMAIN temps \cup N /\ stage # 7
      BY <2>1, <3>4
    <3> QED
      BY <2>1, <3>3, <3>4, <3>5, GoOnKeeps
  <2> QED
    BY <1>3, <2>5, <2>6
<1> QED
  BY <1>2, <1>3

\* What is written about an executable.
FreshLink(l) ==
  /\ l.objects = {<<f, l.target>> : f \in Needed(l.target)}
  /\ {d[1] : d \in l.dirs} =
       {a[2] : a \in {b \in ToSet(LArguments) :
                        b[1] \in DOMAIN Canonical => Canonical[b[1]] = l.target}}

\* The end of the build of a target: what is left of the objects, and the
\* executable if there is one.
Ends(ok) ==
  /\ Ended(ok)
  /\ DOMAIN temps' \subseteq DOMAIN temps
  /\ temps' = [f \in DOMAIN temps' |-> temps[f]]
  /\ ok => \A f \in DOMAIN temps' : Failed(temps[f])
  /\ command = "host" => DOMAIN temps' \subseteq {<<"unit", "net">>}
  /\ ~ok => linked' = linked
  /\ ok => \E l : l.target = Target /\ FreshLink(l) /\ linked' = linked \cup {l}

(* It leaves the next target to be built from the first stage.             *)
LEMMA EndKeeps ==
  ASSUME BuildInv, todo # <<>>, NEW ok \in BOOLEAN, Ends(ok)
  PROVE  BuildInv'
<1>1. PICK r : r = [target |-> Target, ok |-> ok]
  OBVIOUS
<1>2. /\ results' = Append(results, r) /\ todo' = Tail(todo) /\ stage' = 1
      /\ exit' = IF Len(todo) > 1 THEN "no" ELSE IF \A q \in ToSet(results') : q.ok THEN "0" ELSE "1"
      /\ UNCHANGED <<command, std>>
  BY <1>1 DEF Ends, Ended
<1>3. /\ Target \in AnyTarget /\ Target \in ToSet(todo) /\ Len(todo) \in Nat \ {0}
      /\ todo' \in Seq(AnyTarget) /\ IsInjective(todo')
      /\ ToSet(todo) = {Target} \cup ToSet(todo') /\ Target \notin ToSet(todo')
      /\ Len(todo) = 1 <=> todo' = <<>>
  BY <1>2, TodoIs DEF BuildInv, Turns
<1>4. r \in Result /\ r.target = Target /\ r.ok = ok
  BY <1>1, <1>3 DEF Result
<1>5. results' \in Seq(Result) /\ ToSet(results') = ToSet(results) \cup {r}
  <2>1. results \in Seq(Result)
    BY DEF BuildInv, BuildTypeOK
  <2>2. results' \in Seq(Result)
    BY <1>2, <1>4, <2>1
  <2> QED
    BY <1>2, <1>4, <2>1, <2>2, OneMoreThere
<1>6. \A q \in ToSet(results) : q.target # Target
  BY <1>3 DEF BuildInv, Turns
<1>7. BuildTypeOK'
  <2>1. temps' = [f \in DOMAIN temps' |-> temps'[f]]
    BY DEF Ends
  <2> QED
    BY <1>2, <1>3, <1>5, <2>1 DEF BuildInv, BuildTypeOK
<1>8. Objects'
  <2>1. Made' = {}
    <3>1. \A v \in Unit : ~(Place(v) < 1)
      BY Stagings
    <3> QED
      BY <1>2, <3>1 DEF Made
  <2>2. ASSUME NEW f \in DOMAIN temps'
        PROVE  \E q \in ToSet(results') : ~q.ok /\ q.target = temps'[f]
    <3>1. f \in DOMAIN temps /\ temps'[f] = temps[f]
      BY DEF Ends
    <3>2. CASE Failed(temps[f])
      BY <1>5, <3>1, <3>2 DEF Failed
    <3>3. CASE ~Failed(temps[f])
      <4>1. ~ok /\ temps[f] = Target
        BY <3>1, <3>3 DEF Ends, BuildInv, Objects
      <4> QED
        BY <1>4, <1>5, <3>1, <4>1
    <3> QED
      BY <3>2, <3>3
  <2> QED
    BY <2>1, <2>2 DEF Objects, Failed
<1>9. Turns'
  <2>1. \A q \in ToSet(results') : q.target \notin ToSet(todo')
    BY <1>3, <1>4, <1>5 DEF BuildInv, Turns
  <2>2. \A p \in ToSet(results') : \A q \in ToSet(results') : p.target = q.target => p = q
    BY <1>4, <1>5, <1>6 DEF BuildInv, Turns
  <2>3. command' = "all" => {q.target : q \in ToSet(results')} \cup ToSet(todo') = ToSet(AllTargets)
    <3>1. {q.target : q \in ToSet(results')} = {q.target : q \in ToSet(results)} \cup {Target}
      BY <1>4, <1>5
    <3> QED
      BY <1>2, <1>3, <3>1 DEF BuildInv, Turns
  <2>4. command' = "host" => ToSet(todo') = {}
    BY <1>2, <1>3 DEF BuildInv, Turns
  <2>5. ToSet(todo') = {} => todo' = <<>>
    BY <1>3 DEF ToSet
  <2> QED
    BY <1>3, <2>1, <2>2, <2>3, <2>4, <2>5 DEF Turns
<1>10. \A l \in linked' : l \in linked \/ (ok /\ l.target = Target /\ FreshLink(l))
  BY DEF Ends
<1>11. linked \subseteq linked' /\ (ok => \E l \in linked' : l.target = Target)
  BY DEF Ends
<1>12. Outcome'
  <2>1. exit' # "no" => todo' = <<>>
    BY <1>2, <1>3
  <2>2. exit' = "0" => \A q \in ToSet(results') : q.ok
    BY <1>2
  <2>3. exit' = "1" => \E q \in ToSet(results') : ~q.ok
    BY <1>2
  <2>4. \A l \in linked' : \E q \in ToSet(results') : q.ok /\ q.target = l.target
    <3> SUFFICES ASSUME NEW l \in linked' PROVE \E q \in ToSet(results') : q.ok /\ q.target = l.target
      OBVIOUS
    <3>1. CASE l \in linked
      BY <1>5, <3>1 DEF BuildInv, Outcome
    <3>2. CASE l \notin linked
      BY <1>4, <1>5, <1>10, <3>2
    <3> QED
      BY <3>1, <3>2
  <2>5. \A q \in ToSet(results') : q.ok => \E l \in linked' : l.target = q.target
    BY <1>4, <1>5, <1>11 DEF BuildInv, Outcome
  <2>6. command' = "host" => DOMAIN temps' \subseteq {<<"unit", "net">>}
    BY <1>2 DEF Ends
  <2> QED
    BY <2>1, <2>2, <2>3, <2>4, <2>5, <2>6 DEF Outcome
<1>13. LinkFresh'
  <2>1. \A t : Needed(t)' = Needed(t)
    BY <1>2 DEF Needed, Wanted
  <2>2. \A l \in linked : FreshLink(l)
    BY DEF BuildInv, LinkFresh, FreshLink
  <2>3. \A l \in linked' : FreshLink(l)
    BY <1>10, <2>2
  <2> QED
    BY <1>2, <2>3 DEF LinkFresh, FreshLink, Needed, Wanted
<1> QED
  BY <1>7, <1>8, <1>9, <1>12, <1>13 DEF BuildInv

(* The objects of a target are those it needs, and all of them by the time *)
(* it is linked.                                                           *)
LEMMA MadeAreNeeded ==
  /\ Made \subseteq Needed(Target)
  /\ stage = 7 => Made = Needed(Target)
<1>1. Made \subseteq Needed(Target)
  BY DEF Made, Needed
<1>2. ASSUME stage = 7 PROVE Needed(Target) \subseteq Made
  <2>1. \A u \in Unit : Place(u) < 7
    BY Stagings
  <2> QED
    BY <1>2, <2>1 DEF Made, Needed
<1> QED
  BY <1>1, <1>2

(* A build for the host finds no objects but its own.                      *)
LEMMA HostAlone ==
  ASSUME BuildInv, todo # <<>>, command = "host"
  PROVE  Target = Host /\ DOMAIN temps \subseteq Made
<1>1. Target = Host
  BY TodoIs DEF BuildInv, Turns
<1>2. \A t : ~Failed(t)
  BY DEF BuildInv, Turns, Failed
<1> QED
  BY <1>1, <1>2 DEF BuildInv, Objects

(* The directories of an executable are those given for its target.        *)
LEMMA DirsRight ==
  ASSUME NEW t \in AnyTarget
  PROVE  {d[1] : d \in LibDirs(t)} =
           {a[2] : a \in {b \in ToSet(LArguments) : b[1] \in DOMAIN Canonical => Canonical[b[1]] = t}}
<1> DEFINE A == {b \in ToSet(LArguments) : b[1] \in DOMAIN Canonical => Canonical[b[1]] = t}
<1>1. CASE t = Host
  <2>1. A = Global
    <3>1. \A s \in DOMAIN Canonical : Canonical[s] # t
      BY <1>1, BuildAssumption DEF BuildAssumption, Host
    <3> QED
      BY <3>1 DEF Global, IsScoped
  <2>2. LibDirs(t) = {<<a[2], "all">> : a \in Global}
    BY <1>1 DEF LibDirs
  <2>3. {d[1] : d \in LibDirs(t)} = {a[2] : a \in Global}
    <3> DEFINE All(a) == <<a[2], "all">>
    <3>1. \A a : All(a)[1] = a[2]
      OBVIOUS
    <3>2. LibDirs(t) = {All(a) : a \in Global}
      BY <2>2
    <3> HIDE DEF All
    <3> QED
      BY <3>1, <3>2
  <2> QED
    BY <2>1, <2>3
<1>2. CASE t # Host
  <2>1. A = Global \cup Scoped(t)
    BY DEF Global, Scoped, IsScoped
  <2>2. LibDirs(t) = {ForTarget(a, t) : a \in Global \cup Scoped(t)}
    BY <1>2 DEF LibDirs
  <2>3. \A a : ForTarget(a, t)[1] = a[2]
    BY DEF ForTarget
  <2>4. {d[1] : d \in LibDirs(t)} = {a[2] : a \in Global \cup Scoped(t)}
    BY <2>2, <2>3
  <2> QED
    BY <2>1, <2>4
<1> QED
  BY <1>1, <1>2

(* What is left when a part of the objects is removed.                     *)
LEMMA Left ==
  ASSUME NEW R, temps' = Without(R)
  PROVE  DOMAIN temps' = DOMAIN temps \ R /\ temps' = [f \in DOMAIN temps' |-> temps[f]]
BY DEF Without, Restrict

(* Each way the build of a target ends.                                    *)
LEMMA ActionsEnd ==
  ASSUME BuildInv,
         \/ RejectTarget \/ EmitFails \/ Link \/ LinkFails \/ LinkerMissing
         \/ \E u \in Unit : CompileFails(u)
  PROVE  todo # <<>> /\ \E ok \in BOOLEAN : Ends(ok)
<1>1. todo # <<>> /\ BuildTypeOK
  BY DEF BuildInv, RejectTarget, EmitFails, Link, LinkFails, LinkerMissing, CompileFails, Building
<1>2. temps = [f \in DOMAIN temps |-> temps[f]]
  BY <1>1 DEF BuildTypeOK
<1>3. CASE RejectTarget \/ EmitFails
  <2>1. Building("emit") /\ Ended(FALSE) /\ temps' = temps /\ linked' = linked
    BY <1>3 DEF RejectTarget, EmitFails
  <2>2. Made = {}
    BY <1>1, <2>1, StageIs, Stagings DEF Made
  <2>3. command = "host" => DOMAIN temps' \subseteq {<<"unit", "net">>}
    BY <1>1, <2>1, <2>2, HostAlone
  <2> QED
    BY <1>1, <1>2, <2>1, <2>3 DEF Ends
<1>4. ASSUME NEW u \in Unit, CompileFails(u)
      PROVE  Ends(FALSE)
  <2>1. /\ Building(u) /\ Ended(FALSE) /\ linked' = linked
        /\ temps' = IF command = "host" THEN Without(HostRemoves(u)) ELSE temps
    BY <1>4 DEF CompileFails
  <2>2. CASE command = "host"
    <3>1. DOMAIN temps' = DOMAIN temps \ HostRemoves(u) /\ temps' = [f \in DOMAIN temps' |-> temps[f]]
      BY <2>1, <2>2, Left
    <3>2. Target = Host /\ DOMAIN temps \subseteq Made
      BY <1>1, <2>2, HostAlone
    <3>3. stage = Place(u)
      BY <1>1, <2>1, StageIs
    <3>4. ASSUME NEW v \in Unit, Place(v) < Place(u), v # "net"
          PROVE  <<"unit", v>> \in HostRemoves(u)
      <4>1. u \in {"io", "net", "map", "thread", "time"} /\ v \in {"io", "net", "map", "thread", "time"}
        BY DEF Unit
      <4>2. CASE u = "io"
        BY <3>4, <4>1, <4>2, Stagings
      <4>3. CASE u = "net"
        BY <3>4, <4>1, <4>3, Stagings DEF HostRemoves
      <4>4. CASE u = "map"
        BY <3>4, <4>1, <4>4, Stagings DEF HostRemoves
      <4>5. CASE u = "thread"
        BY <3>4, <4>1, <4>5, Stagings DEF HostRemoves
      <4>6. CASE u = "time"
        BY <3>4, <4>1, <4>6, Stagings DEF HostRemoves
      <4> QED
        BY <4>1, <4>2, <4>3, <4>4, <4>5, <4>6
    <3>5. Program(Host) \in HostRemoves(u)
      BY DEF HostRemoves
    <3>6. \A f \in Made : f \in HostRemoves(u) \/ f = <<"unit", "net">>
      BY <3>2, <3>3, <3>4, <3>5 DEF Made
    <3>7. DOMAIN temps' \subseteq {<<"unit", "net">>}
      BY <3>1, <3>2, <3>6
    <3> QED
      BY <2>1, <3>1, <3>7 DEF Ends
  <2>3. CASE command # "host"
    BY <1>2, <2>1, <2>3 DEF Ends
  <2> QED
    BY <2>2, <2>3
<1>5. ASSUME stage = 7, temps' = Without(Needed(Target))
      PROVE  /\ DOMAIN temps' \subseteq DOMAIN temps
             /\ temps' = [f \in DOMAIN temps' |-> temps[f]]
             /\ \A f \in DOMAIN temps' : Failed(temps[f])
             /\ command = "host" => DOMAIN temps' \subseteq {<<"unit", "net">>}
  <2>1. DOMAIN temps' = DOMAIN temps \ Needed(Target) /\ temps' = [f \in DOMAIN temps' |-> temps[f]]
    BY <1>5, Left
  <2>2. Made = Needed(Target)
    BY <1>5, MadeAreNeeded
  <2>3. \A f \in DOMAIN temps' : Failed(temps[f])
    BY <2>1, <2>2 DEF BuildInv, Objects
  <2>4. command = "host" => DOMAIN temps' = {}
    BY <1>1, <2>1, <2>2, HostAlone
  <2> QED
    BY <2>1, <2>3, <2>4
<1>6. Building("link") => stage = 7
  BY <1>1, StageIs
<1>7. CASE LinkFails
  <2>1. stage = 7 /\ Ended(FALSE) /\ temps' = Without(Needed(Target)) /\ linked' = linked
    BY <1>6, <1>7 DEF LinkFails
  <2>2. Ends(FALSE)
    BY <1>5, <2>1 DEF Ends
  <2> QED
    BY <1>1, <2>2
<1>8. CASE LinkerMissing
  <2>1. CASE command = "host"
    <3>1. stage = 7 /\ Ended(FALSE) /\ temps' = Without(Needed(Target)) /\ linked' = linked
      BY <1>6, <1>8, <2>1 DEF LinkerMissing
    <3>2. Ends(FALSE)
      BY <1>5, <3>1 DEF Ends
    <3> QED
      BY <1>1, <3>2
  <2>2. CASE command # "host"
    <3>1. Ended(FALSE) /\ temps' = temps /\ linked' = linked
      BY <1>8, <2>2 DEF LinkerMissing
    <3>2. Ends(FALSE)
      BY <1>2, <2>2, <3>1 DEF Ends
    <3> QED
      BY <1>1, <3>2
  <2> QED
    BY <2>1, <2>2
<1>9. CASE Link
  <2>1. PICK l : l = [target |-> Target, dirs |-> LibDirs(Target),
                      objects |-> {<<f, IF f \in DOMAIN temps THEN temps[f] ELSE "missing">>
                                     : f \in Needed(Target)}]
    OBVIOUS
  <2>2. /\ l.target = Target /\ l.dirs = LibDirs(Target)
        /\ l.objects = {<<f, IF f \in DOMAIN temps THEN temps[f] ELSE "missing">> : f \in Needed(Target)}
    BY <2>1
  <2>3. /\ stage = 7 /\ Ended(TRUE) /\ temps' = Without(Needed(Target)) /\ linked' = linked \cup {l}
    BY <1>6, <1>9, <2>1 DEF Link
  <2>4. \A f \in Needed(Target) : f \in DOMAIN temps /\ temps[f] = Target
    BY <1>1, <2>3, MadeAreNeeded DEF BuildInv, Objects
  <2>5. l.objects = {<<f, Target>> : f \in Needed(Target)}
    BY <2>2, <2>4
  <2>6. Target \in AnyTarget
    BY <1>1, TodoIs DEF BuildInv, Turns
  <2>7. FreshLink(l)
    BY <2>2, <2>5, <2>6, DirsRight DEF FreshLink
  <2>8. Ends(TRUE)
    BY <1>5, <2>2, <2>3, <2>7 DEF Ends
  <2> QED
    BY <1>1, <2>8
<1> QED
  BY <1>1, <1>3, <1>4, <1>7, <1>8, <1>9

(* The inductive invariant holds at every step.                            *)
THEOREM BuildInvariance == BuildSpec => []BuildInv
<1>1. BuildInv /\ [BuildNext]_buildVars => BuildInv'
  <2> SUFFICES ASSUME BuildInv, [BuildNext]_buildVars PROVE BuildInv'
    OBVIOUS
  <2>1. CASE Emit \/ \E u \in Unit : SkipUnit(u) \/ CompileUnit(u)
    BY <2>1, StageKeeps
  <2>2. CASE \/ RejectTarget \/ EmitFails \/ Link \/ LinkFails \/ LinkerMissing
             \/ \E u \in Unit : CompileFails(u)
    BY <2>2, ActionsEnd, EndKeeps
  <2>3. CASE UNCHANGED buildVars
    <3>1. BuildTypeOK'
      BY <2>3 DEF buildVars, BuildInv, BuildTypeOK
    <3>2. Objects'
      BY <2>3 DEF buildVars, BuildInv, Objects, Made, Target, Wanted, Failed
    <3>3. Turns'
      BY <2>3 DEF buildVars, BuildInv, Turns
    <3>4. Outcome'
      BY <2>3 DEF buildVars, BuildInv, Outcome
    <3>5. LinkFresh'
      BY <2>3 DEF buildVars, BuildInv, LinkFresh, Needed, Wanted
    <3> QED
      BY <3>1, <3>2, <3>3, <3>4, <3>5 DEF BuildInv
  <2> QED
    BY <2>1, <2>2, <2>3 DEF BuildNext
<1> QED
  BY BuildStarts, <1>1, PTL DEF BuildSpec

(* Every executable is linked from its own objects and with its own        *)
(* directories, whatever failed before (LinkFresh of VerbBuild).           *)
THEOREM LinksFresh == BuildSpec => []LinkFresh
<1>1. BuildInv => LinkFresh
  BY DEF BuildInv
<1> QED
  BY <1>1, BuildInvariance, PTL

(* The exit status is that of the targets, and what is left behind belongs *)
(* to one that failed (ExitHonest of VerbBuild).                           *)
THEOREM ExitsHonest == BuildSpec => []ExitHonest
<1>1. ASSUME BuildInv PROVE ExitHonest
  <2>1. ASSUME exit # "no"
        PROVE  /\ exit = "0" <=> \A r \in ToSet(results) : \E l \in linked : l.target = r.target
               /\ exit = "0" => temps = [f \in {} |-> Host]
               /\ command = "all" => {r.target : r \in ToSet(results)} = ToSet(AllTargets)
               /\ command = "host" => DOMAIN temps \subseteq {<<"unit", "net">>}
    <3>1. todo = <<>> /\ ToSet(todo) = {} /\ exit \in {"0", "1"}
      BY <1>1, <2>1 DEF BuildInv, Outcome, BuildTypeOK, ToSet
    <3>2. exit = "0" => \A r \in ToSet(results) : \E l \in linked : l.target = r.target
      BY <1>1 DEF BuildInv, Outcome
    <3>3. exit = "1" => ~ \A r \in ToSet(results) : \E l \in linked : l.target = r.target
      <4> SUFFICES ASSUME exit = "1",
                          \A r \in ToSet(results) : \E l \in linked : l.target = r.target
                   PROVE  FALSE
        OBVIOUS
      <4>1. PICK r \in ToSet(results) : ~r.ok
        BY <1>1 DEF BuildInv, Outcome
      <4>2. PICK l \in linked : l.target = r.target
        OBVIOUS
      <4>3. PICK q \in ToSet(results) : q.ok /\ q.target = l.target
        BY <1>1 DEF BuildInv, Outcome
      <4> QED
        BY <1>1, <4>1, <4>2, <4>3 DEF BuildInv, Turns
    <3>4. exit = "0" => temps = [f \in {} |-> Host]
      <4> SUFFICES ASSUME exit = "0" PROVE temps = [f \in {} |-> Host]
        OBVIOUS
      <4>1. \A t : ~Failed(t)
        BY <1>1 DEF BuildInv, Outcome, Failed
      <4>2. DOMAIN temps = {}
        BY <1>1, <3>1, <4>1 DEF BuildInv, Objects
      <4> QED
        BY <1>1, <4>2 DEF BuildInv, BuildTypeOK
    <3>5. command = "all" => {r.target : r \in ToSet(results)} = ToSet(AllTargets)
      BY <1>1, <3>1 DEF BuildInv, Turns
    <3>6. command = "host" => DOMAIN temps \subseteq {<<"unit", "net">>}
      BY <1>1, <2>1 DEF BuildInv, Outcome
    <3> QED
      BY <3>1, <3>2, <3>3, <3>4, <3>5, <3>6
  <2>2. \A f \in DOMAIN temps :
          \/ todo # <<>> /\ temps[f] = Target
          \/ \E r \in ToSet(results) : ~r.ok /\ r.target = temps[f]
    BY <1>1 DEF BuildInv, Objects, Failed
  <2> QED
    BY <2>1, <2>2 DEF ExitHonest
<1> QED
  BY <1>1, BuildInvariance, PTL

(***************************************************************************)
(* The scanner.                                                            *)
(***************************************************************************)

Newlines(x, k) == {j \in 1 .. k - 1 : x[j] = "nl"}

\* Index k of text x is at line l and column c: m is the index of the
\* newline before it.
Stands(x, k, l, c) ==
  /\ k \in 1 .. Len(x) + 1
  /\ l \in Nat /\ l = 1 + Cardinality(Newlines(x, k))
  /\ \E m \in {0} \cup Newlines(x, k) : c = k - m /\ \A j \in Newlines(x, k) : j <= m

\* The newlines before an index are finitely many, and below it.
LEMMA NewlinesAre ==
  ASSUME NEW x, NEW k \in Nat
  PROVE  /\ IsFiniteSet(Newlines(x, k)) /\ Cardinality(Newlines(x, k)) \in Nat
         /\ Newlines(x, k) \subseteq 1 .. k - 1
<1>1. Newlines(x, k) \in SUBSET (1 .. k - 1)
  BY DEF Newlines
<1>2. k - 1 \in Int /\ 1 \in Int
  OBVIOUS
<1>3. IsFiniteSet(1 .. k - 1)
  BY <1>2, FS_Interval
<1>4. IsFiniteSet(Newlines(x, k))
  BY <1>1, <1>3, FS_Subset
<1> QED
  BY <1>1, <1>4, FS_CardinalityType

\* That is what LineOf and ColOf say.
LEMMA StandsThere ==
  ASSUME NEW k, NEW l, NEW c, Stands(text, k, l, c), Len(text) \in Nat
  PROVE  l = LineOf(k) /\ c = ColOf(k) /\ c \in Nat
<1>1. PICK S : S = {0} \cup Newlines(text, k)
  OBVIOUS
<1>2. k \in Nat /\ k > 0
  BY DEF Stands
<1>3. PICK m \in S : c = k - m /\ \A j \in Newlines(text, k) : j <= m
  BY <1>1 DEF Stands
<1>4. S \subseteq 0 .. k - 1
  BY <1>1, <1>2, NewlinesAre
<1>5. \A j \in S : m >= j
  BY <1>1, <1>3, <1>4
<1>6. Max(S) = m
  <2>1. \A y \in S : (\A j \in S : y >= j) => y = m
    BY <1>3, <1>4, <1>5
  <2> QED
    BY <1>3, <1>5, <2>1 DEF Max
<1>7. c \in Nat
  BY <1>2, <1>3, <1>4
<1> QED
  BY <1>1, <1>3, <1>6, <1>7 DEF Stands, LineOf, ColOf, Newlines

\* The first character is at 1:1.
LEMMA StandsFirst ==
  ASSUME NEW x, Len(x) \in Nat
  PROVE  Stands(x, 1, 1, 1)
<1>1. Newlines(x, 1) = {}
  BY DEF Newlines
<1>2. Cardinality({}) = 0
  BY FS_EmptySet
<1>3. 0 \in {0} \cup Newlines(x, 1) /\ 1 = 1 - 0 /\ \A j \in Newlines(x, 1) : j <= 0
  BY <1>1
<1>4. 1 = 1 + Cardinality(Newlines(x, 1))
  BY <1>1, <1>2
<1>5. 1 \in 1 .. Len(x) + 1
  OBVIOUS
<1> QED
  BY <1>3, <1>4, <1>5 DEF Stands

\* n characters further, within a line.
LEMMA StandsOn ==
  ASSUME NEW x, NEW k, NEW l, NEW c, NEW n \in Nat, Len(x) \in Nat,
         Stands(x, k, l, c), k + n <= Len(x) + 1,
         \A j \in k .. k + n - 1 : x[j] # "nl"
  PROVE  Stands(x, k + n, l, c + n)
<1>1. k \in Nat /\ k > 0
  BY DEF Stands
<1>2. Newlines(x, k + n) = Newlines(x, k)
  <2>1. \A j \in Newlines(x, k + n) : j \in Newlines(x, k)
    <3> SUFFICES ASSUME NEW j \in Newlines(x, k + n) PROVE j \in Newlines(x, k)
      OBVIOUS
    <3>0. j \in 1 .. k + n - 1 /\ x[j] = "nl"
      BY <1>1 DEF Newlines
    <3>1. ~(j >= k)
      <4>1. SUFFICES ASSUME j >= k PROVE FALSE
        OBVIOUS
      <4>2. j \in k .. k + n - 1
        BY <1>1, <3>0, <4>1
      <4> QED
        BY <3>0, <4>2
    <3>2. j \in 1 .. k - 1
      BY <1>1, <3>0, <3>1
    <3> QED
      BY <3>0, <3>2 DEF Newlines
  <2>2. \A j \in Newlines(x, k) : j \in Newlines(x, k + n)
    BY <1>1 DEF Newlines
  <2> QED
    BY <2>1, <2>2
<1>3. PICK m \in {0} \cup Newlines(x, k) : c = k - m /\ \A j \in Newlines(x, k) : j <= m
  BY DEF Stands
<1>4. m \in Nat
  BY <1>1, <1>3, NewlinesAre
<1>5. c + n = (k + n) - m /\ k + n \in 1 .. Len(x) + 1
  BY <1>1, <1>3, <1>4
<1> QED
  BY <1>2, <1>3, <1>5 DEF Stands

\* Behind a newline a line begins.
LEMMA StandsBelow ==
  ASSUME NEW x, NEW k, NEW l, NEW c, Len(x) \in Nat,
         Stands(x, k, l, c), k <= Len(x), x[k] = "nl"
  PROVE  Stands(x, k + 1, l + 1, 1)
<1>1. k \in Nat /\ k > 0
  BY DEF Stands
<1>2. Newlines(x, k + 1) = Newlines(x, k) \cup {k}
  BY <1>1 DEF Newlines
<1>3. k \notin Newlines(x, k)
  BY <1>1, NewlinesAre
<1>4. Cardinality(Newlines(x, k + 1)) = Cardinality(Newlines(x, k)) + 1
  BY <1>1, <1>2, <1>3, NewlinesAre, FS_AddElement
<1>5. \A j \in Newlines(x, k + 1) : j <= k
  BY <1>1, <1>2, NewlinesAre
<1>6. Cardinality(Newlines(x, k)) \in Nat
  BY <1>1, NewlinesAre
<1>7. l + 1 \in Nat /\ l + 1 = 1 + Cardinality(Newlines(x, k + 1))
  BY <1>4, <1>6 DEF Stands
<1>8. 1 = (k + 1) - k /\ k + 1 \in 1 .. Len(x) + 1
  BY <1>1
<1> QED
  BY <1>2, <1>5, <1>7, <1>8 DEF Stands

ItemKind == {"lparen", "arrow", "comment", "string", "int", "float", "word", "eof"}
ItemSet == [kind : ItemKind, line : Nat, col : Nat, from : Nat, to : Nat]

\* The tokens and comments tk of x, all before index b, are right.
ItemsRight(x, tk, b) ==
  /\ tk \in Seq(ItemSet)
  /\ \A m \in 1 .. Len(tk) :
       /\ Stands(x, tk[m].from, tk[m].line, tk[m].col)
       /\ tk[m].to < b
       /\ tk[m].kind = "word" => ~(tk[m].to + 1 <= Len(x) /\ x[tk[m].to + 1] \in WordChar)
  /\ \A m \in 1 .. Len(tk) - 1 : tk[m].to < tk[m + 1].from

\* Up to index b nothing was left out.
NoneSkipped(x, tk, b) ==
  \A k \in 1 .. b - 1 :
    x[k] \in Blank \cup {"nl"} \/ \E m \in 1 .. Len(tk) : k \in tk[m].from .. tk[m].to

\* A token or comment from b to before e behind the others.
LEMMA ItemPushed ==
  ASSUME NEW x, Len(x) \in Nat, NEW tk, NEW b \in Nat, NEW l, NEW c \in Nat, NEW e \in Nat, b <= e, NEW kd \in ItemKind,
         ItemsRight(x, tk, b), NoneSkipped(x, tk, b), Stands(x, b, l, c),
         kd = "word" => ~(e <= Len(x) /\ x[e] \in WordChar)
  PROVE  LET u == Append(tk, [kind |-> kd, line |-> l, col |-> c, from |-> b, to |-> e - 1])
         IN  ItemsRight(x, u, e) /\ NoneSkipped(x, u, e)
<1>1. PICK it : it = [kind |-> kd, line |-> l, col |-> c, from |-> b, to |-> e - 1]
  OBVIOUS
<1>2. PICK u : u = Append(tk, it)
  OBVIOUS
<1>3. b > 0 /\ e - 1 \in Nat /\ l \in Nat
  BY DEF Stands
<1>4. it \in ItemSet /\ it.from = b /\ it.to = e - 1 /\ it.kind = kd /\ it.line = l /\ it.col = c
  BY <1>1, <1>3 DEF ItemSet
<1>5. tk \in Seq(ItemSet)
  BY DEF ItemsRight
<1>6. PICK d \in Nat : d = Len(tk)
  BY <1>5
<1>7. u \in Seq(ItemSet) /\ Len(u) = d + 1 /\ u[d + 1] = it /\ \A m \in 1 .. d : u[m] = tk[m] /\ tk[m] \in ItemSet
  <2>1. \A m \in 1 .. d : tk[m] \in ItemSet
    BY <1>5, <1>6, ElementOfSeq
  <2> QED
    BY <1>2, <1>4, <1>5, <1>6, <2>1, AppendProperties
<1>8. \A m \in 1 .. d : /\ Stands(x, tk[m].from, tk[m].line, tk[m].col) /\ tk[m].to < b
                        /\ tk[m].kind = "word" => ~(tk[m].to + 1 <= Len(x) /\ x[tk[m].to + 1] \in WordChar)
  BY <1>6 DEF ItemsRight
<1>9. \A m \in 1 .. d : tk[m].to \in Nat
  BY <1>7 DEF ItemSet
<1>10. \A m \in 1 .. d + 1 :
         /\ Stands(x, u[m].from, u[m].line, u[m].col) /\ u[m].to < e
         /\ u[m].kind = "word" => ~(u[m].to + 1 <= Len(x) /\ x[u[m].to + 1] \in WordChar)
  <2> SUFFICES ASSUME NEW m \in 1 .. d + 1
               PROVE  /\ Stands(x, u[m].from, u[m].line, u[m].col) /\ u[m].to < e
                      /\ u[m].kind = "word" => ~(u[m].to + 1 <= Len(x) /\ x[u[m].to + 1] \in WordChar)
    OBVIOUS
  <2>1. CASE m = d + 1
    <3>1. u[m] = it /\ it.to + 1 = e /\ it.to < e
      BY <1>3, <1>4, <1>7, <2>1
    <3> QED
      BY <1>4, <3>1
  <2>2. CASE m # d + 1
    <3>1. m \in 1 .. d
      BY <2>2
    <3>2. u[m] = tk[m] /\ tk[m].to \in Nat /\ tk[m].to < b
      BY <1>7, <1>8, <1>9, <3>1
    <3>3. tk[m].to < e
      BY <3>2
    <3> QED
      BY <1>8, <3>1, <3>2, <3>3
  <2> QED
    BY <2>1, <2>2
<1>11. \A m \in 1 .. d : u[m].to < u[m + 1].from
  <2> SUFFICES ASSUME NEW m \in 1 .. d PROVE u[m].to < u[m + 1].from
    OBVIOUS
  <2>1. CASE m = d
    BY <1>4, <1>7, <1>8, <2>1
  <2>2. CASE m # d
    <3>1. m \in 1 .. d - 1 /\ m + 1 \in 1 .. d
      BY <2>2
    <3>2. tk[m].to < tk[m + 1].from
      BY <1>6, <3>1 DEF ItemsRight
    <3> QED
      BY <1>7, <3>1, <3>2
  <2> QED
    BY <2>1, <2>2
<1>12. ItemsRight(x, u, e)
  BY <1>7, <1>10, <1>11 DEF ItemsRight
<1>13. NoneSkipped(x, u, e)
  <2> SUFFICES ASSUME NEW k \in 1 .. e - 1
               PROVE  x[k] \in Blank \cup {"nl"} \/ \E m \in 1 .. Len(u) : k \in u[m].from .. u[m].to
    BY DEF NoneSkipped
  <2>1. CASE k < b
    <3>1. k \in 1 .. b - 1
      BY <2>1
    <3>2. x[k] \in Blank \cup {"nl"} \/ \E m \in 1 .. d : k \in tk[m].from .. tk[m].to
      BY <1>6, <3>1 DEF NoneSkipped
    <3>3. \A m \in 1 .. d : m \in 1 .. Len(u)
      BY <1>7
    <3> QED
      BY <1>7, <3>2, <3>3
  <2>2. CASE ~(k < b)
    <3>1. k \in it.from .. it.to
      BY <1>3, <1>4, <2>2
    <3>2. d + 1 \in 1 .. Len(u)
      BY <1>7
    <3> QED
      BY <1>7, <3>1, <3>2
  <2> QED
    BY <2>1, <2>2
<1> QED
  BY <1>1, <1>2, <1>12, <1>13

OpenMode == {"line", "block", "string", "digits", "fraction", "word"}

ItemPlace == [at : Nat, line : Nat, col : Nat]

LexInv ==
  /\ text \in Seq(Char)
  /\ Stands(text, i, line, col)
  /\ start \in ItemPlace /\ Stands(text, start.at, start.line, start.col) /\ start.at <= i
  /\ mode \in OpenMode \cup {"next", "done", "failed"}
  /\ mode \in {"next", "done"} => ItemsRight(text, toks, i) /\ NoneSkipped(text, toks, i)
  /\ mode \in OpenMode =>
       /\ start.at <= Len(text)
       /\ ItemsRight(text, toks, start.at) /\ NoneSkipped(text, toks, start.at)
  /\ IF mode = "failed"
     THEN /\ \E b : ItemsRight(text, toks, b)
          /\ \E k \in 1 .. Len(text) : k \in {i, start.at} /\ Stands(text, k, lexErr.line, lexErr.col)
     ELSE lexErr = NoError

\* The numbers of a place.
LEMMA PlaceNumbers ==
  ASSUME LexInv
  PROVE  /\ Len(text) \in Nat /\ i \in Nat /\ i > 0 /\ line \in Nat /\ col \in Nat
         /\ start.at \in Nat /\ start.line \in Nat /\ start.col \in Nat
         /\ Here \in ItemPlace /\ Here.at = i /\ Here.line = line /\ Here.col = col
<1>1. text \in Seq(Char) /\ Stands(text, i, line, col) /\ start \in ItemPlace
  BY DEF LexInv
<1>2. Len(text) \in Nat
  BY <1>1
<1>3. i \in Nat /\ i > 0 /\ line \in Nat
  BY <1>1, <1>2 DEF Stands
<1>4. col \in Nat
  BY <1>1, <1>2, StandsThere
<1> QED
  BY <1>1, <1>2, <1>3, <1>4 DEF ItemPlace, Here

\* The scan begins with nothing scanned.
LEMMA LexStarts == LexInit => LexInv
<1> SUFFICES ASSUME LexInit PROVE LexInv
  OBVIOUS
<1>1. text \in Seq(Char) /\ Len(text) \in Nat
  BY LexerAssumption DEF LexInit, LexerAssumption
<1>2. Stands(text, 1, 1, 1)
  BY <1>1, StandsFirst
<1>3. /\ i = 1 /\ line = 1 /\ col = 1 /\ mode = "next" /\ toks = <<>> /\ lexErr = NoError
      /\ start = [at |-> 1, line |-> 1, col |-> 1]
  BY DEF LexInit, Here
<1>4. start \in ItemPlace /\ start.at = 1 /\ start.line = 1 /\ start.col = 1
  BY <1>3 DEF ItemPlace
<1>5. Len(<<>>) = 0 /\ 1 .. 0 = {} /\ 1 .. 0 - 1 = {} /\ <<>> \in Seq(ItemSet)
  OBVIOUS
<1>6. ItemsRight(text, toks, i)
  BY <1>3, <1>5 DEF ItemsRight
<1>7. NoneSkipped(text, toks, i)
  BY <1>3 DEF NoneSkipped
<1> QED
  BY <1>1, <1>2, <1>3, <1>4, <1>6, <1>7 DEF LexInv, OpenMode

\* A token or comment is begun at the index.
LEMMA BeginKeeps ==
  ASSUME LexInv, mode = "next", i <= Len(text), start' = Here, mode' \in OpenMode,
         UNCHANGED <<text, toks, lexErr>>,
         Stands(text, i', line', col'), i <= i'
  PROVE  LexInv'
<1>1. /\ Here \in ItemPlace /\ Here.at = i /\ Here.line = line /\ Here.col = col
  BY PlaceNumbers
<1>2. mode' # "failed" /\ mode' \notin {"next", "done"} /\ mode # "failed"
  BY DEF OpenMode
<1> QED
  BY <1>1, <1>2 DEF LexInv

\* It goes on.
LEMMA ScanKeeps ==
  ASSUME LexInv, mode \in OpenMode, mode' \in OpenMode, UNCHANGED <<text, start, toks, lexErr>>,
         Stands(text, i', line', col'), i <= i', i' \in Nat
  PROVE  LexInv'
<1>1. mode' # "failed" /\ mode' \notin {"next", "done"} /\ mode # "failed"
  BY DEF OpenMode
<1>2. start.at <= i'
  BY PlaceNumbers DEF LexInv
<1> QED
  BY <1>1, <1>2 DEF LexInv

\* What began at place p is pushed as the scanner moves on behind it.
Pushed(p) ==
  \E kd \in ItemKind : Push(kd, p, i') /\ (kd = "word" => ~AtIn(i', WordChar))

\* It ends.
LEMMA CloseKeeps ==
  ASSUME LexInv, mode \in OpenMode, mode' = "next", UNCHANGED <<text, start, lexErr>>,
         Pushed(start), Stands(text, i', line', col'), i <= i', i' \in Nat
  PROVE  LexInv'
<1>1. /\ start.at <= i /\ Stands(text, start.at, start.line, start.col)
      /\ ItemsRight(text, toks, start.at) /\ NoneSkipped(text, toks, start.at)
      /\ mode # "failed"
  BY DEF LexInv, OpenMode
<1>2. Len(text) \in Nat /\ start.at \in Nat /\ start.col \in Nat /\ i \in Nat
  BY PlaceNumbers
<1>3. start.at <= i'
  BY <1>1, <1>2
<1>0. PICK kd \in ItemKind : Push(kd, start, i') /\ (kd = "word" => ~AtIn(i', WordChar))
  BY DEF Pushed
<1>4. toks' = Append(toks, [kind |-> kd, line |-> start.line, col |-> start.col,
                            from |-> start.at, to |-> i' - 1])
  BY <1>0 DEF Push, Item
<1>5. ItemsRight(text, toks', i') /\ NoneSkipped(text, toks', i')
  BY <1>0, <1>1, <1>2, <1>3, <1>4, ItemPushed DEF AtIn
<1> QED
  BY <1>1, <1>3, <1>5 DEF LexInv, OpenMode

\* A token of known length, or the end.
LEMMA TokenKeeps ==
  ASSUME LexInv, mode = "next", mode' \in {"next", "done"}, UNCHANGED <<text, start, lexErr>>,
         Pushed(Here), Stands(text, i', line', col'), i <= i', i' \in Nat
  PROVE  LexInv'
<1>1. /\ Stands(text, i, line, col) /\ start.at <= i
      /\ ItemsRight(text, toks, i) /\ NoneSkipped(text, toks, i)
  BY DEF LexInv
<1>2. Len(text) \in Nat /\ i \in Nat /\ col \in Nat /\ start.at \in Nat
  BY PlaceNumbers
<1>0. PICK kd \in ItemKind : Push(kd, Here, i') /\ (kd = "word" => ~AtIn(i', WordChar))
  BY DEF Pushed
<1>3. toks' = Append(toks, [kind |-> kd, line |-> line, col |-> col, from |-> i, to |-> i' - 1])
  BY <1>0 DEF Push, Item, Here
<1>4. ItemsRight(text, toks', i') /\ NoneSkipped(text, toks', i')
  BY <1>0, <1>1, <1>2, <1>3, ItemPushed DEF AtIn
<1>5. start.at <= i'
  BY <1>1, <1>2
<1> QED
  BY <1>4, <1>5 DEF LexInv, OpenMode

\* An error, reported at the index or where the token began.
LEMMA StopKeeps ==
  ASSUME LexInv, mode \in OpenMode \cup {"next"}, NEW msg, NEW k \in 1 .. Len(text), NEW l, NEW c,
         Stop(msg, l, c), k \in {i, start.at}, Stands(text, k, l, c)
  PROVE  LexInv'
<1>1. /\ lexErr' = [msg |-> msg, line |-> l, col |-> c] /\ mode' = "failed"
      /\ UNCHANGED <<text, i, line, col, start, toks>>
  BY DEF Stop
<1>2. lexErr'.line = l /\ lexErr'.col = c
  BY <1>1
<1>3. \E b : ItemsRight(text, toks, b)
  BY DEF LexInv
<1> QED
  BY <1>1, <1>2, <1>3 DEF LexInv, OpenMode

Moved == Stands(text, i', line', col') /\ i <= i' /\ i' \in Nat

\* The index and the column move on together.
LEMMA AdvanceMoves ==
  ASSUME LexInv, NEW n \in Nat, i + n <= Len(text) + 1,
         \A j \in i .. i + n - 1 : text[j] # "nl", Advance(n)
  PROVE  Moved /\ i' = i + n
<1>1. Stands(text, i, line, col) /\ Len(text) \in Nat /\ i \in Nat
  BY PlaceNumbers DEF LexInv
<1>2. i' = i + n /\ line' = line /\ col' = col + n
  BY DEF Advance
<1>3. Stands(text, i + n, line, col + n)
  BY <1>1, StandsOn
<1> QED
  BY <1>1, <1>2, <1>3 DEF Moved

\* One character that is no newline.
LEMMA OneMoves ==
  ASSUME LexInv, i <= Len(text), text[i] # "nl", Advance(1)
  PROVE  Moved /\ i' = i + 1
<1>1. Len(text) \in Nat /\ i \in Nat
  BY PlaceNumbers
<1>2. i + 1 <= Len(text) + 1 /\ \A j \in i .. i + 1 - 1 : text[j] # "nl"
  BY <1>1
<1> QED
  BY <1>2, AdvanceMoves

\* A newline.
LEMMA NewlineMoves ==
  ASSUME LexInv, i <= Len(text), text[i] = "nl", Newline
  PROVE  Moved /\ i' = i + 1
<1>1. Stands(text, i, line, col) /\ Len(text) \in Nat /\ i \in Nat
  BY PlaceNumbers DEF LexInv
<1>2. i' = i + 1 /\ line' = line + 1 /\ col' = 1
  BY DEF Newline
<1>3. Stands(text, i + 1, line + 1, 1)
  BY <1>1, StandsBelow
<1> QED
  BY <1>1, <1>2, <1>3 DEF Moved

\* Nothing moves.
LEMMA NoneMoves ==
  ASSUME LexInv, UNCHANGED <<i, line, col>>
  PROVE  Moved /\ i' = i
<1>1. Stands(text, i, line, col) /\ i \in Nat
  BY PlaceNumbers DEF LexInv
<1> QED
  BY <1>1 DEF Moved

\* A blank may be skipped.
LEMMA BlankSkipped ==
  ASSUME NEW x, NEW tk, NEW b \in Nat, x[b] \in Blank \cup {"nl"}, NoneSkipped(x, tk, b)
  PROVE  NoneSkipped(x, tk, b + 1)
<1> SUFFICES ASSUME NEW k \in 1 .. b + 1 - 1
             PROVE  x[k] \in Blank \cup {"nl"} \/ \E m \in 1 .. Len(tk) : k \in tk[m].from .. tk[m].to
  BY DEF NoneSkipped
<1>1. CASE k = b
  BY <1>1
<1>2. CASE k # b
  <2>1. k \in 1 .. b - 1
    BY <1>2
  <2> QED
    BY <2>1 DEF NoneSkipped
<1> QED
  BY <1>1, <1>2

\* Blanks and newlines between the tokens.
LEMMA WhitespaceKeeps ==
  ASSUME LexInv, Whitespace
  PROVE  LexInv'
<1>1. /\ mode = "next" /\ i <= Len(text) /\ text[i] \in Blank \cup {"nl"}
      /\ (text[i] \in Blank /\ Advance(1)) \/ (text[i] = "nl" /\ Newline)
      /\ UNCHANGED <<text, mode, start, toks, lexErr>>
  BY DEF Whitespace, Between, AtIn
<1>2. Moved /\ i' = i + 1
  BY <1>1, OneMoves, NewlineMoves DEF Blank
<1>3. ItemsRight(text, toks, i) /\ NoneSkipped(text, toks, i) /\ start.at <= i
  BY <1>1 DEF LexInv
<1>4. i \in Nat /\ i > 0 /\ start.at \in Nat
  BY PlaceNumbers
<1>5. ItemsRight(text, toks, i + 1)
  <2>1. toks \in Seq(ItemSet) /\ \A m \in 1 .. Len(toks) : toks[m].to < i
    BY <1>3 DEF ItemsRight
  <2>2. \A m \in 1 .. Len(toks) : toks[m] \in ItemSet
    BY <2>1, ElementOfSeq
  <2>3. \A m \in 1 .. Len(toks) : toks[m].to \in Nat
    BY <2>2 DEF ItemSet
  <2>4. \A m \in 1 .. Len(toks) : toks[m].to < i + 1
    BY <1>4, <2>1, <2>3
  <2> QED
    BY <1>3, <2>4 DEF ItemsRight
<1>6. NoneSkipped(text, toks, i + 1)
  BY <1>1, <1>3, <1>4, BlankSkipped
<1>7. start.at <= i'
  BY <1>2, <1>3, <1>4
<1> QED
  BY <1>1, <1>2, <1>5, <1>6, <1>7 DEF LexInv, Moved, OpenMode

\* A token of one or two characters.
LEMMA PunctuationKeeps ==
  ASSUME LexInv, Punctuation
  PROVE  LexInv'
<1>1. mode = "next" /\ UNCHANGED <<text, mode, start, lexErr>>
  BY DEF Punctuation, Between
<1>2. i \in Nat /\ Len(text) \in Nat
  BY PlaceNumbers
<1>3. CASE At(i, "(") /\ Push("lparen", Here, i + 1) /\ Advance(1)
  <2>1. i <= Len(text) /\ text[i] # "nl"
    BY <1>3 DEF At
  <2>2. Moved /\ i' = i + 1
    BY <1>3, <2>1, OneMoves
  <2>3. Pushed(Here)
    BY <1>3, <2>2 DEF Pushed, ItemKind
  <2> QED
    BY <1>1, <2>2, <2>3, TokenKeeps DEF Moved
<1>4. CASE At(i, "-") /\ At(i + 1, ">") /\ Push("arrow", Here, i + 2) /\ Advance(2)
  <2>1. i + 1 <= Len(text) /\ text[i] = "-" /\ text[i + 1] = ">"
    BY <1>4 DEF At
  <2>2. i + 2 <= Len(text) + 1 /\ \A j \in i .. i + 2 - 1 : text[j] # "nl"
    <3>1. \A j \in i .. i + 2 - 1 : j = i \/ j = i + 1
      BY <1>2
    <3> QED
      BY <1>2, <2>1, <3>1
  <2>3. Moved /\ i' = i + 2
    BY <1>4, <2>2, AdvanceMoves
  <2>4. Pushed(Here)
    BY <1>4, <2>3 DEF Pushed, ItemKind
  <2> QED
    BY <1>1, <2>3, <2>4, TokenKeeps DEF Moved
<1> QED
  BY <1>3, <1>4 DEF Punctuation

\* A comment of one line begins.
LEMMA OpenLineKeeps ==
  ASSUME LexInv, OpenLineComment
  PROVE  LexInv'
<1>1. /\ mode = "next" /\ i <= Len(text) /\ mode' \in OpenMode /\ start' = Here
      /\ UNCHANGED <<text, i, line, col, toks, lexErr>>
  BY DEF OpenLineComment, Between, AtIn, Begin, Here, OpenMode
<1>2. Moved
  BY <1>1, NoneMoves
<1> QED
  BY <1>1, <1>2, BeginKeeps DEF Moved

\* It goes on to the end of the line.
LEMMA LineCommentKeeps ==
  ASSUME LexInv, LineComment
  PROVE  LexInv'
<1>1. mode = "line" /\ mode \in OpenMode /\ UNCHANGED <<text, start, lexErr>>
  BY DEF LineComment, OpenMode
<1>2. CASE AtIn(i, Char \ {"nl"})
  <2>1. i <= Len(text) /\ text[i] # "nl" /\ Advance(1) /\ UNCHANGED <<mode, toks>>
    BY <1>2 DEF LineComment, AtIn
  <2>2. Moved
    BY <2>1, OneMoves
  <2> QED
    BY <1>1, <2>1, <2>2, ScanKeeps DEF Moved
<1>3. CASE ~AtIn(i, Char \ {"nl"})
  <2>1. Push("comment", start, i) /\ mode' = "next" /\ UNCHANGED <<i, line, col>>
    BY <1>3 DEF LineComment
  <2>2. Moved /\ Pushed(start)
    BY <2>1, NoneMoves DEF Pushed, ItemKind
  <2> QED
    BY <1>1, <2>1, <2>2, CloseKeeps DEF Moved
<1> QED
  BY <1>2, <1>3

\* The three characters that open and close a block comment.
LEMMA OpensMoves ==
  ASSUME LexInv, Opens(i), Advance(3)
  PROVE  Moved /\ i' = i + 3 /\ i <= Len(text)
<1>1. i \in Nat /\ Len(text) \in Nat
  BY PlaceNumbers
<1>2. i + 2 <= Len(text) /\ text[i] # "nl" /\ text[i + 1] # "nl" /\ text[i + 2] # "nl"
  BY DEF Opens, At
<1>3. \A j \in i .. i + 3 - 1 : j = i \/ j = i + 1 \/ j = i + 2
  BY <1>1
<1>4. i + 3 <= Len(text) + 1 /\ \A j \in i .. i + 3 - 1 : text[j] # "nl"
  BY <1>1, <1>2, <1>3
<1> QED
  BY <1>1, <1>2, <1>4, AdvanceMoves

\* A comment of several lines begins.
LEMMA OpenBlockKeeps ==
  ASSUME LexInv, OpenBlockComment
  PROVE  LexInv'
<1>1. /\ mode = "next" /\ Opens(i) /\ Advance(3) /\ mode' \in OpenMode /\ start' = Here
      /\ UNCHANGED <<text, toks, lexErr>>
  BY DEF OpenBlockComment, Between, Begin, Here, OpenMode
<1>2. Moved /\ i <= Len(text)
  BY <1>1, OpensMoves
<1> QED
  BY <1>1, <1>2, BeginKeeps DEF Moved

\* An error reported where the token began.
LEMMA StopAtStart ==
  ASSUME LexInv, mode \in OpenMode, NEW msg, Stop(msg, start.line, start.col)
  PROVE  LexInv'
<1>1. Stands(text, start.at, start.line, start.col) /\ start.at <= Len(text)
  BY DEF LexInv
<1>2. start.at \in 1 .. Len(text)
  BY <1>1, PlaceNumbers DEF Stands
<1> QED
  BY <1>1, <1>2, StopKeeps

\* An error reported at the index.
LEMMA StopHere ==
  ASSUME LexInv, mode \in OpenMode \cup {"next"}, i <= Len(text), NEW msg, Stop(msg, line, col)
  PROVE  LexInv'
<1>1. Stands(text, i, line, col)
  BY DEF LexInv
<1>2. i \in 1 .. Len(text)
  BY PlaceNumbers
<1> QED
  BY <1>1, <1>2, StopKeeps

\* It goes on, over newlines too, until it is closed.
LEMMA BlockCommentKeeps ==
  ASSUME LexInv, BlockComment
  PROVE  LexInv'
<1>1. mode = "block" /\ mode \in OpenMode
  BY DEF BlockComment, OpenMode
<1>2. CASE i > Len(text)
  BY <1>1, <1>2, StopAtStart DEF BlockComment
<1>3. CASE ~(i > Len(text)) /\ Opens(i)
  <2>1. Push("comment", start, i + 3) /\ mode' = "next" /\ Advance(3) /\ UNCHANGED <<text, start, lexErr>>
    BY <1>3 DEF BlockComment
  <2>2. Moved /\ i' = i + 3
    BY <1>3, <2>1, OpensMoves
  <2>3. Pushed(start)
    BY <2>1, <2>2 DEF Pushed, ItemKind
  <2> QED
    BY <1>1, <2>1, <2>2, <2>3, CloseKeeps DEF Moved
<1>4. CASE ~(i > Len(text)) /\ ~Opens(i)
  <2>1. IF text[i] = "nl" THEN Newline ELSE Advance(1)
    BY <1>4 DEF BlockComment
  <2>2. UNCHANGED <<text, mode, start, toks, lexErr>>
    BY <1>4 DEF BlockComment
  <2>3. i <= Len(text)
    BY <1>4, PlaceNumbers
  <2>4. Moved
    BY <2>1, <2>3, OneMoves, NewlineMoves
  <2> QED
    BY <1>1, <2>2, <2>4, ScanKeeps DEF Moved
<1> QED
  BY <1>2, <1>3, <1>4

\* A string begins.
LEMMA OpenStringKeeps ==
  ASSUME LexInv, OpenString
  PROVE  LexInv'
<1>1. /\ mode = "next" /\ i <= Len(text) /\ text[i] # "nl" /\ Advance(1)
      /\ mode' \in OpenMode /\ start' = Here /\ UNCHANGED <<text, toks, lexErr>>
  BY DEF OpenString, Between, At, Begin, Here, OpenMode
<1>2. Moved
  BY <1>1, OneMoves
<1> QED
  BY <1>1, <1>2, BeginKeeps DEF Moved

\* It goes on, an escape at a time, until its quote.
LEMMA StringCharKeeps ==
  ASSUME LexInv, StringChar
  PROVE  LexInv'
<1>1. mode = "string" /\ mode \in OpenMode
  BY DEF StringChar, OpenMode
<1>2. i \in Nat /\ Len(text) \in Nat
  BY PlaceNumbers
<1>3. CASE i > Len(text) \/ At(i, "nl")
  BY <1>1, <1>3, StopAtStart DEF StringChar
<1>4. CASE ~(i > Len(text) \/ At(i, "nl"))
  <2>0. i <= Len(text) /\ text[i] # "nl"
    BY <1>2, <1>4 DEF At
  <2>1. CASE At(i, "quote")
    <3>1. Push("string", start, i + 1) /\ mode' = "next" /\ Advance(1) /\ UNCHANGED <<text, start, lexErr>>
      BY <1>4, <2>1 DEF StringChar
    <3>2. Moved /\ i' = i + 1
      BY <2>0, <3>1, OneMoves
    <3>3. Pushed(start)
      BY <3>1, <3>2 DEF Pushed, ItemKind
    <3> QED
      BY <1>1, <3>1, <3>2, <3>3, CloseKeeps DEF Moved
  <2>2. CASE ~At(i, "quote") /\ At(i, "\\") /\ i + 1 > Len(text)
    BY <1>1, <1>4, <2>2, StopAtStart DEF StringChar
  <2>3. CASE ~At(i, "quote") /\ At(i, "\\") /\ ~(i + 1 > Len(text)) /\ text[i + 1] \notin Escape
    <3>1. Stop("unknown escape", line, col)
      BY <1>4, <2>3 DEF StringChar
    <3> QED
      BY <1>1, <2>0, <3>1, StopHere
  <2>4. CASE ~At(i, "quote") /\ At(i, "\\") /\ ~(i + 1 > Len(text)) /\ text[i + 1] \in Escape
    <3>1. Advance(2) /\ UNCHANGED <<text, mode, start, toks, lexErr>>
      BY <1>4, <2>4 DEF StringChar, SkipEscape
    <3>2. text[i + 1] # "nl"
      BY <2>4 DEF Escape
    <3>3. \A j \in i .. i + 2 - 1 : j = i \/ j = i + 1
      BY <1>2
    <3>4. i + 2 <= Len(text) + 1 /\ \A j \in i .. i + 2 - 1 : text[j] # "nl"
      BY <1>2, <2>0, <2>4, <3>2, <3>3
    <3>5. Moved
      BY <3>1, <3>4, AdvanceMoves
    <3> QED
      BY <1>1, <3>1, <3>5, ScanKeeps DEF Moved
  <2>5. CASE ~At(i, "quote") /\ ~At(i, "\\")
    <3>1. Advance(1) /\ UNCHANGED <<text, mode, start, toks, lexErr>>
      BY <1>4, <2>5 DEF StringChar
    <3>2. Moved
      BY <2>0, <3>1, OneMoves
    <3> QED
      BY <1>1, <3>1, <3>2, ScanKeeps DEF Moved
  <2> QED
    BY <2>1, <2>2, <2>3, <2>4, <2>5
<1> QED
  BY <1>3, <1>4

\* A number or a word begins.
LEMMA OpenNumberKeeps ==
  ASSUME LexInv, OpenNumber \/ OpenWord
  PROVE  LexInv'
<1>1. /\ mode = "next" /\ i <= Len(text) /\ mode' \in OpenMode /\ start' = Here
      /\ UNCHANGED <<text, i, line, col, toks, lexErr>>
  BY DEF OpenNumber, OpenWord, Between, AtIn, Begin, Here, OpenMode
<1>2. Moved
  BY <1>1, NoneMoves
<1> QED
  BY <1>1, <1>2, BeginKeeps DEF Moved

\* The digits of a number, and one point among them.
LEMMA NumberKeeps ==
  ASSUME LexInv, Number
  PROVE  LexInv'
<1>1. mode \in {"digits", "fraction"} /\ mode \in OpenMode
  BY DEF Number, OpenMode
<1>2. CASE At(i, "1")
  <2>1. i <= Len(text) /\ text[i] # "nl" /\ Advance(1) /\ UNCHANGED <<text, mode, start, toks, lexErr>>
    BY <1>2 DEF Number, At
  <2>2. Moved
    BY <2>1, OneMoves
  <2> QED
    BY <1>1, <2>1, <2>2, ScanKeeps DEF Moved
<1>3. CASE ~At(i, "1") /\ mode = "digits" /\ At(i, ".") /\ At(i + 1, "1")
  <2>1. /\ i <= Len(text) /\ text[i] # "nl" /\ Advance(1) /\ mode' \in OpenMode
        /\ UNCHANGED <<text, start, toks, lexErr>>
    BY <1>3 DEF Number, At, OpenMode
  <2>2. Moved
    BY <2>1, OneMoves
  <2> QED
    BY <1>1, <2>1, <2>2, ScanKeeps DEF Moved
<1>4. CASE ~At(i, "1") /\ ~(mode = "digits" /\ At(i, ".") /\ At(i + 1, "1"))
           /\ mode = "digits" /\ i - start.at > MaxDigits
  <2>1. Stop("int too large", start.line, start.col)
    BY <1>4 DEF Number
  <2> QED
    BY <1>1, <2>1, StopAtStart
<1>5. CASE ~At(i, "1") /\ ~(mode = "digits" /\ At(i, ".") /\ At(i + 1, "1"))
           /\ ~(mode = "digits" /\ i - start.at > MaxDigits)
  <2>1. PICK kd : kd = IF mode = "digits" THEN "int" ELSE "float"
    OBVIOUS
  <2>2. kd \in ItemKind /\ kd # "word"
    BY <2>1 DEF ItemKind
  <2>3. Push(kd, start, i) /\ mode' = "next" /\ UNCHANGED <<text, i, line, col, start, lexErr>>
    BY <1>5, <2>1 DEF Number
  <2>4. Moved /\ Pushed(start)
    BY <2>2, <2>3, NoneMoves DEF Pushed
  <2> QED
    BY <1>1, <2>2, <2>3, <2>4, CloseKeeps DEF Moved
<1> QED
  BY <1>2, <1>3, <1>4, <1>5

\* The characters of a word, and the suffix behind them.
LEMMA WordKeeps ==
  ASSUME LexInv, Word
  PROVE  LexInv'
<1>1. mode = "word" /\ mode \in OpenMode /\ UNCHANGED <<text, start, lexErr>>
  BY DEF Word, OpenMode
<1>2. i \in Nat /\ Len(text) \in Nat
  BY PlaceNumbers
<1>3. CASE AtIn(i, WordChar)
  <2>1. i <= Len(text) /\ text[i] # "nl" /\ Advance(1) /\ UNCHANGED <<mode, toks>>
    BY <1>3 DEF Word, AtIn, WordChar, Letter
  <2>2. Moved
    BY <2>1, OneMoves
  <2> QED
    BY <1>1, <2>1, <2>2, ScanKeeps DEF Moved
<1>4. CASE ~AtIn(i, WordChar)
  <2>1. PICK n : n = IF SuffixAt(i) THEN Len(Suffix) ELSE 0
    OBVIOUS
  <2>2. Advance(n) /\ Push("word", start, i + n) /\ mode' = "next"
    BY <1>4, <2>1 DEF Word
  <2>3. Suffix \in Seq(Char \ {"nl"}) /\ Len(Suffix) \in Nat /\ Len(Suffix) > 0
        /\ DOMAIN Suffix = 1 .. Len(Suffix) /\ \A j \in 1 .. Len(Suffix) : Suffix[j] # "nl"
    <3>1. Suffix \in Seq(Char \ {"nl"}) /\ Suffix # <<>>
      BY LexerAssumption DEF LexerAssumption
    <3>2. \A j \in 1 .. Len(Suffix) : Suffix[j] \in Char \ {"nl"}
      BY <3>1, ElementOfSeq
    <3> QED
      BY <3>1, <3>2
  <2>4. n \in Nat /\ i + n <= Len(text) + 1 /\ \A j \in i .. i + n - 1 : text[j] # "nl"
    <3>1. CASE SuffixAt(i)
      <4>1. n \in Nat /\ n > 0 /\ n = Len(Suffix)
        BY <2>1, <2>3, <3>1
      <4>2. \A j \in 1 .. n : i + j - 1 <= Len(text) /\ text[i + j - 1] # "nl"
        BY <2>3, <3>1, <4>1 DEF SuffixAt, At
      <4>3. n \in 1 .. n
        BY <4>1
      <4>4. i + n - 1 <= Len(text)
        BY <4>2, <4>3
      <4>5. ASSUME NEW j \in i .. i + n - 1 PROVE text[j] # "nl"
        <5>1. j - i + 1 \in 1 .. n /\ i + (j - i + 1) - 1 = j
          BY <1>2, <4>1
        <5> QED
          BY <4>2, <5>1
      <4> QED
        BY <1>2, <4>1, <4>4, <4>5
    <3>2. CASE ~SuffixAt(i)
      <4>1. n = 0
        BY <2>1, <3>2
      <4>2. i <= Len(text) + 1
        BY <1>2 DEF LexInv, Stands
      <4> QED
        BY <1>2, <4>1, <4>2
    <3> QED
      BY <3>1, <3>2
  <2>5. Moved /\ i' = i + n
    BY <2>2, <2>4, AdvanceMoves
  <2>6. ~AtIn(i + n, WordChar)
    BY <1>2, <1>4, <2>1 DEF SuffixAt
  <2>7. Pushed(start)
    BY <2>2, <2>5, <2>6 DEF Pushed, ItemKind
  <2> QED
    BY <1>1, <2>2, <2>5, <2>7, CloseKeeps DEF Moved
<1> QED
  BY <1>3, <1>4

\* The end of the text.
LEMMA EofKeeps ==
  ASSUME LexInv, Eof
  PROVE  LexInv'
<1>1. /\ mode = "next" /\ Push("eof", Here, i) /\ mode' \in {"next", "done"}
      /\ UNCHANGED <<text, i, line, col, start, lexErr>>
  BY DEF Eof
<1>2. Moved /\ Pushed(Here)
  BY <1>1, NoneMoves DEF Pushed, ItemKind
<1> QED
  BY <1>1, <1>2, TokenKeeps DEF Moved

\* A character that begins nothing.
LEMMA UnexpectedKeeps ==
  ASSUME LexInv, Unexpected
  PROVE  LexInv'
<1>1. mode \in OpenMode \cup {"next"} /\ i <= Len(text) /\ Stop("unexpected character", line, col)
  BY DEF Unexpected, Between, AtIn
<1> QED
  BY <1>1, StopHere

\* Every step keeps the invariant.
LEMMA LexStep ==
  ASSUME LexInv, [LexNext]_lexVars
  PROVE  LexInv'
<1>1. CASE UNCHANGED lexVars
  BY <1>1 DEF lexVars, LexInv
<1> QED
  BY <1>1, WhitespaceKeeps, PunctuationKeeps, OpenLineKeeps, LineCommentKeeps, OpenBlockKeeps,
     BlockCommentKeeps, OpenStringKeeps, StringCharKeeps, OpenNumberKeeps, NumberKeeps,
     WordKeeps, EofKeeps, UnexpectedKeeps DEF LexNext

\* The items as a set.
LEMMA ItemsAre ==
  ASSUME LexInv
  PROVE  /\ Len(toks) \in Nat
         /\ \A t \in ToSet(toks) : \E m \in 1 .. Len(toks) : t = toks[m]
         /\ \A m \in 1 .. Len(toks) : toks[m] \in ToSet(toks)
<1>1. toks \in Seq(ItemSet)
  BY DEF LexInv, ItemsRight
<1> QED
  BY <1>1 DEF ToSet

\* Every token, comment and error is where its line and column say.
THEOREM PositionsNeverDrift == LexSpec => []PositionsExact
<1>1. ASSUME LexInv PROVE PositionsExact
  <2>1. /\ Len(text) \in Nat /\ Stands(text, i, line, col)
        /\ \E b : ItemsRight(text, toks, b)
    BY <1>1, PlaceNumbers DEF LexInv
  <2>2. \A m \in 1 .. Len(toks) : Stands(text, toks[m].from, toks[m].line, toks[m].col)
    BY <2>1 DEF ItemsRight
  <2>3. \A t \in ToSet(toks) : t.line = LineOf(t.from) /\ t.col = ColOf(t.from)
    BY <1>1, <2>1, <2>2, ItemsAre, StandsThere
  <2>4. i \in 1 .. Len(text) + 1 /\ line = LineOf(i) /\ col = ColOf(i)
    BY <2>1, StandsThere DEF Stands
  <2>5. lexErr # NoError =>
          \E k \in 1 .. Len(text) :
            lexErr.line = LineOf(k) /\ lexErr.col = ColOf(k) /\ k \in {i, start.at}
    BY <1>1, <2>1, StandsThere DEF LexInv
  <2> QED
    BY <2>3, <2>4, <2>5 DEF PositionsExact
<1> QED
  BY <1>1, LexStarts, LexStep, PTL DEF LexSpec

\* The tokens and comments are all of the text but blanks.
THEOREM NothingLost == LexSpec => []NothingSkipped
<1>1. ASSUME LexInv PROVE NothingSkipped
  <2>1. PICK b : ItemsRight(text, toks, b)
    BY <1>1 DEF LexInv
  <2>2. \A m \in 1 .. Len(toks) - 1 : toks[m].to < toks[m + 1].from
    BY <2>1 DEF ItemsRight
  <2>3. mode \in {"next", "done"} =>
          \A k \in 1 .. i - 1 :
            text[k] \in Blank \cup {"nl"} \/ \E t \in ToSet(toks) : k \in t.from .. t.to
    BY <1>1, ItemsAre DEF LexInv, NoneSkipped
  <2>4. \A t \in ToSet(toks) : t.kind = "word" => ~AtIn(t.to + 1, WordChar)
    BY <1>1, <2>1, ItemsAre DEF ItemsRight, AtIn
  <2> QED
    BY <2>2, <2>3, <2>4 DEF NothingSkipped
<1> QED
  BY <1>1, LexStarts, LexStep, PTL DEF LexSpec

(***************************************************************************)
(* The language server.                                                    *)
(***************************************************************************)

\* A set of places has a last one.
LEMMA LastPlace ==
  ASSUME NEW n \in Nat, NEW S \in SUBSET (1 .. n), S # {}
  PROVE  Max(S) \in S
<1>1. PICK T : T = {n - k : k \in S}
  OBVIOUS
<1>2. T \in SUBSET Nat /\ T # {}
  <2>1. \A k \in S : n - k \in Nat
    OBVIOUS
  <2> QED
    BY <1>1, <2>1
<1>3. PICK m \in T : \A k \in T : m <= k
  BY <1>2, LeastNumber
<1>4. PICK x \in S : m = n - x
  BY <1>1, <1>3
<1>5. \A y \in S : x >= y
  <2> SUFFICES ASSUME NEW y \in S PROVE x >= y
    OBVIOUS
  <2>1. n - y \in T
    BY <1>1
  <2>2. n - x <= n - y /\ x \in Nat /\ y \in Nat
    BY <1>3, <1>4, <2>1
  <2> QED
    BY <2>2
<1> QED
  BY <1>5 DEF Max

\* A place behind all others is the last.
LEMMA NewLast ==
  ASSUME NEW n \in Nat, NEW S \in SUBSET (1 .. n)
  PROVE  Max(S \cup {n + 1}) = n + 1
<1>1. PICK B : B = S \cup {n + 1}
  OBVIOUS
<1>2. n + 1 \in B /\ \A y \in B : n + 1 >= y
  BY <1>1
<1>3. \A x \in B : (\A y \in B : x >= y) => x = n + 1
  BY <1>1, <1>2
<1>4. Max(B) = n + 1
  BY <1>2, <1>3 DEF Max
<1> QED
  BY <1>1, <1>4

Sequences == (\E S : sent \in Seq(S)) /\ (\E S : received \in Seq(S))

IdsFresh == \A k \in 1 .. Len(received) : received[k].id \in {0, k}

\* The server's table of documents is what the messages wrote.
TextsKept == \A u : TextOf(u) = TextAt(u, Len(received))

LspInv == Sequences /\ IdsFresh /\ TextsKept /\ AnswersCurrent /\ DiagnosticsCurrent

\* A message behind those of a sequence.
Longer(x, m, y) ==
  /\ (\E S : y \in Seq(S))
  /\ Len(x) \in Nat /\ Len(y) = Len(x) + 1
  /\ DOMAIN x = 1 .. Len(x) /\ DOMAIN y = 1 .. Len(x) + 1
  /\ y[Len(x) + 1] = m /\ \A k \in 1 .. Len(x) : y[k] = x[k]

\* That is what Append and a concatenation make.
LEMMA MadeLonger ==
  ASSUME NEW x, \E S : x \in Seq(S), NEW m
  PROVE  Longer(x, m, Append(x, m)) /\ Longer(x, m, x \o <<m>>)
<1>1. PICK S : x \in Seq(S)
  OBVIOUS
<1>2. PICK T : T = S \cup {m}
  OBVIOUS
<1>3. x \in Seq(T) /\ m \in T
  BY <1>1, <1>2
<1>4. Longer(x, m, Append(x, m))
  <2>1. PICK y : y = Append(x, m)
    OBVIOUS
  <2>2. y \in Seq(T) /\ Len(y) = Len(x) + 1 /\ y[Len(x) + 1] = m /\ \A k \in 1 .. Len(x) : y[k] = x[k]
    BY <1>3, <2>1, AppendProperties
  <2>3. Len(x) \in Nat /\ DOMAIN x = 1 .. Len(x) /\ DOMAIN y = 1 .. Len(y)
    BY <1>3, <2>2
  <2> QED
    BY <2>1, <2>2, <2>3 DEF Longer
<1>5. x \o <<m>> = Append(x, m)
  BY <1>3, AppendIsConcat
<1> QED
  BY <1>4, <1>5

\* Nothing was sent or received before the first message.
LEMMA LspStarts == LspInit => LspInv
<1> SUFFICES ASSUME LspInit PROVE LspInv
  OBVIOUS
<1>1. sent = <<>> /\ received = <<>> /\ <<>> \in Seq({}) /\ DOMAIN <<>> = {} /\ Len(<<>>) = 0
  BY DEF LspInit
<1>2. Responses = {}
  BY <1>1 DEF Responses
<1>3. \A u : About(u, 0) = {} /\ News(u) = {}
  BY <1>1 DEF About, News
<1>4. AnswersCurrent
  BY <1>1, <1>2 DEF AnswersCurrent
<1>5. \A u : TextAt(u, Len(received)) = {}
  BY <1>1, <1>3 DEF TextAt
<1>6. DiagnosticsCurrent
  BY <1>3, <1>5 DEF DiagnosticsCurrent, Shown
<1>7. TextsKept
  BY <1>5 DEF TextsKept, TextOf, LspInit
<1>8. Sequences /\ IdsFresh
  BY <1>1 DEF Sequences, IdsFresh
<1> QED
  BY <1>4, <1>6, <1>7, <1>8 DEF LspInv

\* The message m writes into document u or closes it.
Concerns(m, u) ==
  /\ m.method \in {"didOpen", "didChange", "didClose"}
  /\ m.uri = u
  /\ m.method = "didChange" => m.changes # <<>>

\* A message changes nothing about what was written before it.
LEMMA EarlierText ==
  ASSUME NEW m, NEW u, Longer(received, m, received'), NEW n \in 0 .. Len(received)
  PROVE  TextAt(u, n)' = TextAt(u, n)
<1>1. \A k \in 1 .. n : received'[k] = received[k]
  BY DEF Longer
<1>2. About(u, n)' = About(u, n)
  BY <1>1 DEF About
<1>3. CASE About(u, n) = {}
  BY <1>2, <1>3 DEF TextAt
<1>4. CASE About(u, n) # {}
  <2>1. n \in Nat
    BY DEF Longer
  <2>2. About(u, n) \in SUBSET (1 .. n)
    BY DEF About
  <2>3. Max(About(u, n)) \in 1 .. n
    BY <1>4, <2>1, <2>2, LastPlace
  <2> QED
    BY <1>1, <1>2, <1>4, <2>3 DEF TextAt
<1> QED
  BY <1>3, <1>4

\* What was written into u last, after a message about something else.
LEMMA OtherWritten ==
  ASSUME NEW m, NEW u, Longer(received, m, received'), ~Concerns(m, u),
         NEW n \in Nat, n = Len(received)
  PROVE  TextAt(u, n + 1)' = TextAt(u, n)
<1>1. received'[n + 1] = m
  BY DEF Longer
<1>2. \A k \in 1 .. n + 1 : k = n + 1 \/ k \in 1 .. n
  OBVIOUS
<1>3. \A k \in 1 .. n : k \in 1 .. n + 1
  OBVIOUS
<1>4. About(u, n + 1)' = About(u, n)'
  BY <1>1, <1>2, <1>3 DEF About, Concerns
<1>5. TextAt(u, n + 1)' = TextAt(u, n)'
  BY <1>4 DEF TextAt
<1> QED
  BY <1>5, EarlierText

\* What was written into u last, after a message about it.
LEMMA JustWritten ==
  ASSUME NEW m, NEW u, Longer(received, m, received'), Concerns(m, u),
         NEW n \in Nat, n = Len(received)
  PROVE  TextAt(u, n + 1)' = WrittenBy(m)
<1>1. received'[n + 1] = m
  BY DEF Longer
<1>2. \A k \in 1 .. n + 1 : k = n + 1 \/ k \in 1 .. n
  OBVIOUS
<1>3. n + 1 \in 1 .. n + 1 /\ \A k \in 1 .. n : k \in 1 .. n + 1
  OBVIOUS
<1>4. About(u, n + 1)' = About(u, n)' \cup {n + 1}
  BY <1>1, <1>2, <1>3 DEF About, Concerns
<1>5. About(u, n)' \in SUBSET (1 .. n)
  BY DEF About
<1>6. Max(About(u, n + 1)') = n + 1
  BY <1>4, <1>5, NewLast
<1> QED
  BY <1>1, <1>4, <1>6 DEF TextAt

\* What is shown for u, after something else was sent.
LEMMA OtherShown ==
  ASSUME NEW x, NEW u, Longer(sent, x, sent'), ~("uri" \in DOMAIN x /\ x.uri = u)
  PROVE  Shown(u)' = Shown(u)
<1>1. PICK n \in Nat : n = Len(sent)
  BY DEF Longer
<1>2. /\ DOMAIN sent = 1 .. n /\ DOMAIN sent' = 1 .. n + 1 /\ sent'[n + 1] = x
      /\ \A k \in 1 .. n : sent'[k] = sent[k]
  BY <1>1 DEF Longer
<1>3. \A k \in 1 .. n + 1 : k = n + 1 \/ k \in 1 .. n
  OBVIOUS
<1>4. News(u)' = News(u)
  BY <1>2, <1>3 DEF News
<1>5. CASE News(u) = {}
  BY <1>4, <1>5 DEF Shown
<1>6. CASE News(u) # {}
  <2>1. News(u) \in SUBSET (1 .. n)
    BY <1>2 DEF News
  <2>2. Max(News(u)) \in 1 .. n
    BY <1>6, <2>1, LastPlace
  <2> QED
    BY <1>2, <1>4, <1>6, <2>2 DEF Shown
<1> QED
  BY <1>5, <1>6

\* What is shown for u, after diagnostics for it.
LEMMA JustShown ==
  ASSUME NEW x, NEW u, Longer(sent, x, sent'), "uri" \in DOMAIN x, x.uri = u
  PROVE  Shown(u)' = x.diagnostics
<1>1. PICK n \in Nat : n = Len(sent)
  BY DEF Longer
<1>2. /\ DOMAIN sent = 1 .. n /\ DOMAIN sent' = 1 .. n + 1 /\ sent'[n + 1] = x
      /\ \A k \in 1 .. n : sent'[k] = sent[k]
  BY <1>1 DEF Longer
<1>3. \A k \in 1 .. n + 1 : k = n + 1 \/ k \in 1 .. n
  OBVIOUS
<1>4. News(u)' = News(u) \cup {n + 1}
  BY <1>2, <1>3 DEF News
<1>5. News(u) \in SUBSET (1 .. n)
  BY <1>2 DEF News
<1>6. Max(News(u)') = n + 1
  BY <1>4, <1>5, NewLast
<1> QED
  BY <1>2, <1>4, <1>6 DEF Shown

\* The result r is right for the k-th message.
Current(k, r) ==
  received[k].method \in Asking =>
    r \in Results(received[k].method, TextAt(received[k].uri, k - 1))

\* It is so after the next message if it was before.
LEMMA StaysCurrent ==
  ASSUME NEW m, Longer(received, m, received'), NEW k \in 1 .. Len(received), NEW r, Current(k, r)
  PROVE  Current(k, r)'
<1>1. received'[k] = received[k] /\ k - 1 \in 0 .. Len(received)
  BY DEF Longer
<1>2. PICK u, n : u = received[k].uri /\ n = k - 1
  OBVIOUS
<1>3. TextAt(u, n)' = TextAt(u, n)
  BY <1>1, <1>2, EarlierText
<1> QED
  BY <1>1, <1>2, <1>3 DEF Current

\* The requests of a history that are answered.
Requests(r) == {k \in DOMAIN r : r[k].id # 0 /\ r[k].method \notin Unanswered}

\* A message that is not answered, when nothing or diagnostics are sent.
LEMMA NoticeKeepsOrder ==
  ASSUME Sequences, IdsFresh, AnswersCurrent, NEW m, Longer(received, m, received'),
         m.id \in {0, Len(received) + 1}, m.id = 0 \/ m.method \in Unanswered,
         \/ sent' = sent
         \/ \E x : Longer(sent, x, sent') /\ "to" \notin DOMAIN x
  PROVE  Sequences' /\ IdsFresh' /\ AnswersCurrent'
<1>1. PICK n \in Nat : n = Len(received)
  BY DEF Longer
<1>2. /\ DOMAIN received = 1 .. n /\ DOMAIN received' = 1 .. n + 1 /\ received'[n + 1] = m
      /\ Len(received') = n + 1
      /\ \A k \in 1 .. n : received'[k] = received[k]
  BY <1>1 DEF Longer
<1>3. \A k \in 1 .. n + 1 : k = n + 1 \/ k \in 1 .. n
  OBVIOUS
<1>4. Sequences'
  BY DEF Sequences, Longer
<1>5. IdsFresh'
  BY <1>1, <1>2, <1>3 DEF IdsFresh
<1>6. Requests(received') = Requests(received)
  BY <1>2, <1>3 DEF Requests
<1>7. /\ Responses' = Responses
      /\ \A p \in Responses : sent'[p] = sent[p]
  <2>1. CASE sent' = sent
    BY <2>1 DEF Responses
  <2>2. CASE \E x : Longer(sent, x, sent') /\ "to" \notin DOMAIN x
    <3>1. PICK x : Longer(sent, x, sent') /\ "to" \notin DOMAIN x
      BY <2>2
    <3>2. PICK c \in Nat : c = Len(sent)
      BY <3>1 DEF Longer
    <3>3. /\ DOMAIN sent = 1 .. c /\ DOMAIN sent' = 1 .. c + 1 /\ sent'[c + 1] = x
          /\ \A k \in 1 .. c : sent'[k] = sent[k]
      BY <3>1, <3>2 DEF Longer
    <3>4. \A k \in 1 .. c + 1 : k = c + 1 \/ k \in 1 .. c
      OBVIOUS
    <3> QED
      BY <3>1, <3>3, <3>4 DEF Responses
  <2> QED
    BY <2>1, <2>2
<1>8. {sent[p].to : p \in Responses} = Requests(received)
  BY DEF AnswersCurrent, Requests
<1>9. \A p \in Responses' : Current(sent[p].to, sent[p].result)'
  <2> SUFFICES ASSUME NEW p \in Responses' PROVE Current(sent[p].to, sent[p].result)'
    OBVIOUS
  <2>1. PICK k, r : k = sent[p].to /\ r = sent[p].result
    OBVIOUS
  <2>2. p \in Responses /\ k = sent'[p].to /\ r = sent'[p].result
    BY <1>7, <2>1
  <2>3. k \in Requests(received)
    BY <1>8, <2>1, <2>2
  <2>4. k \in 1 .. Len(received)
    BY <1>1, <1>2, <2>3 DEF Requests
  <2>5. Current(k, r)
    BY <2>1, <2>2 DEF AnswersCurrent, Current
  <2>6. Current(k, r)'
    BY <2>4, <2>5, StaysCurrent
  <2> QED
    BY <2>2, <2>6
<1>10. \A p, q \in Responses' : p < q => sent'[p].to < sent'[q].to
  BY <1>7 DEF AnswersCurrent
<1>11. {sent'[p].to : p \in Responses'} = Requests(received')
  BY <1>6, <1>7, <1>8
<1>12. AnswersCurrent'
  BY <1>9, <1>10, <1>11 DEF AnswersCurrent, Current, Requests
<1> QED
  BY <1>4, <1>5, <1>12

\* A request and the response to it.
LEMMA RequestKeepsOrder ==
  ASSUME Sequences, IdsFresh, AnswersCurrent, NEW m, Longer(received, m, received'),
         m.id = Len(received) + 1, m.method \notin Unanswered,
         NEW x, Longer(sent, x, sent'), "to" \in DOMAIN x, x.to = m.id,
         m.method \in Asking => x.result \in Results(m.method, TextAt(m.uri, Len(received)))
  PROVE  Sequences' /\ IdsFresh' /\ AnswersCurrent'
<1>1. PICK n \in Nat : n = Len(received)
  BY DEF Longer
<1>2. /\ DOMAIN received = 1 .. n /\ DOMAIN received' = 1 .. n + 1 /\ received'[n + 1] = m
      /\ Len(received') = n + 1
      /\ \A k \in 1 .. n : received'[k] = received[k]
  BY <1>1 DEF Longer
<1>3. \A k \in 1 .. n + 1 : k = n + 1 \/ k \in 1 .. n
  OBVIOUS
<1>4. Sequences'
  BY DEF Sequences, Longer
<1>5. IdsFresh'
  BY <1>1, <1>2, <1>3 DEF IdsFresh
<1>6. Requests(received') = Requests(received) \cup {n + 1}
  <2>1. n + 1 # 0 /\ m.id # 0
    BY <1>1
  <2> QED
    BY <1>2, <1>3, <2>1 DEF Requests
<1>7. PICK c \in Nat : c = Len(sent)
  BY DEF Longer
<1>8. /\ DOMAIN sent = 1 .. c /\ DOMAIN sent' = 1 .. c + 1 /\ sent'[c + 1] = x
      /\ \A k \in 1 .. c : sent'[k] = sent[k]
  BY <1>7 DEF Longer
<1>9. \A k \in 1 .. c + 1 : k = c + 1 \/ k \in 1 .. c
  OBVIOUS
<1>10. /\ Responses' = Responses \cup {c + 1} /\ Responses \subseteq 1 .. c
       /\ \A p \in Responses : sent'[p] = sent[p]
       /\ sent'[c + 1] = x /\ x.to = n + 1
  BY <1>1, <1>8, <1>9 DEF Responses
<1>11. {sent[p].to : p \in Responses} = Requests(received)
  BY DEF AnswersCurrent, Requests
<1>12. \A p \in Responses : sent[p].to \in 1 .. n
  BY <1>2, <1>11 DEF Requests
<1>13. \A p, q \in Responses' : p < q => sent'[p].to < sent'[q].to
  <2> SUFFICES ASSUME NEW p \in Responses', NEW q \in Responses', p < q
               PROVE  sent'[p].to < sent'[q].to
    OBVIOUS
  <2>1. p \in Responses
    BY <1>10
  <2>2. CASE q = c + 1
    BY <1>10, <1>12, <2>1, <2>2
  <2>3. CASE q # c + 1
    <3>1. q \in Responses
      BY <1>10, <2>3
    <3> QED
      BY <1>10, <2>1, <3>1 DEF AnswersCurrent
  <2> QED
    BY <2>2, <2>3
<1>14. {sent'[p].to : p \in Responses'} = Requests(received')
  <2>1. {sent'[p].to : p \in Responses'} = {sent[p].to : p \in Responses} \cup {n + 1}
    BY <1>10
  <2> QED
    BY <1>6, <1>11, <2>1
<1>15. \A p \in Responses' : Current(sent[p].to, sent[p].result)'
  <2> SUFFICES ASSUME NEW p \in Responses' PROVE Current(sent[p].to, sent[p].result)'
    OBVIOUS
  <2>1. PICK k, r : k = sent'[p].to /\ r = sent'[p].result
    OBVIOUS
  <2>2. CASE p = c + 1
    <3>1. k = n + 1 /\ r = x.result
      BY <1>10, <2>1, <2>2
    <3>2. m.method \in Asking => r \in Results(m.method, TextAt(m.uri, n)')
      <4>1. n \in 0 .. Len(received)
        BY <1>1
      <4>2. PICK u : u = m.uri
        OBVIOUS
      <4>3. TextAt(u, n)' = TextAt(u, n)
        BY <4>1, EarlierText
      <4> QED
        BY <1>1, <3>1, <4>2, <4>3
    <3>3. k - 1 = n /\ received'[k] = m
      BY <1>2, <3>1
    <3>4. Current(k, r)'
      BY <3>2, <3>3 DEF Current
    <3> QED
      BY <2>1, <3>4
  <2>3. CASE p # c + 1
    <3>1. p \in Responses /\ k = sent[p].to /\ r = sent[p].result
      BY <1>10, <2>1, <2>3
    <3>2. k \in 1 .. Len(received)
      BY <1>1, <1>12, <3>1
    <3>3. Current(k, r)
      BY <3>1 DEF AnswersCurrent, Current
    <3>4. Current(k, r)'
      BY <3>2, <3>3, StaysCurrent
    <3> QED
      BY <2>1, <3>4
  <2> QED
    BY <2>2, <2>3
<1>16. AnswersCurrent'
  BY <1>13, <1>14, <1>15 DEF AnswersCurrent, Current, Requests
<1> QED
  BY <1>4, <1>5, <1>16

\* A message that writes nothing.
Plain(m) ==
  /\ m.id \in {0, Len(received) + 1}
  /\ \A u : ~Concerns(m, u)
  /\ Receive(m)
  /\ UNCHANGED docs
  /\ IF m.id = 0 \/ m.method \in Unanswered THEN sent' = sent
     ELSE \E r : /\ sent' = sent \o <<[to |-> m.id, result |-> r]>>
                 /\ m.method \in Asking => r \in Results(m.method, TextOf(m.uri))

\* A message that writes nothing keeps the invariant.
LEMMA PlainKeeps ==
  ASSUME LspInv, NEW m, Plain(m)
  PROVE  LspInv'
<1>1. Longer(received, m, received')
  BY MadeLonger DEF LspInv, Sequences, Plain, Receive
<1>2. PICK n \in Nat : n = Len(received) /\ Len(received') = n + 1
  BY <1>1 DEF Longer
<1>3. \A u : TextAt(u, n + 1)' = TextAt(u, n)
  BY <1>1, <1>2, OtherWritten DEF Plain
<1>4. TextsKept'
  <2> SUFFICES ASSUME NEW u PROVE TextOf(u)' = TextAt(u, Len(received))'
    BY DEF TextsKept
  <2>1. TextOf(u)' = TextOf(u)
    BY DEF Plain, TextOf
  <2>2. TextOf(u) = TextAt(u, n)
    BY <1>2 DEF LspInv, TextsKept
  <2>3. TextAt(u, Len(received))' = TextAt(u, n + 1)'
    BY <1>2
  <2> QED
    BY <1>3, <2>1, <2>2, <2>3
<1>5. \A u : (Shown(u)' = Shown(u)) => 
         IF TextAt(u, Len(received))' = {} THEN u \in Doc => Shown(u)' = <<>>
         ELSE \A t \in TextAt(u, Len(received))' : u \in Doc => Shown(u)' = Diagnostics(t)
  <2> SUFFICES ASSUME NEW u, Shown(u)' = Shown(u)
               PROVE  IF TextAt(u, Len(received))' = {} THEN u \in Doc => Shown(u)' = <<>>
                      ELSE \A t \in TextAt(u, Len(received))' : u \in Doc => Shown(u)' = Diagnostics(t)
    OBVIOUS
  <2>1. TextAt(u, Len(received))' = TextAt(u, Len(received))
    BY <1>2, <1>3
  <2> QED
    BY <2>1 DEF LspInv, DiagnosticsCurrent
<1>6. CASE m.id = 0 \/ m.method \in Unanswered
  <2>1. sent' = sent
    BY <1>6 DEF Plain
  <2>2. Sequences' /\ IdsFresh' /\ AnswersCurrent'
    BY <1>1, <1>6, <2>1, NoticeKeepsOrder DEF LspInv, Plain
  <2>3. \A u : Shown(u)' = Shown(u)
    BY <2>1 DEF Shown, News
  <2>4. DiagnosticsCurrent'
    BY <1>5, <2>3 DEF DiagnosticsCurrent, Diagnostics
  <2> QED
    BY <1>4, <2>2, <2>4 DEF LspInv
<1>7. CASE ~(m.id = 0 \/ m.method \in Unanswered)
  <2>1. PICK r : /\ sent' = sent \o <<[to |-> m.id, result |-> r]>>
                 /\ m.method \in Asking => r \in Results(m.method, TextOf(m.uri))
    BY <1>7 DEF Plain
  <2>2. PICK x : x = [to |-> m.id, result |-> r]
    OBVIOUS
  <2>3. Longer(sent, x, sent')
    BY <2>1, <2>2, MadeLonger DEF LspInv, Sequences
  <2>4. "to" \in DOMAIN x /\ x.to = m.id /\ x.result = r /\ "uri" \notin DOMAIN x
    BY <2>2
  <2>5. m.id = Len(received) + 1 /\ m.method \notin Unanswered
    BY <1>7 DEF Plain
  <2>6. m.method \in Asking => x.result \in Results(m.method, TextAt(m.uri, Len(received)))
    BY <2>1, <2>4 DEF LspInv, TextsKept
  <2>7. Sequences' /\ IdsFresh' /\ AnswersCurrent'
    BY <1>1, <2>3, <2>4, <2>5, <2>6, RequestKeepsOrder DEF LspInv
  <2>8. \A u : Shown(u)' = Shown(u)
    BY <2>3, <2>4, OtherShown
  <2>9. DiagnosticsCurrent'
    BY <1>5, <2>8 DEF DiagnosticsCurrent, Diagnostics
  <2> QED
    BY <1>4, <2>7, <2>9 DEF LspInv
<1> QED
  BY <1>6, <1>7

\* A message that writes into document v or closes it.
Writes(m, v) ==
  /\ m.id \in {0, Len(received) + 1}
  /\ Concerns(m, v)
  /\ Receive(m)
  /\ \A u : TextOf(u)' = IF u = v THEN WrittenBy(m) ELSE TextOf(u)
  /\ \E d : /\ sent' = sent \o Publish(v, d)
            /\ IF WrittenBy(m) = {} THEN d = <<>> ELSE \A t \in WrittenBy(m) : d = Diagnostics(t)

\* So does one that writes: the diagnostics sent are of the text written.
LEMMA WritesKeeps ==
  ASSUME LspInv, NEW m, NEW v, Writes(m, v)
  PROVE  LspInv'
<1>1. Longer(received, m, received')
  BY MadeLonger DEF LspInv, Sequences, Writes, Receive
<1>2. PICK d : /\ sent' = sent \o Publish(v, d)
               /\ IF WrittenBy(m) = {} THEN d = <<>> ELSE \A t \in WrittenBy(m) : d = Diagnostics(t)
  BY DEF Writes
<1>3. PICK x : x = [uri |-> v, diagnostics |-> d]
  OBVIOUS
<1>4. Longer(sent, x, sent')
  BY <1>2, <1>3, MadeLonger DEF LspInv, Sequences, Publish
<1>5. "to" \notin DOMAIN x /\ "uri" \in DOMAIN x /\ x.uri = v /\ x.diagnostics = d
  BY <1>3
<1>6. Sequences' /\ IdsFresh' /\ AnswersCurrent'
  <2>1. m.method \in Unanswered
    BY DEF Writes, Concerns, Unanswered
  <2> QED
    BY <1>1, <1>4, <1>5, <2>1, NoticeKeepsOrder DEF LspInv, Writes
<1>7. PICK n \in Nat : n = Len(received) /\ Len(received') = n + 1
  BY <1>1 DEF Longer
<1>8. \A u : TextAt(u, Len(received))' = IF u = v THEN WrittenBy(m) ELSE TextAt(u, Len(received))
  <2> SUFFICES ASSUME NEW u
               PROVE  TextAt(u, Len(received))' = IF u = v THEN WrittenBy(m) ELSE TextAt(u, Len(received))
    OBVIOUS
  <2>1. TextAt(u, Len(received))' = TextAt(u, n + 1)'
    BY <1>7
  <2>2. CASE u = v
    <3>1. TextAt(u, n + 1)' = WrittenBy(m)
      BY <1>1, <1>7, <2>2, JustWritten DEF Writes
    <3> QED
      BY <2>1, <2>2, <3>1
  <2>3. CASE u # v
    <3>1. ~Concerns(m, u)
      BY <2>3 DEF Writes, Concerns
    <3>2. TextAt(u, n + 1)' = TextAt(u, n)
      BY <1>1, <1>7, <3>1, OtherWritten
    <3> QED
      BY <1>7, <2>1, <2>3, <3>2
  <2> QED
    BY <2>2, <2>3
<1>9. TextsKept'
  BY <1>8 DEF LspInv, TextsKept, Writes
<1>10. DiagnosticsCurrent'
  <2> SUFFICES ASSUME NEW u \in Doc
               PROVE  IF TextAt(u, Len(received))' = {} THEN Shown(u)' = <<>>
                      ELSE \A t \in TextAt(u, Len(received))' : Shown(u)' = Diagnostics(t)
    BY DEF DiagnosticsCurrent, Diagnostics
  <2>1. CASE u = v
    <3>1. Shown(u)' = d
      BY <1>4, <1>5, <2>1, JustShown
    <3> QED
      BY <1>2, <1>8, <2>1, <3>1
  <2>2. CASE u # v
    <3>1. Shown(u)' = Shown(u)
      BY <1>4, <1>5, <2>2, OtherShown
    <3> QED
      BY <1>8, <2>2, <3>1 DEF LspInv, DiagnosticsCurrent
  <2> QED
    BY <2>1, <2>2
<1> QED
  BY <1>6, <1>9, <1>10 DEF LspInv

\* A request or notification that is answered from what there is.
LEMMA AnswerKeeps ==
  ASSUME LspInv, NEW m, m.id \in Ids, NEW r, Answer(m, r), UNCHANGED docs,
         m.method \notin Unanswered,
         m.method \in Asking => r \in Results(m.method, TextOf(m.uri))
  PROVE  LspInv'
<1>1. \A u : ~Concerns(m, u)
  BY DEF Concerns, Unanswered
<1>2. Receive(m) /\ sent' = sent \o Response(m.id, r)
  BY DEF Answer
<1>3. m.id = 0 => sent' = sent
  BY <1>2 DEF Response, LspInv, Sequences
<1>4. m.id # 0 => sent' = sent \o <<[to |-> m.id, result |-> r]>>
  BY <1>2 DEF Response
<1>5. Plain(m)
  BY <1>1, <1>2, <1>3, <1>4 DEF Plain, Ids, Fresh
<1> QED
  BY <1>5, PlainKeeps

\* A message that is answered always in the same way.
LEMMA FixedKeeps ==
  ASSUME LspInv, NEW id \in Ids, NEW method \in {"initialize", "shutdown", "unknown"}, NEW r,
         Answer([method |-> method, id |-> id], r), UNCHANGED docs
  PROVE  LspInv'
<1>1. PICK m : m = [method |-> method, id |-> id]
  OBVIOUS
<1>2. m.id \in Ids /\ m.method \notin Unanswered /\ m.method \notin Asking
  BY <1>1 DEF Unanswered, Asking
<1> QED
  BY <1>1, <1>2, AnswerKeeps

\* A question about a document.
LEMMA AskAboutKeeps ==
  ASSUME LspInv, NEW u, NEW id \in Ids, NEW method \in Asking, AskAbout(method, u, id)
  PROVE  LspInv'
<1>1. PICK m : m = [method |-> method, id |-> id, uri |-> u]
  OBVIOUS
<1>2. m.id \in Ids /\ m.method = method /\ m.uri = u /\ m.method \notin Unanswered
  BY <1>1 DEF Unanswered, Asking
<1>3. PICK r \in Results(m.method, TextOf(m.uri)) : Answer(m, r)
  BY <1>1, <1>2 DEF AskAbout
<1>4. UNCHANGED docs
  BY DEF AskAbout
<1> QED
  BY <1>2, <1>3, <1>4, AnswerKeeps

\* A message left unanswered that writes nothing.
LEMMA IgnoreKeeps ==
  ASSUME LspInv, NEW id \in Ids, Exit(id) \/ \E method \in {"initialized", ""} : Ignore(method, id)
  PROVE  LspInv'
<1>1. PICK method \in {"exit", "initialized", ""} : Receive([method |-> method, id |-> id])
  BY DEF Exit, Ignore
<1>2. PICK m : m = [method |-> method, id |-> id]
  OBVIOUS
<1>3. m.id = id /\ m.method \in Unanswered /\ \A u : ~Concerns(m, u)
  BY <1>1, <1>2 DEF Unanswered, Concerns
<1>4. UNCHANGED docs /\ sent' = sent
  BY DEF Exit, Ignore
<1>5. Plain(m)
  BY <1>1, <1>2, <1>3, <1>4 DEF Plain, Ids, Fresh
<1> QED
  BY <1>5, PlainKeeps

\* What a text kept leaves in the table.
LEMMA KeptText ==
  ASSUME NEW u, NEW t, docs' = KeepText(u, t), NEW w
  PROVE  TextOf(w)' = IF w = u THEN {t} ELSE TextOf(w)
<1>1. DOMAIN docs' = DOMAIN docs \cup {u}
  BY DEF KeepText
<1>2. \A y \in DOMAIN docs' : docs'[y] = IF y = u THEN t ELSE docs[y]
  BY DEF KeepText
<1> QED
  BY <1>1, <1>2 DEF TextOf

\* A text is opened.
LEMMA DidOpenKeeps ==
  ASSUME LspInv, NEW u, NEW t, NEW id \in Ids, DidOpen(u, t, id)
  PROVE  LspInv'
<1>1. PICK m : m = [method |-> "didOpen", id |-> id, uri |-> u, text |-> t]
  OBVIOUS
<1>2. m.id = id /\ m.uri = u /\ m.method = "didOpen" /\ m.text = t
  BY <1>1
<1>3. WrittenBy(m) = {t}
  BY <1>2 DEF WrittenBy
<1>4. Receive(m) /\ sent' = sent \o Publish(u, Diagnostics(t)) /\ docs' = KeepText(u, t)
  BY <1>1 DEF DidOpen
<1>5. \A w : TextOf(w)' = IF w = u THEN WrittenBy(m) ELSE TextOf(w)
  BY <1>3, <1>4, KeptText
<1>6. Writes(m, u)
  BY <1>2, <1>3, <1>4, <1>5 DEF Writes, Concerns, Ids, Fresh
<1> QED
  BY <1>6, WritesKeeps

\* A text is changed.
LEMMA DidChangeKeeps ==
  ASSUME LspInv, NEW u, NEW changes, NEW id \in Ids, DidChange(u, changes, id)
  PROVE  LspInv'
<1>1. PICK m : m = [method |-> "didChange", id |-> id, uri |-> u, changes |-> changes]
  OBVIOUS
<1>2. m.id = id /\ m.uri = u /\ m.method = "didChange" /\ m.changes = changes
  BY <1>1
<1>3. Receive(m)
  BY <1>1 DEF DidChange
<1>4. CASE changes = <<>>
  <2>1. m.method \in Unanswered /\ \A w : ~Concerns(m, w)
    BY <1>2, <1>4 DEF Unanswered, Concerns
  <2>2. Plain(m)
    BY <1>2, <1>3, <1>4, <2>1 DEF Plain, DidChange, Ids, Fresh
  <2> QED
    BY <2>2, PlainKeeps
<1>5. CASE changes # <<>>
  <2>1. PICK t : t = changes[Len(changes)]
    OBVIOUS
  <2>2. sent' = sent \o Publish(u, Diagnostics(t)) /\ docs' = KeepText(u, t)
    BY <1>5, <2>1 DEF DidChange, Change
  <2>3. WrittenBy(m) = {t}
    BY <1>2, <2>1 DEF WrittenBy
  <2>4. \A w : TextOf(w)' = IF w = u THEN WrittenBy(m) ELSE TextOf(w)
    BY <2>2, <2>3, KeptText
  <2>5. Writes(m, u)
    BY <1>2, <1>3, <1>5, <2>2, <2>3, <2>4 DEF Writes, Concerns, Ids, Fresh
  <2> QED
    BY <2>5, WritesKeeps
<1> QED
  BY <1>4, <1>5

\* A text is closed.
LEMMA DidCloseKeeps ==
  ASSUME LspInv, NEW u, NEW id \in Ids, DidClose(u, id)
  PROVE  LspInv'
<1>1. PICK m : m = [method |-> "didClose", id |-> id, uri |-> u]
  OBVIOUS
<1>2. m.id = id /\ m.uri = u /\ m.method = "didClose"
  BY <1>1
<1>3. WrittenBy(m) = {}
  BY <1>2 DEF WrittenBy
<1>4. Receive(m) /\ sent' = sent \o Publish(u, <<>>)
  BY <1>1 DEF DidClose
<1>5. \A w : TextOf(w)' = IF w = u THEN WrittenBy(m) ELSE TextOf(w)
  <2>1. docs' = [x \in DOMAIN docs \ {u} |-> docs[x]]
    BY DEF DidClose, Restrict
  <2>2. DOMAIN docs' = DOMAIN docs \ {u} /\ \A x \in DOMAIN docs' : docs'[x] = docs[x]
    BY <2>1
  <2> QED
    BY <1>3, <2>2 DEF TextOf
<1>6. Writes(m, u)
  BY <1>2, <1>3, <1>4, <1>5 DEF Writes, Concerns, Ids, Fresh
<1> QED
  BY <1>6, WritesKeeps

\* Nothing is received and nothing sent.
LEMMA StillKeeps ==
  ASSUME LspInv, UNCHANGED <<docs, sent, received>>
  PROVE  LspInv'
<1>1. sent' = sent /\ received' = received /\ docs' = docs
  OBVIOUS
<1>2. \A u, n : TextAt(u, n)' = TextAt(u, n)
  BY <1>1 DEF TextAt, About
<1>3. Sequences'
  BY <1>1 DEF LspInv, Sequences
<1>4. IdsFresh'
  BY <1>1 DEF LspInv, IdsFresh
<1>5. AnswersCurrent'
  BY <1>1, <1>2 DEF LspInv, AnswersCurrent, Responses
<1>6. TextsKept'
  BY <1>1, <1>2 DEF LspInv, TextsKept, TextOf
<1>7. DiagnosticsCurrent'
  <2>1. \A u : Shown(u)' = Shown(u)
    BY <1>1 DEF Shown, News
  <2> QED
    BY <1>1, <1>2, <2>1 DEF LspInv, DiagnosticsCurrent
<1> QED
  BY <1>3, <1>4, <1>5, <1>6, <1>7 DEF LspInv

\* Every message keeps the invariant.
LEMMA LspStep ==
  ASSUME LspInv, [LspNext]_lspVars
  PROVE  LspInv'
<1>1. CASE EndOfInput \/ UNCHANGED lspVars
  BY <1>1, StillKeeps DEF EndOfInput, lspVars
<1>2. ASSUME NEW id \in Ids, NEW u \in Doc, NEW method \in Asking, AskAbout(method, u, id)
      PROVE  LspInv'
  BY <1>2, AskAboutKeeps
<1>3. ASSUME NEW id \in Ids, Initialize(id) \/ Shutdown(id) \/ Unknown(id)
      PROVE  LspInv'
  <2>1. CASE Initialize(id)
    BY <2>1, FixedKeeps DEF Initialize
  <2>2. CASE Shutdown(id)
    BY <2>2, FixedKeeps DEF Shutdown
  <2>3. CASE Unknown(id)
    BY <2>3, FixedKeeps DEF Unknown
  <2> QED
    BY <1>3, <2>1, <2>2, <2>3
<1> QED
  BY <1>1, <1>2, <1>3, IgnoreKeeps, DidOpenKeeps, DidChangeKeeps, DidCloseKeeps DEF LspNext

\* In any session every request but those of an unanswered method is
\* answered once and in order, and what an answer says of a document it says
\* of the text the editor had written when it asked.
THEOREM AnswersAreCurrent == LspSpec => []AnswersCurrent
<1>1. LspInv => AnswersCurrent
  BY DEF LspInv
<1> QED
  BY <1>1, LspStarts, LspStep, PTL DEF LspSpec

\* The editor shows the diagnostics of the text it wrote last, for any
\* session of messages about any documents.
THEOREM DiagnosticsShown == LspSpec => []DiagnosticsCurrent
<1>1. LspInv => DiagnosticsCurrent
  BY DEF LspInv
<1> QED
  BY <1>1, LspStarts, LspStep, PTL DEF LspSpec

(***************************************************************************)
(* The read-eval-print loop.                                               *)
(***************************************************************************)
\* The depths after each of the first N lines.
Depths(s, N, f) ==
  f = [n \in 0 .. N |-> IF n = 0 THEN 0 ELSE Plus(f[n - 1], s[n])]

(* They exist for as many lines as are asked for.                          *)
LEMMA DepthsExist ==
  ASSUME NEW s, NEW N \in Nat
  PROVE  \E f : Depths(s, N, f)
<1> DEFINE S == {n \in Nat : ~ \E f : Depths(s, n, f)}
<1>1. SUFFICES ASSUME S # {}
               PROVE  FALSE
  OBVIOUS
<1>2. PICK m \in S : \A k \in S : m <= k
  BY <1>1, LeastNumber
<1>3. CASE m = 0
  <2>1. PICK v : v = 0
    OBVIOUS
  <2> DEFINE f == [n \in 0 .. 0 |-> v]
  <2>2. Depths(s, 0, f)
    BY <2>1 DEF Depths
  <2> QED
    BY <1>3, <2>2
<1>4. CASE m > 0
  <2>1. m - 1 \in Nat /\ m - 1 \notin S
    BY <1>2, <1>4
  <2>2. PICK h : Depths(s, m - 1, h)
    BY <2>1
  <2>3. PICK v : v = IF m = 0 THEN 0 ELSE Plus(h[m - 1], s[m])
    OBVIOUS
  <2> DEFINE f == [n \in 0 .. m |-> IF n = m THEN v ELSE h[n]]
  <2>4. ASSUME NEW n \in 0 .. m
        PROVE  f[n] = IF n = 0 THEN 0 ELSE Plus(f[n - 1], s[n])
    <3>1. CASE n = m
      <4>1. n # 0 => n - 1 \in 0 .. m /\ n - 1 # m
        BY <1>4, <3>1
      <4> QED
        BY <2>3, <3>1, <4>1
    <3>2. CASE n # m
      <4>1. n \in 0 .. m - 1 /\ (n # 0 => n - 1 \in 0 .. m /\ n - 1 # m)
        BY <3>2
      <4>2. h[n] = IF n = 0 THEN 0 ELSE Plus(h[n - 1], s[n])
        BY <2>2, <4>1 DEF Depths
      <4>3. f[n] = h[n] /\ (n # 0 => f[n - 1] = h[n - 1])
        BY <3>2, <4>1
      <4> QED
        BY <4>2, <4>3
    <3> QED
      BY <3>1, <3>2
  <2>5. Depths(s, m, f)
    BY <2>4 DEF Depths
  <2> QED
    BY <2>5
<1> QED
  BY <1>3, <1>4

\* What each of the first N statements leaves, run from the values e.
Effects(e, s, N, f) ==
  f = [n \in 0 .. N |-> IF n = 0 THEN Untouched(e) ELSE Effect(e, f[n - 1], s[n])]

(* They exist for as many statements as are asked for.                     *)
LEMMA EffectsExist ==
  ASSUME NEW e, NEW s, NEW N \in Nat
  PROVE  \E f : Effects(e, s, N, f)
<1> DEFINE S == {n \in Nat : ~ \E f : Effects(e, s, n, f)}
<1>1. SUFFICES ASSUME S # {}
               PROVE  FALSE
  OBVIOUS
<1>2. PICK m \in S : \A k \in S : m <= k
  BY <1>1, LeastNumber
<1>3. CASE m = 0
  <2>1. PICK v : v = Untouched(e)
    OBVIOUS
  <2> DEFINE f == [n \in 0 .. 0 |-> v]
  <2>2. Effects(e, s, 0, f)
    BY <2>1 DEF Effects
  <2> QED
    BY <1>3, <2>2
<1>4. CASE m > 0
  <2>1. m - 1 \in Nat /\ m - 1 \notin S
    BY <1>2, <1>4
  <2>2. PICK h : Effects(e, s, m - 1, h)
    BY <2>1
  <2>3. PICK v : v = IF m = 0 THEN Untouched(e) ELSE Effect(e, h[m - 1], s[m])
    OBVIOUS
  <2> DEFINE f == [n \in 0 .. m |-> IF n = m THEN v ELSE h[n]]
  <2>4. ASSUME NEW n \in 0 .. m
        PROVE  f[n] = IF n = 0 THEN Untouched(e) ELSE Effect(e, f[n - 1], s[n])
    <3>1. CASE n = m
      <4>1. n # 0 => n - 1 \in 0 .. m /\ n - 1 # m
        BY <1>4, <3>1
      <4> QED
        BY <2>3, <3>1, <4>1
    <3>2. CASE n # m
      <4>1. n \in 0 .. m - 1 /\ (n # 0 => n - 1 \in 0 .. m /\ n - 1 # m)
        BY <3>2
      <4>2. h[n] = IF n = 0 THEN Untouched(e) ELSE Effect(e, h[n - 1], s[n])
        BY <2>2, <4>1 DEF Effects
      <4>3. f[n] = h[n] /\ (n # 0 => f[n - 1] = h[n - 1])
        BY <3>2, <4>1
      <4> QED
        BY <4>2, <4>3
    <3> QED
      BY <3>1, <3>2
  <2>5. Effects(e, s, m, f)
    BY <2>4 DEF Effects
  <2> QED
    BY <2>5
<1> QED
  BY <1>3, <1>4

\* What is parsed after each of the first N lines.
Readings(s, N, f) ==
  f = [n \in 0 .. N |-> IF n = 0 THEN [depth |-> 0, sound |-> TRUE, stmts |-> <<>>] ELSE ReadLine(f[n - 1], s[n])]

(* They exist for as many lines as are asked for.                          *)
LEMMA ReadingsExist ==
  ASSUME NEW s, NEW N \in Nat
  PROVE  \E f : Readings(s, N, f)
<1> DEFINE S == {n \in Nat : ~ \E f : Readings(s, n, f)}
<1>1. SUFFICES ASSUME S # {}
               PROVE  FALSE
  OBVIOUS
<1>2. PICK m \in S : \A k \in S : m <= k
  BY <1>1, LeastNumber
<1>3. CASE m = 0
  <2>1. PICK v : v = [depth |-> 0, sound |-> TRUE, stmts |-> <<>>]
    OBVIOUS
  <2> DEFINE f == [n \in 0 .. 0 |-> v]
  <2>2. Readings(s, 0, f)
    BY <2>1 DEF Readings
  <2> QED
    BY <1>3, <2>2
<1>4. CASE m > 0
  <2>1. m - 1 \in Nat /\ m - 1 \notin S
    BY <1>2, <1>4
  <2>2. PICK h : Readings(s, m - 1, h)
    BY <2>1
  <2>3. PICK v : v = IF m = 0 THEN [depth |-> 0, sound |-> TRUE, stmts |-> <<>>] ELSE ReadLine(h[m - 1], s[m])
    OBVIOUS
  <2> DEFINE f == [n \in 0 .. m |-> IF n = m THEN v ELSE h[n]]
  <2>4. ASSUME NEW n \in 0 .. m
        PROVE  f[n] = IF n = 0 THEN [depth |-> 0, sound |-> TRUE, stmts |-> <<>>] ELSE ReadLine(f[n - 1], s[n])
    <3>1. CASE n = m
      <4>1. n # 0 => n - 1 \in 0 .. m /\ n - 1 # m
        BY <1>4, <3>1
      <4> QED
        BY <2>3, <3>1, <4>1
    <3>2. CASE n # m
      <4>1. n \in 0 .. m - 1 /\ (n # 0 => n - 1 \in 0 .. m /\ n - 1 # m)
        BY <3>2
      <4>2. h[n] = IF n = 0 THEN [depth |-> 0, sound |-> TRUE, stmts |-> <<>>] ELSE ReadLine(h[n - 1], s[n])
        BY <2>2, <4>1 DEF Readings
      <4>3. f[n] = h[n] /\ (n # 0 => f[n - 1] = h[n - 1])
        BY <3>2, <4>1
      <4> QED
        BY <4>2, <4>3
    <3> QED
      BY <3>1, <3>2
  <2>5. Readings(s, m, f)
    BY <2>4 DEF Readings
  <2> QED
    BY <2>5
<1> QED
  BY <1>3, <1>4

\* The first, the first two, ... of the sequences of s joined.
Joins(s, N, f) ==
  f = [n \in 1 .. N |-> IF n = 1 THEN s[n] ELSE f[n - 1] \o s[n]]

(* They exist for as many sequences as are asked for.                      *)
LEMMA JoinsExist ==
  ASSUME NEW s, NEW N \in Nat
  PROVE  \E f : Joins(s, N, f)
<1> DEFINE S == {n \in Nat : ~ \E f : Joins(s, n, f)}
<1>1. SUFFICES ASSUME S # {}
               PROVE  FALSE
  OBVIOUS
<1>2. PICK m \in S : \A k \in S : m <= k
  BY <1>1, LeastNumber
<1>3. CASE m = 0
  <2>1. PICK v : v = s[0]
    OBVIOUS
  <2> DEFINE f == [n \in 1 .. 0 |-> v]
  <2>2. Joins(s, 0, f)
    BY <2>1 DEF Joins
  <2> QED
    BY <1>3, <2>2
<1>4. CASE m > 0
  <2>1. m - 1 \in Nat /\ m - 1 \notin S
    BY <1>2, <1>4
  <2>2. PICK h : Joins(s, m - 1, h)
    BY <2>1
  <2>3. PICK v : v = IF m = 1 THEN s[m] ELSE h[m - 1] \o s[m]
    OBVIOUS
  <2> DEFINE f == [n \in 1 .. m |-> IF n = m THEN v ELSE h[n]]
  <2>4. ASSUME NEW n \in 1 .. m
        PROVE  f[n] = IF n = 1 THEN s[n] ELSE f[n - 1] \o s[n]
    <3>1. CASE n = m
      <4>1. n # 1 => n - 1 \in 1 .. m /\ n - 1 # m
        BY <1>4, <3>1
      <4> QED
        BY <2>3, <3>1, <4>1
    <3>2. CASE n # m
      <4>1. n \in 1 .. m - 1 /\ (n # 1 => n - 1 \in 1 .. m /\ n - 1 # m)
        BY <3>2
      <4>2. h[n] = IF n = 1 THEN s[n] ELSE h[n - 1] \o s[n]
        BY <2>2, <4>1 DEF Joins
      <4>3. f[n] = h[n] /\ (n # 1 => f[n - 1] = h[n - 1])
        BY <3>2, <4>1
      <4> QED
        BY <4>2, <4>3
    <3> QED
      BY <3>1, <3>2
  <2>5. Joins(s, m, f)
    BY <2>4 DEF Joins
  <2> QED
    BY <2>5
<1> QED
  BY <1>3, <1>4

(* The depth of some lines is an integer.                                  *)
LEMMA DepthInt ==
  ASSUME NEW s \in Seq(ReplLines)
  PROVE  Depth(s) \in Int
<1>1. PICK N \in Nat : N = Len(s)
  OBVIOUS
<1>2. PICK f : Depths(s, N, f) /\ Depth(s) = f[N]
  <2>1. \E f : Depths(s, N, f)
    BY DepthsExist
  <2> DEFINE R == CHOOSE f : f = [n \in 0 .. N |-> IF n = 0 THEN 0 ELSE Plus(f[n - 1], s[n])]
  <2>2. R = [n \in 0 .. N |-> IF n = 0 THEN 0 ELSE Plus(R[n - 1], s[n])]
    BY <2>1 DEF Depths
  <2>3. Depth(s) = R[N]
    BY <1>1 DEF Depth
  <2> QED
    BY <2>2, <2>3 DEF Depths
<1> DEFINE S == {n \in 0 .. N : f[n] \notin Int}
<1>3. ASSUME S # {} PROVE FALSE
  <2>1. S \in SUBSET Nat
    OBVIOUS
  <2> HIDE DEF S
  <2>2. PICK m \in S : \A k \in S : m <= k
    BY <1>3, <2>1, LeastNumber
  <2> USE DEF S
  <2>3. f[m] = IF m = 0 THEN 0 ELSE Plus(f[m - 1], s[m])
    BY <1>2 DEF Depths
  <2>4. m # 0
    BY <2>3
  <2>5. m \in 1 .. Len(s) /\ m - 1 \in 0 .. N /\ m - 1 \notin S
    BY <1>1, <2>2, <2>4
  <2>6. s[m].begins \in Nat /\ s[m].ends \in Nat
    <3>1. s[m] \in ReplLines
      BY <2>5, ElementOfSeq
    <3> QED
      BY <3>1, ReplAssumption DEF ReplAssumption
  <2>7. f[m - 1] \in Int
    BY <2>5
  <2>8. f[m] \in Int
    BY <2>3, <2>4, <2>6, <2>7 DEF Plus
  <2> QED
    BY <2>8
<1>4. N \notin S
  BY <1>3
<1> QED
  BY <1>2, <1>4

\* A sequence, of whatever.
IsSeq(s) == \E S : s \in Seq(S)

(* What is joined from a sequence is known from its joins.                 *)
LEMMA FlattenIs ==
  ASSUME NEW T, NEW s \in Seq(T), NEW N, N = Len(s)
  PROVE  /\ N = 0 => FlattenSeq(s) = <<>>
         /\ N # 0 => \E f : Joins(s, N, f) /\ FlattenSeq(s) = f[N]
<1>0. N \in Nat
  OBVIOUS
<1>1. \E f : Joins(s, N, f)
  BY <1>0, JoinsExist
<1> DEFINE R == CHOOSE f : f = [n \in 1 .. N |-> IF n = 1 THEN s[n] ELSE f[n - 1] \o s[n]]
<1>2. R = [n \in 1 .. N |-> IF n = 1 THEN s[n] ELSE R[n - 1] \o s[n]]
  BY <1>1 DEF Joins
<1>3. N # 0 => FlattenSeq(s) = R[N]
  BY DEF FlattenSeq
<1>4. N = 0 => FlattenSeq(s) = <<>>
  <2>1. N = 0 => s = <<>>
    BY EmptySeq
  <2>2. N = 0 => FlattenSeq(s) = s
    BY DEF FlattenSeq
  <2> QED
    BY <2>1, <2>2
<1> QED
  BY <1>2, <1>3, <1>4 DEF Joins

(* A sequence at the end is joined at the end.                             *)
LEMMA FlattenAppend ==
  ASSUME NEW T, NEW U, NEW s \in Seq(T), NEW e \in Seq(U), e \in T,
         FlattenSeq(s) \in Seq(U)
  PROVE  FlattenSeq(Append(s, e)) = FlattenSeq(s) \o e
<1>1. PICK N \in Nat : N = Len(s)
  OBVIOUS
<1>2. PICK r : r = Append(s, e)
  OBVIOUS
<1>3. /\ r \in Seq(T) /\ Len(r) = N + 1 /\ N + 1 # 0 /\ r[N + 1] = e
      /\ \A n \in 1 .. N : r[n] = s[n]
  BY <1>1, <1>2
<1>4. PICK h : Joins(r, N + 1, h) /\ FlattenSeq(r) = h[N + 1]
  BY <1>3, FlattenIs
<1>5. h[N + 1] = IF N + 1 = 1 THEN r[N + 1] ELSE h[N + 1 - 1] \o r[N + 1]
  <2>1. PICK M : M = N + 1
    OBVIOUS
  <2>2. M \in 1 .. M /\ Joins(r, M, h)
    BY <1>4, <2>1
  <2>3. h[M] = IF M = 1 THEN r[M] ELSE h[M - 1] \o r[M]
    BY <2>2 DEF Joins
  <2> QED
    BY <2>1, <2>3
<1>6. CASE N = 0
  <2>1. FlattenSeq(s) = <<>>
    BY <1>1, <1>6, FlattenIs
  <2>2. h[N + 1] = e
    BY <1>3, <1>5, <1>6
  <2>3. <<>> \o e = e
    OBVIOUS
  <2> QED
    BY <1>2, <1>4, <2>1, <2>2, <2>3
<1>7. CASE N # 0
  <2>1. PICK f : Joins(s, N, f) /\ FlattenSeq(s) = f[N]
    BY <1>1, <1>7, FlattenIs
  <2> DEFINE S == {n \in 1 .. N : f[n] # h[n]}
  <2>2. ASSUME S # {} PROVE FALSE
    <3>1. S \in SUBSET Nat
      OBVIOUS
    <3> HIDE DEF S
    <3>2. PICK m \in S : \A k \in S : m <= k
      BY <2>2, <3>1, LeastNumber
    <3> USE DEF S
    <3>3. m \in 1 .. N /\ m \in 1 .. N + 1 /\ r[m] = s[m]
      BY <1>3
    <3>4. f[m] = IF m = 1 THEN s[m] ELSE f[m - 1] \o s[m]
      BY <2>1, <3>3 DEF Joins
    <3>5. h[m] = IF m = 1 THEN s[m] ELSE h[m - 1] \o s[m]
      <4>1. h[m] = IF m = 1 THEN r[m] ELSE h[m - 1] \o r[m]
        BY <1>4, <3>3 DEF Joins
      <4> QED
        BY <3>3, <4>1
    <3>6. m # 1
      BY <3>2, <3>4, <3>5
    <3>7. m - 1 \in 1 .. N /\ m - 1 \notin S
      BY <3>2, <3>3, <3>6
    <3> QED
      BY <3>2, <3>4, <3>5, <3>7
  <2>3. N \in 1 .. N /\ N \notin S
    BY <1>7, <2>2
  <2>4. f[N] = h[N]
    BY <2>3
  <2>5. N + 1 # 1 /\ N + 1 - 1 = N
    BY <1>7
  <2>6. h[N + 1] = h[N] \o e
    BY <1>3, <1>5, <2>5
  <2> QED
    BY <1>2, <1>4, <2>1, <2>4, <2>6
<1> QED
  BY <1>6, <1>7

\* Of the lines typed, each is in one entry, and an entry goes on while a
\* block is open.
EntriesInv ==
  /\ buffer \in Seq(ReplLines) /\ typed \in Seq(ReplLines)
  /\ entries \in Seq(Seq(ReplLines)) /\ FlattenSeq(entries) \in Seq(ReplLines)
  /\ FlattenSeq(entries) \o buffer = typed
  /\ \A k \in 1 .. Len(buffer) : Depth(SubSeq(buffer, 1, k)) > 0
  /\ EntriesWhole

(* A line is read into the entry being typed.                              *)
LEMMA ReadOnKeeps ==
  ASSUME EntriesInv, NEW l \in ReplLines, ReadOn(l)
  PROVE  EntriesInv'
<1>1. /\ buffer' = Append(buffer, l) /\ typed' = Append(typed, l) /\ entries' = entries
      /\ Depth(Append(buffer, l)) > 0
  BY DEF ReadOn, BlockIsOpen
<1>2. /\ buffer \in Seq(ReplLines) /\ typed \in Seq(ReplLines)
      /\ entries \in Seq(Seq(ReplLines)) /\ FlattenSeq(entries) \in Seq(ReplLines)
      /\ FlattenSeq(entries) \o buffer = typed
  BY DEF EntriesInv
<1>3. PICK F : F = FlattenSeq(entries)
  OBVIOUS
<1>4. F \o Append(buffer, l) = Append(F \o buffer, l)
  BY <1>2, <1>3
<1>5. \A k \in 1 .. Len(buffer') : Depth(SubSeq(buffer', 1, k)) > 0
  <2> SUFFICES ASSUME NEW k \in 1 .. Len(buffer') PROVE Depth(SubSeq(buffer', 1, k)) > 0
    OBVIOUS
  <2>1. CASE k = Len(buffer')
    <3>1. SubSeq(buffer', 1, k) = buffer'
      BY <1>1, <1>2, <2>1
    <3> QED
      BY <1>1, <3>1
  <2>2. CASE k # Len(buffer')
    <3>1. k \in 1 .. Len(buffer) /\ SubSeq(buffer', 1, k) = SubSeq(buffer, 1, k)
      BY <1>1, <1>2, <2>2
    <3> QED
      BY <3>1 DEF EntriesInv
  <2> QED
    BY <2>1, <2>2
<1>6. EntriesWhole'
  <2>1. FlattenSeq(entries') \o buffer' = typed'
    BY <1>1, <1>2, <1>3, <1>4
  <2>2. \A e \in ToSet(entries) :
          /\ (\A x \in ToSet(e) : x.lexes) => Depth(e) <= 0
          /\ \A k \in 1 .. Len(e) - 1 : Depth(SubSeq(e, 1, k)) > 0
    BY DEF EntriesInv, EntriesWhole
  <2> QED
    BY <1>1, <2>1, <2>2 DEF EntriesWhole
<1>7. buffer' \in Seq(ReplLines) /\ typed' \in Seq(ReplLines)
  BY <1>1, <1>2
<1>8. FlattenSeq(entries') \o buffer' = typed'
  BY <1>6 DEF EntriesWhole
<1> QED
  BY <1>1, <1>2, <1>5, <1>6, <1>7, <1>8 DEF EntriesInv

(* A line ends the entry, which is evaluated whole.                        *)
LEMMA ReadAndEvaluateKeeps ==
  ASSUME EntriesInv, NEW l \in ReplLines, ReadAndEvaluate(l)
  PROVE  EntriesInv'
<1>1. PICK n : n = Append(buffer, l)
  OBVIOUS
<1>2. /\ buffer' = <<>> /\ typed' = Append(typed, l) /\ entries' = Append(entries, n)
      /\ ~BlockIsOpen(n)
  BY <1>1 DEF ReadAndEvaluate, Evaluate
<1>3. /\ buffer \in Seq(ReplLines) /\ typed \in Seq(ReplLines)
      /\ entries \in Seq(Seq(ReplLines)) /\ FlattenSeq(entries) \in Seq(ReplLines)
      /\ FlattenSeq(entries) \o buffer = typed
  BY DEF EntriesInv
<1>4. /\ n \in Seq(ReplLines) /\ Len(n) = Len(buffer) + 1 /\ Depth(n) \in Int
      /\ \A k \in 1 .. Len(buffer) : SubSeq(n, 1, k) = SubSeq(buffer, 1, k)
  <2>1. n \in Seq(ReplLines) /\ Len(n) = Len(buffer) + 1
    BY <1>1, <1>3
  <2>2. \A k \in 1 .. Len(buffer) : SubSeq(n, 1, k) = SubSeq(buffer, 1, k)
    BY <1>1, <1>3
  <2> QED
    BY <2>1, <2>2, DepthInt
<1>5. PICK F : F = FlattenSeq(entries)
  OBVIOUS
<1>6. FlattenSeq(entries') = typed'
  <2>1. FlattenSeq(entries') = F \o n
    BY <1>2, <1>3, <1>4, <1>5, FlattenAppend
  <2>2. F \o n = Append(F \o buffer, l)
    BY <1>1, <1>3, <1>5
  <2> QED
    BY <1>2, <1>3, <1>5, <2>1, <2>2
<1>7. /\ (\A x \in ToSet(n) : x.lexes) => Depth(n) <= 0
      /\ \A k \in 1 .. Len(n) - 1 : Depth(SubSeq(n, 1, k)) > 0
  <2>1. (\A x \in ToSet(n) : x.lexes) => ~(Depth(n) > 0)
    BY <1>2 DEF BlockIsOpen
  <2>2. \A k \in 1 .. Len(n) - 1 : k \in 1 .. Len(buffer)
    BY <1>3, <1>4
  <2>3. \A k \in 1 .. Len(buffer) : Depth(SubSeq(buffer, 1, k)) > 0
    BY DEF EntriesInv
  <2>4. \A k \in 1 .. Len(n) - 1 : Depth(SubSeq(n, 1, k)) > 0
    <3> SUFFICES ASSUME NEW k \in 1 .. Len(n) - 1 PROVE Depth(SubSeq(n, 1, k)) > 0
      OBVIOUS
    <3>1. k \in 1 .. Len(buffer)
      BY <2>2
    <3>2. SubSeq(n, 1, k) = SubSeq(buffer, 1, k) /\ Depth(SubSeq(buffer, 1, k)) > 0
      BY <1>4, <2>3, <3>1
    <3> QED
      BY <3>2
  <2>5. Depth(n) \in Int
    BY <1>4
  <2> QED
    BY <2>1, <2>4, <2>5
<1>8. \A e \in ToSet(entries') : e \in ToSet(entries) \/ e = n
  <2>1. Len(entries) \in Nat /\ Len(entries') = Len(entries) + 1
    BY <1>2, <1>3, <1>4
  <2>2. DOMAIN entries = 1 .. Len(entries) /\ DOMAIN entries' = 1 .. Len(entries) + 1
    BY <1>2, <1>3, <1>4
  <2>3. /\ entries'[Len(entries) + 1] = n
        /\ \A u \in 1 .. Len(entries) : entries'[u] = entries[u]
    BY <1>2, <1>3, <1>4
  <2>4. \A u \in 1 .. Len(entries) + 1 : u \in 1 .. Len(entries) \/ u = Len(entries) + 1
    BY <2>1
  <2> QED
    BY <2>2, <2>3, <2>4 DEF ToSet
<1>9. EntriesWhole'
  <2>1. typed' \in Seq(ReplLines) /\ typed' \o <<>> = typed'
    BY <1>2, <1>3
  <2>2. FlattenSeq(entries') \o buffer' = typed'
    BY <1>2, <1>6, <2>1
  <2>3. \A e \in ToSet(entries) :
          /\ (\A x \in ToSet(e) : x.lexes) => Depth(e) <= 0
          /\ \A k \in 1 .. Len(e) - 1 : Depth(SubSeq(e, 1, k)) > 0
    BY DEF EntriesInv, EntriesWhole
  <2> QED
    BY <1>7, <1>8, <2>2, <2>3 DEF EntriesWhole
<1>10. buffer' \in Seq(ReplLines) /\ typed' \in Seq(ReplLines) /\ Len(buffer') = 0
  BY <1>2, <1>3
<1>11. entries' \in Seq(Seq(ReplLines))
  BY <1>2, <1>3, <1>4
<1>12. FlattenSeq(entries') \o buffer' = typed'
  BY <1>9 DEF EntriesWhole
<1> QED
  BY <1>6, <1>9, <1>10, <1>11, <1>12 DEF EntriesInv

(* In any session, every line is evaluated once, in the entry it belongs   *)
(* to: no entry is cut off while a block is open, and none goes on behind  *)
(* the line that ends its last block.                                      *)
THEOREM EntriesStayWhole == ReplSpec => []EntriesWhole
<1>1. ReplInit => EntriesInv
  <2> SUFFICES ASSUME ReplInit PROVE EntriesInv
    OBVIOUS
  <2>1. buffer = <<>> /\ typed = <<>> /\ entries = <<>>
    BY DEF ReplInit
  <2>2. FlattenSeq(entries) = <<>>
    BY <2>1 DEF FlattenSeq
  <2>3. ToSet(entries) = {}
    BY <2>1 DEF ToSet
  <2>4. <<>> \o <<>> = <<>>
    OBVIOUS
  <2>5. FlattenSeq(entries) \o buffer = typed
    BY <2>1, <2>2, <2>4
  <2>6. EntriesWhole
    BY <2>3, <2>5 DEF EntriesWhole
  <2>7. \A k \in 1 .. Len(buffer) : Depth(SubSeq(buffer, 1, k)) > 0
    <3>1. Len(buffer) = 0
      BY <2>1
    <3> QED
      BY <3>1
  <2>8. /\ buffer \in Seq(ReplLines) /\ typed \in Seq(ReplLines)
        /\ entries \in Seq(Seq(ReplLines)) /\ FlattenSeq(entries) \in Seq(ReplLines)
    BY <2>1, <2>2, EmptySeq
  <2> QED
    BY <2>5, <2>6, <2>7, <2>8 DEF EntriesInv
<1>2. EntriesInv /\ [ReplNext]_replVars => EntriesInv'
  <2> SUFFICES ASSUME EntriesInv, [ReplNext]_replVars PROVE EntriesInv'
    OBVIOUS
  <2>1. CASE UNCHANGED <<buffer, typed, entries>>
    BY <2>1 DEF EntriesInv, EntriesWhole
  <2>2. SkipBlank \/ Quit \/ UNCHANGED replVars => UNCHANGED <<buffer, typed, entries>>
    BY DEF SkipBlank, Quit, replVars
  <2> QED
    BY <2>1, <2>2, ReadOnKeeps, ReadAndEvaluateKeeps DEF ReplNext
<1>3. EntriesInv => EntriesWhole
  BY DEF EntriesInv
<1> QED
  BY <1>1, <1>2, <1>3, PTL DEF ReplSpec

(***************************************************************************)
(* Programs are sequences, run one statement after the other.              *)
(***************************************************************************)

(* Two sequences, joined.                                                  *)
LEMMA SeqsJoin ==
  ASSUME NEW s, NEW t, IsSeq(s), IsSeq(t)
  PROVE  /\ IsSeq(s \o t) /\ Len(s) \in Nat /\ Len(t) \in Nat
         /\ Len(s \o t) = Len(s) + Len(t)
         /\ DOMAIN s = 1 .. Len(s) /\ DOMAIN t = 1 .. Len(t)
         /\ DOMAIN (s \o t) = 1 .. Len(s) + Len(t)
         /\ \A n \in 1 .. Len(s) : (s \o t)[n] = s[n]
         /\ \A n \in 1 .. Len(t) : (s \o t)[Len(s) + n] = t[n]
         /\ ToSet(s \o t) = ToSet(s) \cup ToSet(t)
<1>1. PICK S, T : s \in Seq(S) /\ t \in Seq(T)
  BY DEF IsSeq
<1>2. PICK U : U = S \cup T
  OBVIOUS
<1>3. s \in Seq(U) /\ t \in Seq(U)
  <2>1. \A k : S \subseteq U /\ T \subseteq U
    BY <1>2
  <2> QED
    BY <1>1, <2>1
<1>4. PICK j : j = s \o t
  OBVIOUS
<1>5. /\ j \in Seq(U) /\ Len(s) \in Nat /\ Len(t) \in Nat /\ Len(j) = Len(s) + Len(t)
      /\ DOMAIN s = 1 .. Len(s) /\ DOMAIN t = 1 .. Len(t)
      /\ DOMAIN j = 1 .. Len(s) + Len(t)
  BY <1>3, <1>4
<1>6. \A n \in 1 .. Len(s) : j[n] = s[n]
  BY <1>3, <1>4
<1>7. \A n \in 1 .. Len(t) : j[Len(s) + n] = t[n]
  BY <1>3, <1>4
<1>8. ToSet(j) = ToSet(s) \cup ToSet(t)
  <2>1. \A n \in 1 .. Len(s) + Len(t) : n \in 1 .. Len(s) \/ (n - Len(s) \in 1 .. Len(t) /\ n = Len(s) + (n - Len(s)))
    BY <1>5
  <2>2. \A n \in 1 .. Len(s) : n \in 1 .. Len(s) + Len(t)
    BY <1>5
  <2>3. \A n \in 1 .. Len(t) : Len(s) + n \in 1 .. Len(s) + Len(t)
    BY <1>5
  <2>4. ASSUME NEW x \in ToSet(j) PROVE x \in ToSet(s) \cup ToSet(t)
    <3>1. PICK n \in 1 .. Len(s) + Len(t) : x = j[n]
      BY <1>5 DEF ToSet
    <3>2. CASE n \in 1 .. Len(s)
      BY <1>5, <1>6, <3>1, <3>2 DEF ToSet
    <3>3. CASE n \notin 1 .. Len(s)
      <4>1. PICK m \in 1 .. Len(t) : n = Len(s) + m
        BY <2>1, <3>3
      <4>2. x = t[m]
        BY <1>7, <3>1, <4>1
      <4> QED
        BY <1>5, <4>2 DEF ToSet
    <3> QED
      BY <3>2, <3>3
  <2>5. ASSUME NEW x \in ToSet(s) PROVE x \in ToSet(j)
    <3>1. PICK n \in 1 .. Len(s) : x = s[n]
      BY <1>5 DEF ToSet
    <3>2. x = j[n] /\ n \in DOMAIN j
      BY <1>5, <1>6, <2>2, <3>1
    <3> QED
      BY <3>2 DEF ToSet
  <2>6. ASSUME NEW x \in ToSet(t) PROVE x \in ToSet(j)
    <3>1. PICK n \in 1 .. Len(t) : x = t[n]
      BY <1>5 DEF ToSet
    <3>2. x = j[Len(s) + n] /\ Len(s) + n \in DOMAIN j
      BY <1>5, <1>7, <2>3, <3>1
    <3> QED
      BY <3>2 DEF ToSet
  <2> QED
    BY <2>4, <2>5, <2>6
<1>9. IsSeq(j)
  BY <1>5 DEF IsSeq
<1> QED
  BY <1>4, <1>5, <1>6, <1>7, <1>8, <1>9

(* What runs first leaves is where what runs second begins.                *)
LEMMA ExecutedIs ==
  ASSUME NEW e, NEW s, IsSeq(s)
  PROVE  \E f : Effects(e, s, Len(s), f) /\ Executed(e, s) = f[Len(s)]
<1>1. Len(s) \in Nat
  BY DEF IsSeq
<1>2. \E f : Effects(e, s, Len(s), f)
  BY <1>1, EffectsExist
<1> DEFINE R == CHOOSE f : f = [n \in 0 .. Len(s) |->
                  IF n = 0 THEN Untouched(e) ELSE Effect(e, f[n - 1], s[n])]
<1>3. R = [n \in 0 .. Len(s) |-> IF n = 0 THEN Untouched(e) ELSE Effect(e, R[n - 1], s[n])]
  BY <1>2 DEF Effects
<1>4. Executed(e, s) = R[Len(s)]
  BY DEF Executed
<1> QED
  BY <1>3, <1>4 DEF Effects

(* An error or the end: a statement leaves one of two outcomes.            *)
LEMMA Outcomes ==
  ASSUME NEW e, NEW acc, NEW x, acc.outcome \in {"ok", "error"}
  PROVE  /\ Effect(e, acc, x).outcome \in {"ok", "error"}
         /\ Effect(e, acc, x).outcome = "ok" => acc.outcome = "ok"
BY DEF Effect

\* The values p and q of two sessions agree but on the names in F, and q has
\* all names of p.
Agrees(p, q, F) ==
  /\ DOMAIN p \subseteq DOMAIN q
  /\ \A n \in DOMAIN q \ F : n \in DOMAIN p /\ p[n] = q[n]

\* If g went well so did h, on values that agree, and if it is quiet so far
\* they printed the same.
Continues(g, h, F, quiet) ==
  /\ g.outcome \in {"ok", "error"}
  /\ g.outcome = "ok" => h.outcome = "ok" /\ Agrees(g.env, h.env, F) /\ (quiet => g.printed = h.printed)

\* What a statement changes by itself.
Own(x) == IF Defines(x) THEN {x.name} ELSE {}

(* A change made in both leaves a difference in what was changed at most,  *)
(* and none there if it read nothing that differs.                         *)
LEMMA ChangedAgrees ==
  ASSUME NEW p, NEW q, NEW F, NEW x, Agrees(p, q, F)
  PROVE  /\ Agrees(Changed(p, x), Changed(q, x), F \cup {x.name})
         /\ Uses(x) \subseteq DOMAIN p /\ Uses(x) \cap F = {} =>
              /\ Seen(p, x) = Seen(q, x)
              /\ Agrees(Changed(p, x), Changed(q, x), F \ {x.name})
<1>1. PICK cp, cq : cp = Changed(p, x) /\ cq = Changed(q, x)
  OBVIOUS
<1>2. PICK vp, vq : vp = Value(p, x) /\ vq = Value(q, x)
  OBVIOUS
<1>3. /\ DOMAIN cp = DOMAIN p \cup {x.name} /\ DOMAIN cq = DOMAIN q \cup {x.name}
      /\ \A n \in DOMAIN cp : cp[n] = IF n = x.name THEN vp ELSE p[n]
      /\ \A n \in DOMAIN cq : cq[n] = IF n = x.name THEN vq ELSE q[n]
  BY <1>1, <1>2 DEF Changed
<1>4. DOMAIN p \subseteq DOMAIN q /\ \A n \in DOMAIN q \ F : n \in DOMAIN p /\ p[n] = q[n]
  BY DEF Agrees
<1>5. Agrees(cp, cq, F \cup {x.name})
  BY <1>3, <1>4 DEF Agrees
<1>6. ASSUME Uses(x) \subseteq DOMAIN p, Uses(x) \cap F = {}
      PROVE  Seen(p, x) = Seen(q, x) /\ Agrees(cp, cq, F \ {x.name})
  <2>1. \A n \in Uses(x) : p[n] = q[n]
    BY <1>4, <1>6
  <2>2. Seen(p, x) = Seen(q, x)
    BY <2>1 DEF Seen
  <2>3. vp = vq
    BY <1>2, <2>2 DEF Value
  <2> QED
    BY <1>3, <1>4, <2>2, <2>3 DEF Agrees
<1> QED
  BY <1>1, <1>5, <1>6

(* A statement done in both.                                               *)
LEMMA EffectContinues ==
  ASSUME NEW e, NEW v, NEW g, NEW h, NEW F, NEW quiet, NEW x, Continues(g, h, F, quiet)
  PROVE  /\ Own(x) \subseteq F => Continues(Effect(e, g, x), Effect(v, h, x), F, FALSE)
         /\ Uses(x) \cap F = {} => Continues(Effect(e, g, x), Effect(v, h, x), F \ Own(x), quiet)
<1>1. CASE g.outcome # "ok"
  <2>1. Effect(e, g, x) = g
    BY <1>1 DEF Effect
  <2> QED
    BY <1>1, <2>1 DEF Continues
<1>2. CASE g.outcome = "ok" /\ ~(Needs(x) \subseteq DOMAIN g.env)
  <2>1. Effect(e, g, x).outcome = "error"
    BY <1>2 DEF Effect
  <2> QED
    BY <2>1 DEF Continues
<1>3. CASE g.outcome = "ok" /\ Needs(x) \subseteq DOMAIN g.env
  <2>1. h.outcome = "ok" /\ Agrees(g.env, h.env, F) /\ (quiet => g.printed = h.printed)
    BY <1>3 DEF Continues
  <2>2. Needs(x) \subseteq DOMAIN h.env /\ Uses(x) \subseteq DOMAIN g.env
    BY <1>3, <2>1 DEF Agrees, Needs
  <2>3. Effect(e, g, x) = [outcome |-> "ok",
                           env     |-> IF Defines(x) THEN Changed(g.env, x) ELSE g.env,
                           printed |-> IF Prints(x) THEN Append(g.printed, <<x, Seen(g.env, x)>>)
                                       ELSE g.printed]
    BY <1>3 DEF Effect
  <2>4. Effect(v, h, x) = [outcome |-> "ok",
                           env     |-> IF Defines(x) THEN Changed(h.env, x) ELSE h.env,
                           printed |-> IF Prints(x) THEN Append(h.printed, <<x, Seen(h.env, x)>>)
                                       ELSE h.printed]
    BY <2>1, <2>2 DEF Effect
  <2>5. PICK ge, he : ge = Effect(e, g, x) /\ he = Effect(v, h, x)
    OBVIOUS
  <2>6. ASSUME Own(x) \subseteq F PROVE Continues(ge, he, F, FALSE)
    <3>1. CASE Defines(x)
      <4>1. F \cup {x.name} = F
        BY <2>6, <3>1 DEF Own
      <4>2. Agrees(Changed(g.env, x), Changed(h.env, x), F)
        <5>1. Agrees(Changed(g.env, x), Changed(h.env, x), F \cup {x.name})
          BY <2>1, ChangedAgrees
        <5> QED
          BY <4>1, <5>1
      <4> QED
        BY <2>3, <2>4, <2>5, <3>1, <4>2 DEF Continues
    <3>2. CASE ~Defines(x)
      <4>1. ge.outcome = "ok" /\ he.outcome = "ok" /\ ge.env = g.env /\ he.env = h.env
        BY <2>3, <2>4, <2>5, <3>2
      <4> QED
        BY <2>1, <4>1 DEF Continues
    <3> QED
      BY <3>1, <3>2
  <2>7. ASSUME Uses(x) \cap F = {} PROVE Continues(ge, he, F \ Own(x), quiet)
    <3>1. Seen(g.env, x) = Seen(h.env, x) /\ Agrees(Changed(g.env, x), Changed(h.env, x), F \ {x.name})
      BY <2>1, <2>2, <2>7, ChangedAgrees
    <3>2. quiet => ge.printed = he.printed
      BY <2>1, <2>3, <2>4, <2>5, <3>1
    <3>3. Agrees(ge.env, he.env, F \ Own(x))
      <4>1. CASE Defines(x)
        BY <2>3, <2>4, <2>5, <3>1, <4>1 DEF Own
      <4>2. CASE ~Defines(x)
        <5>1. F \ Own(x) = F
          BY <4>2 DEF Own
        <5>2. ge.env = g.env /\ he.env = h.env
          BY <2>3, <2>4, <2>5, <4>2
        <5> QED
          BY <2>1, <5>1, <5>2
      <4> QED
        BY <4>1, <4>2
    <3> QED
      BY <2>3, <2>4, <2>5, <3>2, <3>3 DEF Continues
  <2> QED
    BY <2>5, <2>6, <2>7
<1> QED
  BY <1>1, <1>2, <1>3

(* Two programs one after the other, against the second by itself on       *)
(* values that agree with what the first one left.  H says on what they may*)
(* differ after each statement.                                            *)
LEMMA ExecutedJoins ==
  ASSUME NEW e, NEW s, NEW t, IsSeq(s), IsSeq(t), NEW r, r = Executed(e, s),
         r.outcome = "ok", NEW v, NEW H, NEW quiet,
         Agrees(r.env, v, H[0]), quiet => r.printed = <<>>,
         \A n \in 1 .. Len(t) : \A c, d :
           Continues(c, d, H[n - 1], quiet) =>
             Continues(Effect(e, c, t[n]), Effect(v, d, t[n]), H[n], quiet)
  PROVE  Continues(Executed(e, s \o t), Executed(v, t), H[Len(t)], quiet)
<1>1. PICK j : j = s \o t
  OBVIOUS
<1>2. PICK M, N : M = Len(s) /\ N = Len(t)
  OBVIOUS
<1>3. /\ IsSeq(j) /\ M \in Nat /\ N \in Nat /\ Len(j) = M + N
      /\ \A n \in 1 .. M : j[n] = s[n]
      /\ \A n \in 1 .. N : j[M + n] = t[n]
  BY <1>1, <1>2, SeqsJoin
<1>4. PICK f : Effects(e, s, M, f) /\ r = f[M]
  BY <1>2, ExecutedIs
<1>5. PICK h : Effects(v, t, N, h) /\ Executed(v, t) = h[N]
  BY <1>2, ExecutedIs
<1>6. PICK g : Effects(e, j, M + N, g) /\ Executed(e, j) = g[M + N]
  BY <1>3, ExecutedIs
<1> DEFINE S == {n \in 0 .. M : f[n] # g[n]}
<1>7. ASSUME S # {} PROVE FALSE
  <2>1. S \in SUBSET Nat
    OBVIOUS
  <2> HIDE DEF S
  <2>2. PICK m \in S : \A k \in S : m <= k
    BY <1>7, <2>1, LeastNumber
  <2> USE DEF S
  <2>3. m \in 0 .. M /\ m \in 0 .. M + N /\ f[m] # g[m]
    BY <1>3
  <2>4. f[m] = IF m = 0 THEN Untouched(e) ELSE Effect(e, f[m - 1], s[m])
    BY <1>4, <2>3 DEF Effects
  <2>5. g[m] = IF m = 0 THEN Untouched(e) ELSE Effect(e, g[m - 1], j[m])
    BY <1>6, <2>3 DEF Effects
  <2>6. m # 0
    BY <2>3, <2>4, <2>5
  <2>7. m \in 1 .. M /\ m - 1 \in 0 .. M /\ m - 1 \notin S
    BY <1>3, <2>2, <2>3, <2>6
  <2>8. f[m - 1] = g[m - 1] /\ j[m] = s[m]
    BY <1>3, <2>7
  <2> QED
    BY <2>3, <2>4, <2>5, <2>6, <2>8
<1>8. g[M] = r
  <2>1. M \in 0 .. M /\ M \notin S
    BY <1>3, <1>7
  <2> QED
    BY <1>4, <2>1
<1> DEFINE T == {n \in 0 .. N : ~Continues(g[M + n], h[n], H[n], quiet)}
<1>9. ASSUME T # {} PROVE FALSE
  <2>1. T \in SUBSET Nat
    OBVIOUS
  <2> HIDE DEF T
  <2>2. PICK m \in T : \A k \in T : m <= k
    BY <1>9, <2>1, LeastNumber
  <2> USE DEF T
  <2>3. m \in 0 .. N /\ M + m \in 0 .. M + N /\ ~Continues(g[M + m], h[m], H[m], quiet)
    BY <1>3
  <2>4. h[m] = IF m = 0 THEN Untouched(v) ELSE Effect(v, h[m - 1], t[m])
    BY <1>5, <2>3 DEF Effects
  <2>5. m # 0
    <3>1. SUFFICES ASSUME m = 0 PROVE FALSE
      OBVIOUS
    <3>2. M + m = M /\ h[m] = [outcome |-> "ok", env |-> v, printed |-> <<>>]
      BY <1>3, <2>4, <3>1 DEF Untouched
    <3>3. Continues(r, h[m], H[m], quiet)
      BY <3>1, <3>2 DEF Continues
    <3> QED
      BY <1>8, <2>3, <3>2, <3>3
  <2>6. PICK u : u = M + m
    OBVIOUS
  <2>7. g[u] = IF u = 0 THEN Untouched(e) ELSE Effect(e, g[u - 1], j[u])
    BY <1>6, <2>3, <2>6 DEF Effects
  <2>8. /\ u # 0 /\ u - 1 = M + (m - 1) /\ m - 1 \in 0 .. N /\ m - 1 \notin T
        /\ j[u] = t[m]
    BY <1>3, <2>2, <2>3, <2>5, <2>6
  <2>9. Continues(g[u - 1], h[m - 1], H[m - 1], quiet)
    BY <2>8
  <2>10. Continues(Effect(e, g[u - 1], t[m]), Effect(v, h[m - 1], t[m]), H[m], quiet)
    <3>1. m \in 1 .. Len(t)
      BY <1>2, <1>3, <2>3, <2>5
    <3>2. PICK c, d : c = g[u - 1] /\ d = h[m - 1]
      OBVIOUS
    <3>3. Continues(c, d, H[m - 1], quiet)
      BY <2>9, <3>2
    <3>4. Continues(Effect(e, c, t[m]), Effect(v, d, t[m]), H[m], quiet)
      BY <3>1, <3>3
    <3> QED
      BY <3>2, <3>4
  <2>11. g[u] = Effect(e, g[u - 1], t[m]) /\ h[m] = Effect(v, h[m - 1], t[m])
    <3>1. u # 0 /\ j[u] = t[m]
      BY <2>8
    <3> QED
      BY <2>4, <2>5, <2>7, <3>1
  <2>12. ~Continues(g[u], h[m], H[m], quiet)
    BY <2>3, <2>6
  <2> QED
    BY <2>10, <2>11, <2>12
<1>10. Continues(g[M + N], h[N], H[N], quiet)
  <2>1. N \in 0 .. N
    BY <1>3
  <2>2. T = {}
    <3> HIDE DEF T
    <3> QED
      BY <1>9
  <2> QED
    BY <2>1, <2>2
<1> QED
  BY <1>1, <1>2, <1>5, <1>6, <1>10

(* A program that ends well changes the names it defines, and no others.   *)
LEMMA ExecutedFrames ==
  ASSUME NEW e, NEW s, IsSeq(s), Executed(e, s).outcome = "ok"
  PROVE  Agrees(e, Executed(e, s).env, Names(s))
<1>1. PICK N \in Nat : N = Len(s)
  BY DEF IsSeq
<1>2. PICK f : Effects(e, s, N, f) /\ Executed(e, s) = f[N]
  BY <1>1, ExecutedIs
<1> DEFINE S == {n \in 0 .. N : ~(f[n].outcome = "ok" => Agrees(e, f[n].env, Names(s)))}
<1>3. ASSUME S # {} PROVE FALSE
  <2>1. S \in SUBSET Nat
    OBVIOUS
  <2> HIDE DEF S
  <2>2. PICK m \in S : \A k \in S : m <= k
    BY <1>3, <2>1, LeastNumber
  <2> USE DEF S
  <2>3. m \in 0 .. N /\ f[m].outcome = "ok" /\ ~Agrees(e, f[m].env, Names(s))
    OBVIOUS
  <2>4. f[m] = IF m = 0 THEN Untouched(e) ELSE Effect(e, f[m - 1], s[m])
    BY <1>2, <2>3 DEF Effects
  <2>5. m # 0
    BY <2>3, <2>4 DEF Untouched, Agrees
  <2>6. m \in 1 .. Len(s) /\ m - 1 \in 0 .. N /\ m - 1 \notin S
    BY <1>1, <2>2, <2>3, <2>5
  <2>7. PICK p, x : p = f[m - 1] /\ x = s[m]
    OBVIOUS
  <2>8. f[m] = Effect(e, p, x) /\ (p.outcome = "ok" => Agrees(e, p.env, Names(s)))
    BY <2>4, <2>5, <2>6, <2>7
  <2>9. p.outcome = "ok" /\ f[m].env = IF Defines(x) THEN Changed(p.env, x) ELSE p.env
    BY <2>3, <2>8 DEF Effect
  <2>10. Defines(x) => x.name \in Names(s)
    <3>1. x \in ToSet(s)
      BY <2>6, <2>7 DEF ToSet, IsSeq
    <3> QED
      BY <3>1 DEF Names
  <2>11. CASE Defines(x)
    <3>1. PICK c : c = Changed(p.env, x)
      OBVIOUS
    <3>2. DOMAIN c = DOMAIN p.env \cup {x.name} /\ \A n \in DOMAIN p.env \ {x.name} : c[n] = p.env[n]
      BY <3>1 DEF Changed
    <3>3. Agrees(e, c, Names(s))
      BY <2>8, <2>9, <2>10, <2>11, <3>2 DEF Agrees
    <3> QED
      BY <2>3, <2>9, <2>11, <3>1, <3>3
  <2> QED
    BY <2>3, <2>8, <2>9, <2>11
<1>4. N \in 0 .. N /\ N \notin S
  BY <1>3
<1> QED
  BY <1>2, <1>4

(* A program whose statements are quiet prints nothing.                    *)
LEMMA ExecutedQuiet ==
  ASSUME NEW e, NEW s, IsSeq(s), \A x \in ToSet(s) : ~Prints(x)
  PROVE  Executed(e, s).printed = <<>>
<1>1. PICK N \in Nat : N = Len(s)
  BY DEF IsSeq
<1>2. PICK f : Effects(e, s, N, f) /\ Executed(e, s) = f[N]
  BY <1>1, ExecutedIs
<1> DEFINE S == {n \in 0 .. N : f[n].printed # <<>>}
<1>3. ASSUME S # {} PROVE FALSE
  <2>1. S \in SUBSET Nat
    OBVIOUS
  <2> HIDE DEF S
  <2>2. PICK m \in S : \A k \in S : m <= k
    BY <1>3, <2>1, LeastNumber
  <2> USE DEF S
  <2>3. m \in 0 .. N /\ f[m].printed # <<>>
    OBVIOUS
  <2>4. f[m] = IF m = 0 THEN Untouched(e) ELSE Effect(e, f[m - 1], s[m])
    BY <1>2, <2>3 DEF Effects
  <2>5. m # 0
    BY <2>3, <2>4 DEF Untouched
  <2>6. m \in 1 .. Len(s) /\ m - 1 \in 0 .. N /\ m - 1 \notin S
    BY <1>1, <2>2, <2>3, <2>5
  <2>7. f[m - 1].printed = <<>>
    BY <2>6
  <2>8. ~Prints(s[m])
    <3>1. m \in DOMAIN s
      BY <2>6 DEF IsSeq
    <3> QED
      BY <3>1 DEF ToSet
  <2> QED
    BY <2>3, <2>4, <2>5, <2>7, <2>8 DEF Effect
<1>4. N \in 0 .. N /\ N \notin S
  BY <1>3
<1> QED
  BY <1>2, <1>4

\* Statements that may be retained.
Lasting(s) == IsSeq(s) /\ \A x \in ToSet(s) : x.kind \in Retained

(* Lasting statements parse and do not abort.                              *)
LEMMA LastingRuns ==
  ASSUME NEW e, NEW s, Lasting(s)
  PROVE  /\ Parses(s) /\ {n \in DOMAIN s : s[n].kind = "fatal"} = {}
         /\ Run(e, s) = Executed(e, s)
<1>1. \A x \in ToSet(s) : x.kind # "junk" /\ x.kind # "fatal"
  BY DEF Lasting, Retained
<1>2. {n \in DOMAIN s : s[n].kind = "fatal"} = {}
  BY <1>1 DEF ToSet
<1>3. Parses(s)
  BY <1>1 DEF Parses
<1> QED
  BY <1>2, <1>3 DEF Run

(* A run that ends well is of statements that parse and do not abort.      *)
LEMMA RunsWell ==
  ASSUME NEW e, NEW s, Run(e, s).outcome = "ok"
  PROVE  /\ {n \in DOMAIN s : s[n].kind = "fatal"} = {}
         /\ Run(e, s) = Executed(e, s)
<1> DEFINE F == {n \in DOMAIN s : s[n].kind = "fatal"}
<1>1. Parses(s)
  <2>1. ~Parses(s) => Run(e, s) = [Untouched(e) EXCEPT !.outcome = "error"]
    BY DEF Run
  <2>2. [Untouched(e) EXCEPT !.outcome = "error"].outcome = "error"
    BY DEF Untouched
  <2> QED
    BY <2>1, <2>2
<1>2. F = {} \/ Executed(e, s).outcome = "error"
  <2>1. PICK u : u = Executed(e, SubSeq(s, 1, Min(F) - 1))
    OBVIOUS
  <2>2. SUFFICES ASSUME F # {}, Executed(e, s).outcome # "error" PROVE FALSE
    OBVIOUS
  <2>3. Run(e, s) = [u EXCEPT !.outcome = "abort"]
    BY <1>1, <2>1, <2>2 DEF Run
  <2> QED
    BY <2>3
<1>3. Run(e, s) = Executed(e, s)
  BY <1>1, <1>2 DEF Run
<1> QED
  BY <1>2, <1>3

(* A statement that could be run by itself.                                *)
LEMMA RunsIfQuiet ==
  ASSUME NEW e, NEW s, Parses(s), {n \in DOMAIN s : s[n].kind = "fatal"} = {}
  PROVE  Run(e, s) = Executed(e, s)
BY DEF Run

(* What a text is parsed into is a sequence of statements.                 *)
LEMMA ParseSeq ==
  ASSUME NEW s \in Seq(ReplLines)
  PROVE  IsSeq(Parse(s))
<1>1. PICK N \in Nat : N = Len(s)
  OBVIOUS
<1> DEFINE Z == [depth |-> 0, sound |-> TRUE, stmts |-> <<>>]
<1>2. PICK f : /\ Readings(s, N, f)
               /\ Parse(s) = IF f[N].sound /\ f[N].depth = 0 THEN f[N].stmts ELSE Junk
  <2>1. \E f : Readings(s, N, f)
    BY ReadingsExist
  <2> DEFINE R == CHOOSE f : f = [n \in 0 .. N |-> IF n = 0 THEN Z ELSE ReadLine(f[n - 1], s[n])]
  <2>2. R = [n \in 0 .. N |-> IF n = 0 THEN Z ELSE ReadLine(R[n - 1], s[n])]
    BY <2>1 DEF Readings
  <2>3. Parse(s) = IF R[N].sound /\ R[N].depth = 0 THEN R[N].stmts ELSE Junk
    BY <1>1 DEF Parse
  <2> QED
    BY <2>2, <2>3 DEF Readings
<1> DEFINE S == {n \in 0 .. N : ~IsSeq(f[n].stmts)}
<1>3. ASSUME S # {} PROVE FALSE
  <2>1. S \in SUBSET Nat
    OBVIOUS
  <2> HIDE DEF S
  <2>2. PICK m \in S : \A k \in S : m <= k
    BY <1>3, <2>1, LeastNumber
  <2> USE DEF S
  <2>3. m \in 0 .. N /\ ~IsSeq(f[m].stmts)
    OBVIOUS
  <2>4. f[m] = IF m = 0 THEN Z ELSE ReadLine(f[m - 1], s[m])
    BY <1>2, <2>3 DEF Readings
  <2>5. m # 0
    <3>1. <<>> \in Seq({})
      BY EmptySeq
    <3> QED
      BY <2>3, <2>4, <3>1 DEF IsSeq
  <2>6. m \in 1 .. Len(s) /\ m - 1 \in 0 .. N /\ m - 1 \notin S
    BY <1>1, <2>2, <2>3, <2>5
  <2>7. PICK p, l : p = f[m - 1] /\ l = s[m]
    OBVIOUS
  <2>8. IsSeq(p.stmts) /\ IsSeq(l.stmts)
    <3>1. l \in ReplLines
      BY <2>6, <2>7, ElementOfSeq
    <3>2. IsSeq(l.stmts)
      BY <3>1, ReplAssumption DEF ReplAssumption, IsSeq
    <3> QED
      BY <2>6, <2>7, <3>2
  <2>9. f[m].stmts = IF p.depth > 0 THEN Within(p.stmts, l.stmts) ELSE p.stmts \o l.stmts
    BY <2>4, <2>5, <2>7 DEF ReadLine
  <2>10. IsSeq(p.stmts \o l.stmts)
    BY <2>8, SeqsJoin
  <2>11. IsSeq(Within(p.stmts, l.stmts))
    <3>1. PICK x : Within(p.stmts, l.stmts) = Append(Front(p.stmts), x)
      BY DEF Within
    <3>2. PICK T : p.stmts \in Seq(T)
      BY <2>8 DEF IsSeq
    <3>3. PICK q : q = p.stmts /\ q \in Seq(T)
      BY <3>2
    <3>4. Front(q) \in Seq(T)
      <4>1. Front(q) = SubSeq(q, 1, Len(q) - 1)
        BY DEF Front
      <4> QED
        BY <3>3, <4>1
    <3>5. Front(q) \in Seq(T \cup {x})
      <4>1. \A k \in 1 .. Len(Front(q)) : Front(q)[k] \in T \cup {x}
        BY <3>4
      <4> QED
        BY <3>4, <4>1
    <3> QED
      BY <3>1, <3>3, <3>5 DEF IsSeq
  <2> QED
    BY <2>3, <2>9, <2>10, <2>11
<1>4. N \in 0 .. N /\ N \notin S
  BY <1>3
<1>5. IsSeq(Junk)
  <2>1. Junk \in Seq({[kind |-> "junk", name |-> "", needs |-> {}]})
    BY DEF Junk
  <2> QED
    BY <2>1 DEF IsSeq
<1> QED
  BY <1>2, <1>4, <1>5

(* The statement printed is one statement.                                 *)
LEMMA WrapSeq ==
  ASSUME NEW e
  PROVE  IsSeq(WrapPrint(e)) /\ IsSeq(Junk)
<1>1. \A x : IsSeq(<<x>>)
  <2>1. \A x : <<x>> \in Seq({x})
    OBVIOUS
  <2> QED
    BY <2>1 DEF IsSeq
<1>2. IsSeq(Junk)
  BY <1>1 DEF Junk
<1>3. PICK x : x = [e[1].stmts[1] EXCEPT !.kind = ShownKind(@)]
  OBVIOUS
<1>4. WrapPrint(e) = <<x>> \/ WrapPrint(e) = Junk
  BY <1>3 DEF WrapPrint
<1> QED
  BY <1>1, <1>2, <1>4

(* What is run of an entry; what is retained of one are its statements.    *)
LEMMA ClassifyIs ==
  ASSUME NEW e \in Seq(ReplLines), NEW c, c = Classify(e)
  PROVE  /\ IsSeq(c.tail)
         /\ c.pure => c.tail = Parse(e) /\ Lasting(c.tail)
<1>1. PICK t : t = Parse(e) /\ IsSeq(t)
  BY ParseSeq
<1>2. IsSeq(WrapPrint(e)) /\ IsSeq(Junk)
  BY WrapSeq
<1>3. PICK w : w = WrapPrint(e)
  OBVIOUS
<1> DEFINE A == ~Parses(t) /\ \A l \in ToSet(e) : l.lexes
           B == ~Parses(t) /\ \E l \in ToSet(e) : ~l.lexes
           C == Parses(t) /\ \E s \in ToSet(t) : s.kind = "import"
           P == Len(t) = 1 /\ t[1].kind \in {"expr", "push", "fatal"}
<1>4. CASE A
  <2>1. c = [tail |-> IF e[1].stmts = <<>> THEN Junk ELSE w, pure |-> FALSE]
    BY <1>1, <1>3, <1>4 DEF Classify
  <2> QED
    BY <1>2, <1>3, <2>1
<1>5. CASE B
  <2>1. c = [tail |-> Junk, pure |-> FALSE]
    BY <1>1, <1>5 DEF Classify
  <2> QED
    BY <1>2, <2>1
<1>6. CASE C
  <2>1. c = [tail |-> Junk, pure |-> FALSE]
    BY <1>1, <1>6 DEF Classify
  <2> QED
    BY <1>2, <2>1
<1>7. CASE ~A /\ ~B /\ ~C
  <2>1. c = IF P THEN [tail |-> w, pure |-> FALSE] ELSE [tail |-> t, pure |-> Pure(t)]
    BY <1>1, <1>3, <1>7 DEF Classify
  <2>2. Pure(t) => Lasting(t)
    BY <1>1 DEF Pure, Lasting
  <2> QED
    BY <1>1, <1>2, <1>3, <2>1, <2>2
<1> HIDE DEF A, B, C
<1> QED
  BY <1>4, <1>5, <1>6, <1>7

\* What the retained entries are and leave, all run from nothing.
ReplayInv ==
  /\ buffer \in Seq(ReplLines)
  /\ history \in Seq(Seq(ReplLines))
  /\ Lasting(Replayed)
  /\ ReplayRebuilds

\* The texts retained, parsed.
Reparsed(h) == [u \in DOMAIN h |-> Parse(h[u])]

(* An entry retained is replayed behind those before it.                   *)
LEMMA ReplayedGrows ==
  ASSUME ReplayInv, NEW e \in Seq(ReplLines), history' = Append(history, e)
  PROVE  Replayed' = Replayed \o Parse(e)
<1>1. history \in Seq(Seq(ReplLines)) /\ Lasting(Replayed)
  BY DEF ReplayInv
<1>2. PICK t : t = Reparsed(history)
  OBVIOUS
<1>3. PICK U : /\ \A u \in DOMAIN t : ToSet(t[u]) \subseteq U
               /\ ToSet(Parse(e)) \subseteq U /\ ToSet(Replayed) \subseteq U
  <2>1. PICK V : V = UNION {ToSet(t[u]) : u \in DOMAIN t}
    OBVIOUS
  <2>2. PICK W : W = V \cup (ToSet(Parse(e)) \cup ToSet(Replayed))
    OBVIOUS
  <2>3. \A u \in DOMAIN t : ToSet(t[u]) \subseteq V
    BY <2>1, Zenon
  <2>4. V \subseteq W /\ ToSet(Parse(e)) \subseteq W /\ ToSet(Replayed) \subseteq W
    BY <2>2, Zenon
  <2>5. \A u \in DOMAIN t : ToSet(t[u]) \subseteq W
    BY <2>3, <2>4, Zenon
  <2> QED
    BY <2>4, <2>5, Zenon
<1>4. \A s : IsSeq(s) => s \in Seq(ToSet(s)) /\ \A S : ToSet(s) \subseteq S => s \in Seq(S)
  <2> SUFFICES ASSUME NEW s, NEW V, s \in Seq(V)
               PROVE  s \in Seq(ToSet(s)) /\ \A S : ToSet(s) \subseteq S => s \in Seq(S)
    BY DEF IsSeq
  <2>1. Len(s) \in Nat /\ DOMAIN s = 1 .. Len(s) /\ s = [n \in 1 .. Len(s) |-> s[n]]
    OBVIOUS
  <2>2. \A n \in 1 .. Len(s) : s[n] \in ToSet(s)
    BY <2>1 DEF ToSet
  <2>3. ASSUME NEW S, ToSet(s) \subseteq S PROVE s \in Seq(S)
    <3>1. s \in [1 .. Len(s) -> S]
      BY <2>1, <2>2, <2>3
    <3> QED
      BY <2>1, <3>1
  <2> QED
    BY <2>3
<1>5. Len(history) \in Nat /\ DOMAIN history = 1 .. Len(history)
  BY <1>1
<1>6. Parse(e) \in Seq(U)
  <2>1. PICK p : p = Parse(e) /\ IsSeq(p)
    BY ParseSeq
  <2>2. ToSet(p) \subseteq U
    BY <1>3, <2>1
  <2>3. p \in Seq(U)
    BY <1>4, <2>1, <2>2
  <2> QED
    BY <2>1, <2>3
<1>7. Replayed \in Seq(U)
  <2>1. PICK p : p = Replayed /\ IsSeq(p)
    BY <1>1 DEF Lasting
  <2>2. ToSet(p) \subseteq U
    BY <1>3, <2>1
  <2>3. p \in Seq(U)
    BY <1>4, <2>1, <2>2
  <2> QED
    BY <2>1, <2>3
<1>8. t \in Seq(Seq(U))
  <2>1. DOMAIN t = 1 .. Len(history)
    BY <1>2, <1>5 DEF Reparsed
  <2>2. ASSUME NEW u \in 1 .. Len(history) PROVE t[u] \in Seq(U)
    <3>1. history[u] \in Seq(ReplLines)
      BY <1>1
    <3>2. t[u] = Parse(history[u])
      BY <1>2, <1>5 DEF Reparsed
    <3>3. IsSeq(t[u])
      BY <3>1, <3>2, ParseSeq
    <3>4. ToSet(t[u]) \subseteq U
      BY <1>3, <2>1
    <3> QED
      BY <1>4, <3>3, <3>4
  <2>3. t \in [1 .. Len(history) -> Seq(U)]
    BY <1>2, <1>5, <2>2 DEF Reparsed
  <2>4. PICK X, m : X = Seq(U) /\ m = Len(history)
    OBVIOUS
  <2>5. m \in Nat /\ t \in [1 .. m -> X]
    BY <1>5, <2>3, <2>4
  <2>6. t \in Seq(X)
    BY <2>5
  <2> QED
    BY <2>4, <2>6
<1>9. PICK h : h = Append(history, e)
  OBVIOUS
<1>10. /\ Len(h) = Len(history) + 1 /\ DOMAIN h = 1 .. Len(history) + 1
       /\ h[Len(history) + 1] = e
       /\ \A u \in 1 .. Len(history) : h[u] = history[u]
  BY <1>1, <1>9
<1>11. Reparsed(h) = Append(t, Parse(e))
  <2>1. PICK p : p = Parse(e) /\ p \in Seq(U)
    BY <1>6
  <2>2. Len(t) = Len(history)
    <3>1. DOMAIN t = 1 .. Len(history)
      BY <1>2, <1>5 DEF Reparsed
    <3> QED
      BY <1>5, <1>8, <3>1
  <2>3. PICK q : q = Append(t, p) /\ q \in Seq(Seq(U)) /\ DOMAIN q = 1 .. Len(history) + 1
    <3>1. PICK q : q = Append(t, p)
      OBVIOUS
    <3>2. q \in Seq(Seq(U)) /\ Len(q) = Len(t) + 1
      BY <1>8, <2>1, <3>1
    <3>3. DOMAIN q = 1 .. Len(history) + 1
      BY <2>2, <3>2
    <3> QED
      BY <3>1, <3>2, <3>3
  <2>4. q = [u \in 1 .. Len(history) + 1 |-> q[u]]
    <3>1. q \in [1 .. Len(q) -> Seq(U)]
      BY <2>3, LenProperties
    <3>2. q = [u \in DOMAIN q |-> q[u]]
      BY <3>1
    <3> QED
      BY <2>3, <3>2, Zenon
  <2>5. ASSUME NEW u \in 1 .. Len(history) + 1 PROVE q[u] = Parse(h[u])
    <3>1. CASE u = Len(history) + 1
      BY <1>8, <1>10, <2>1, <2>2, <2>3, <3>1
    <3>2. CASE u \in 1 .. Len(history)
      <4>1. q[u] = t[u]
        BY <1>8, <2>1, <2>2, <2>3, <3>2
      <4>2. t[u] = Parse(history[u])
        BY <1>2, <1>5, <3>2 DEF Reparsed
      <4> QED
        BY <1>10, <3>2, <4>1, <4>2
    <3> QED
      BY <1>5, <3>1, <3>2
  <2> QED
    BY <1>10, <2>1, <2>3, <2>4, <2>5 DEF Reparsed
<1>12. Replayed = FlattenSeq(t) /\ Replayed' = FlattenSeq(Reparsed(h))
  BY <1>2, <1>9 DEF Replayed, Reparsed
<1>13. FlattenSeq(Append(t, Parse(e))) = FlattenSeq(t) \o Parse(e)
  BY <1>6, <1>7, <1>8, <1>12, FlattenAppend
<1> QED
  BY <1>11, <1>12, <1>13

(* What a turn runs behind the retained entries, against what the entry    *)
(* alone does in the session: they differ in what was forgotten before or  *)
(* is changed now, and if the entry reads nothing forgotten, in nothing it *)
(* changes.                                                                *)
LEMMA TurnRuns ==
  ASSUME ReplayInv, NEW t, IsSeq(t), Parses(t), NEW a, a = Run(NoNames, Replayed \o t),
         a.outcome = "ok", NEW o, o = Run(known, t)
  PROVE  /\ o.outcome = "ok" /\ Agrees(known, o.env, Names(t))
         /\ Agrees(a.env, o.env, forgotten \cup Names(t))
         /\ Ignores(t, forgotten) =>
              /\ Agrees(a.env, o.env, forgotten \ Names(t))
              /\ (\A x \in ToSet(Replayed) : ~Prints(x)) => a.printed = o.printed
<1>1. PICK r : r = Executed(NoNames, Replayed)
  OBVIOUS
<1>2. /\ Lasting(Replayed) /\ IsSeq(Replayed) /\ r.outcome = "ok"
      /\ Agrees(r.env, known, forgotten)
  <2>1. Lasting(Replayed) /\ IsSeq(Replayed)
    BY DEF ReplayInv, Lasting
  <2>2. Run(NoNames, Replayed) = r
    BY <1>1, <2>1, LastingRuns
  <2> QED
    BY <2>1, <2>2 DEF ReplayInv, ReplayRebuilds, Agrees
<1>3. PICK j : j = Replayed \o t
  OBVIOUS
<1>4. a = Executed(NoNames, j) /\ {n \in DOMAIN j : j[n].kind = "fatal"} = {}
  BY <1>3, RunsWell
<1>5. {n \in DOMAIN t : t[n].kind = "fatal"} = {}
  <2> SUFFICES ASSUME NEW n \in DOMAIN t, t[n].kind = "fatal" PROVE FALSE
    OBVIOUS
  <2>1. n \in 1 .. Len(t) /\ j[Len(Replayed) + n] = t[n] /\ Len(Replayed) + n \in DOMAIN j
    BY <1>2, <1>3, SeqsJoin
  <2> QED
    BY <1>4, <2>1
<1>6. o = Executed(known, t)
  BY <1>5, RunsIfQuiet
<1>7. PICK N \in Nat : N = Len(t) /\ DOMAIN t = 1 .. N
  BY DEF IsSeq
<1>8. Continues(a, o, forgotten \cup Names(t), FALSE)
  <2>1. PICK F : F = forgotten \cup Names(t)
    OBVIOUS
  <2>2. PICK H : H = [n \in 0 .. N |-> F]
    OBVIOUS
  <2>3. Agrees(r.env, known, F)
    BY <1>2, <2>1 DEF Agrees
  <2>4. ASSUME NEW n \in 1 .. N, NEW c, NEW d, Continues(c, d, F, FALSE)
        PROVE  Continues(Effect(NoNames, c, t[n]), Effect(known, d, t[n]), F, FALSE)
    <3>1. t[n] \in ToSet(t)
      BY <1>7 DEF ToSet
    <3>2. Own(t[n]) \subseteq F
      BY <2>1, <3>1 DEF Own, Names
    <3> QED
      BY <2>4, <3>2, EffectContinues
  <2>5. /\ H[0] = F /\ H[N] = F
        /\ \A n \in 1 .. N : H[n - 1] = F /\ H[n] = F
    BY <1>7, <2>2
  <2>6. Continues(Executed(NoNames, Replayed \o t), Executed(known, t), H[Len(t)], FALSE)
    <3>1. \A n \in 1 .. Len(t) : \A c, d :
            Continues(c, d, H[n - 1], FALSE) =>
              Continues(Effect(NoNames, c, t[n]), Effect(known, d, t[n]), H[n], FALSE)
      BY <1>7, <2>4, <2>5
    <3>2. Agrees(r.env, known, H[0])
      BY <2>3, <2>5
    <3> QED
      BY <1>1, <1>2, <3>1, <3>2, ExecutedJoins
  <2> QED
    BY <1>3, <1>4, <1>6, <1>7, <2>1, <2>5, <2>6
<1>9. ASSUME Ignores(t, forgotten), NEW quiet, quiet => r.printed = <<>>
      PROVE  Continues(a, o, forgotten \ Names(t), quiet)
  <2> DEFINE Upto(m) == {t[k].name : k \in {c \in 1 .. m : Defines(t[c])}}
  <2>1. PICK H : H = [n \in 0 .. N |-> forgotten \ Upto(n)]
    OBVIOUS
  <2>2. H[0] = forgotten
    <3>1. Upto(0) = {}
      OBVIOUS
    <3> QED
      BY <1>7, <2>1, <3>1
  <2>3. H[N] = forgotten \ Names(t)
    <3>1. ToSet(t) = {t[k] : k \in 1 .. N}
      BY <1>7 DEF ToSet
    <3>2. Upto(N) = Names(t)
      BY <3>1 DEF Names
    <3> QED
      BY <1>7, <2>1, <3>2
  <2>4. ASSUME NEW n \in 1 .. N, NEW c, NEW d, Continues(c, d, H[n - 1], quiet)
        PROVE  Continues(Effect(NoNames, c, t[n]), Effect(known, d, t[n]), H[n], quiet)
    <3>1. t[n] \in ToSet(t)
      BY <1>7 DEF ToSet
    <3>2. H[n - 1] = forgotten \ Upto(n - 1) /\ H[n] = forgotten \ Upto(n)
      BY <1>7, <2>1
    <3>3. Uses(t[n]) \cap H[n - 1] = {}
      BY <1>9, <3>1, <3>2 DEF Ignores
    <3>4. Upto(n) = Upto(n - 1) \cup Own(t[n])
      <4>1. \A k : k \in 1 .. n <=> k \in 1 .. n - 1 \/ k = n
        OBVIOUS
      <4> QED
        BY <4>1 DEF Own
    <3>5. H[n] = H[n - 1] \ Own(t[n])
      BY <3>2, <3>4
    <3>6. Continues(Effect(NoNames, c, t[n]), Effect(known, d, t[n]), H[n - 1] \ Own(t[n]), quiet)
      BY <2>4, <3>3, EffectContinues
    <3> QED
      BY <3>5, <3>6
  <2> HIDE DEF Upto
  <2>5. Continues(Executed(NoNames, Replayed \o t), Executed(known, t), H[Len(t)], quiet)
    <3>1. \A n \in 1 .. Len(t) : \A c, d :
            Continues(c, d, H[n - 1], quiet) =>
              Continues(Effect(NoNames, c, t[n]), Effect(known, d, t[n]), H[n], quiet)
      BY <1>7, <2>4
    <3>2. Agrees(r.env, known, H[0])
      BY <1>2, <2>2
    <3> QED
      BY <1>1, <1>2, <1>9, <3>1, <3>2, ExecutedJoins
  <2> QED
    BY <1>3, <1>4, <1>6, <1>7, <2>3, <2>5
<1>10. o.outcome = "ok" /\ Agrees(a.env, o.env, forgotten \cup Names(t))
  BY <1>8 DEF Continues
<1>11. Agrees(known, o.env, Names(t))
  BY <1>6, <1>10, ExecutedFrames
<1>12. ASSUME Ignores(t, forgotten)
       PROVE  /\ Agrees(a.env, o.env, forgotten \ Names(t))
              /\ (\A x \in ToSet(Replayed) : ~Prints(x)) => a.printed = o.printed
  <2>1. Continues(a, o, forgotten \ Names(t), FALSE)
    BY <1>9, <1>12
  <2>2. ASSUME \A x \in ToSet(Replayed) : ~Prints(x)
        PROVE  a.printed = o.printed
    <3>1. r.printed = <<>>
      BY <1>1, <1>2, <2>2, ExecutedQuiet
    <3>2. Continues(a, o, forgotten \ Names(t), TRUE)
      BY <1>9, <1>12, <3>1
    <3> QED
      BY <3>2 DEF Continues
  <2> QED
    BY <2>1, <2>2 DEF Continues
<1> QED
  BY <1>10, <1>11, <1>12

(* Every turn keeps the replay in agreement with the session.              *)
LEMMA EvaluateKeeps ==
  ASSUME ReplayInv, NEW e \in Seq(ReplLines), Evaluate(e)
  PROVE  /\ history' \in Seq(Seq(ReplLines)) /\ Lasting(Replayed)'
         /\ ReplayRebuilds'
<1>1. PICK c : c = Classify(e)
  OBVIOUS
<1>2. PICK a : a = IF Parses(c.tail) THEN Run(NoNames, Replayed \o c.tail)
                   ELSE [outcome |-> "error", env |-> NoNames, printed |-> <<>>]
  OBVIOUS
<1>3. /\ IsSeq(c.tail) /\ (c.pure => c.tail = Parse(e) /\ Lasting(c.tail))
      /\ history \in Seq(Seq(ReplLines)) /\ Lasting(Replayed) /\ IsSeq(Replayed)
  BY <1>1, ClassifyIs DEF ReplayInv, Lasting
<1>4. PICK k, o, t : k = Keep(c.pure, a.outcome) /\ o = Run(known, c.tail) /\ t = c.tail
  OBVIOUS
<1>5. /\ history' = IF k THEN Append(history, e) ELSE history
      /\ known' = IF a.outcome = "ok" THEN o.env ELSE known
      /\ forgotten' = IF a.outcome = "ok" THEN Forgets(t, k) ELSE forgotten
      /\ turn' = [outcome |-> a.outcome, printed |-> a.printed, own |-> o.printed,
                  exact |-> Ignores(t, forgotten)]
  BY <1>1, <1>2, <1>4 DEF Evaluate
<1>6. a.outcome = "ok" =>
        /\ a = Run(NoNames, Replayed \o t)
        /\ Agrees(known, o.env, Names(t))
        /\ Agrees(a.env, o.env, forgotten \cup Names(t))
        /\ Ignores(t, forgotten) =>
             /\ Agrees(a.env, o.env, forgotten \ Names(t))
             /\ (\A x \in ToSet(Replayed) : ~Prints(x)) => a.printed = o.printed
  <2> SUFFICES ASSUME a.outcome = "ok"
               PROVE  /\ a = Run(NoNames, Replayed \o t)
                      /\ Agrees(known, o.env, Names(t))
                      /\ Agrees(a.env, o.env, forgotten \cup Names(t))
                      /\ Ignores(t, forgotten) =>
                           /\ Agrees(a.env, o.env, forgotten \ Names(t))
                           /\ (\A x \in ToSet(Replayed) : ~Prints(x)) => a.printed = o.printed
    OBVIOUS
  <2>1. a = Run(NoNames, Replayed \o t) /\ Parses(t) /\ IsSeq(t)
    BY <1>2, <1>3, <1>4
  <2> QED
    BY <1>4, <2>1, TurnRuns
<1>7. Noise' = {s \in ToSet(Replayed') : Prints(s)}
  BY DEF Noise
<1>8. PICK r : r = Run(NoNames, Replayed) /\ r.outcome = "ok" /\ Agrees(r.env, known, forgotten)
  BY DEF ReplayInv, ReplayRebuilds, Agrees
<1>9. ToSet(Replayed) \subseteq ToSet(Replayed') =>
        (Noise' = {} /\ turn'.outcome = "ok" /\ turn'.exact => turn'.printed = turn'.own)
  BY <1>5, <1>6, <1>7
<1>10. CASE ~k
  <2>1. history' = history
    BY <1>5, <1>10
  <2>2. Replayed' = Replayed
    BY <2>1 DEF Replayed
  <2>3. Run(NoNames, Replayed)' = r
    BY <1>8, <2>2
  <2>4. Agrees(r.env, known', forgotten')
    <3>1. CASE a.outcome = "ok"
      <4>1. known' = o.env /\ forgotten' = forgotten \cup Names(t) /\ Agrees(known, o.env, Names(t))
        BY <1>5, <1>6, <1>10, <3>1 DEF Forgets
      <4> QED
        BY <1>8, <4>1 DEF Agrees
    <3>2. CASE a.outcome # "ok"
      BY <1>5, <1>8, <3>2
    <3> QED
      BY <3>1, <3>2
  <2>5. ReplayRebuilds'
    BY <1>8, <1>9, <2>2, <2>3, <2>4 DEF ReplayRebuilds, Agrees
  <2> QED
    BY <1>3, <2>1, <2>2, <2>5
<1>11. CASE k
  <2>1. /\ history' = Append(history, e)
        /\ c.pure /\ a.outcome = "ok" /\ t = Parse(e) /\ Lasting(t)
    BY <1>3, <1>4, <1>5, <1>11 DEF Keep
  <2>2. PICK j : j = Replayed \o t
    OBVIOUS
  <2>3. Replayed' = j
    BY <2>1, <2>2, ReplayedGrows
  <2>4. Lasting(j) /\ ToSet(j) = ToSet(Replayed) \cup ToSet(t)
    <3>1. ToSet(j) = ToSet(Replayed) \cup ToSet(t) /\ IsSeq(j)
      BY <1>3, <1>4, <2>2, SeqsJoin
    <3> QED
      BY <1>3, <2>1, <3>1 DEF Lasting
  <2>5. Run(NoNames, Replayed)' = a
    BY <1>6, <2>1, <2>2, <2>3
  <2>6. Agrees(a.env, known', forgotten')
    BY <1>5, <1>6, <1>11, <2>1 DEF Forgets
  <2>7. ReplayRebuilds'
    BY <1>9, <2>1, <2>3, <2>4, <2>5, <2>6 DEF ReplayRebuilds, Agrees
  <2>8. history' \in Seq(Seq(ReplLines))
    BY <1>3, <2>1
  <2>9. Lasting(Replayed)'
    BY <2>3, <2>4
  <2> QED
    BY <2>7, <2>8, <2>9
<1> QED
  BY <1>10, <1>11

(* In any session, all retained entries compiled again from nothing run    *)
(* without an error and give every name the value a session without replay *)
(* would have, but those last changed by an entry that is not retained or  *)
(* by one that read such a name; and a turn that reads none of these prints*)
(* what its entry prints, unless a retained initialiser prints again.      *)
THEOREM ReplaysRebuild == ReplSpec => []ReplayRebuilds
<1>1. ReplInit => ReplayInv
  <2> SUFFICES ASSUME ReplInit PROVE ReplayInv
    OBVIOUS
  <2>1. history = <<>> /\ buffer = <<>> /\ known = <<>> /\ forgotten = {} /\ turn = Quiet
    BY DEF ReplInit
  <2>2. PICK t : t = Reparsed(history)
    OBVIOUS
  <2>3. t = <<>>
    <3>1. DOMAIN history = {}
      BY <2>1
    <3>2. t = [u \in {} |-> Parse(history[u])]
      BY <2>2, <3>1 DEF Reparsed
    <3>3. <<>> = [u \in {} |-> Parse(history[u])]
      OBVIOUS
    <3> QED
      BY <3>2, <3>3
  <2>4. Replayed = <<>>
    <3>1. Replayed = FlattenSeq(t)
      BY <2>2 DEF Replayed, Reparsed
    <3>2. Len(t) = 0
      BY <2>3, EmptySeq
    <3>3. FlattenSeq(t) = t
      BY <3>2 DEF FlattenSeq
    <3> QED
      BY <2>3, <3>1, <3>3
  <2>5. Lasting(<<>>)
    <3>1. <<>> \in Seq({}) /\ ToSet(<<>>) = {}
      BY EmptySeq DEF ToSet
    <3> QED
      BY <3>1 DEF Lasting, IsSeq
  <2>6. Run(NoNames, <<>>) = Untouched(NoNames)
    <3>1. PICK f : Effects(NoNames, <<>>, Len(<<>>), f) /\ Executed(NoNames, <<>>) = f[Len(<<>>)]
      BY <2>5, ExecutedIs DEF Lasting
    <3>2. Len(<<>>) = 0 /\ 0 \in 0 .. 0
      BY EmptySeq
    <3>3. f[0] = Untouched(NoNames)
      BY <3>1, <3>2 DEF Effects
    <3>4. Run(NoNames, <<>>) = Executed(NoNames, <<>>)
      BY <2>5, LastingRuns
    <3> QED
      BY <3>1, <3>2, <3>3, <3>4
  <2>7. ReplayRebuilds
    <3>1. turn.printed = turn.own
      BY <2>1 DEF Quiet
    <3>2. Run(NoNames, Replayed).outcome = "ok" /\ Run(NoNames, Replayed).env = known
      BY <2>1, <2>4, <2>6 DEF Untouched, NoNames
    <3> QED
      BY <3>1, <3>2 DEF ReplayRebuilds
  <2>8. buffer \in Seq(ReplLines) /\ history \in Seq(Seq(ReplLines))
    BY <2>1, EmptySeq
  <2> QED
    BY <2>4, <2>5, <2>7, <2>8 DEF ReplayInv
<1>2. ReplayInv /\ [ReplNext]_replVars => ReplayInv'
  <2> SUFFICES ASSUME ReplayInv, [ReplNext]_replVars PROVE ReplayInv'
    OBVIOUS
  <2>1. ASSUME UNCHANGED <<history, known, forgotten, turn>>, buffer' \in Seq(ReplLines) PROVE ReplayInv'
    <3>1. Replayed' = Replayed
      BY <2>1 DEF Replayed
    <3>2. Noise' = Noise
      BY <3>1 DEF Noise
    <3>3. PICK r : r = Run(NoNames, Replayed)
      OBVIOUS
    <3>4. Run(NoNames, Replayed)' = r
      BY <3>1, <3>3
    <3>5. ReplayRebuilds'
      BY <2>1, <3>2, <3>3, <3>4 DEF ReplayInv, ReplayRebuilds
    <3>6. Lasting(Replayed)'
      BY <3>1 DEF ReplayInv
    <3> QED
      BY <2>1, <3>5, <3>6 DEF ReplayInv
  <2>2. buffer \in Seq(ReplLines)
    BY DEF ReplayInv
  <2>3. CASE SkipBlank \/ Quit \/ UNCHANGED replVars
    BY <2>1, <2>2, <2>3 DEF SkipBlank, Quit, replVars
  <2>4. ASSUME NEW l \in ReplLines, ReadOn(l) PROVE ReplayInv'
    <3>1. buffer' \in Seq(ReplLines)
      BY <2>2, <2>4 DEF ReadOn
    <3> QED
      BY <2>1, <2>4, <3>1 DEF ReadOn
  <2>5. ASSUME NEW l \in ReplLines, ReadAndEvaluate(l) PROVE ReplayInv'
    <3>0. Append(buffer, l) \in Seq(ReplLines)
      BY <2>2
    <3>1. PICK e : e = Append(buffer, l) /\ e \in Seq(ReplLines)
      BY <3>0
    <3>2. Evaluate(e) /\ buffer' = <<>>
      BY <2>5, <3>1 DEF ReadAndEvaluate
    <3>3. /\ history' \in Seq(Seq(ReplLines)) /\ Lasting(Replayed)'
          /\ ReplayRebuilds'
      BY <3>1, <3>2, EvaluateKeeps
    <3>4. buffer' \in Seq(ReplLines)
      BY <3>2, EmptySeq
    <3> QED
      BY <3>3, <3>4 DEF ReplayInv
  <2> QED
    BY <2>3, <2>4, <2>5 DEF ReplNext
<1>3. ReplayInv => ReplayRebuilds
  BY DEF ReplayInv
<1> QED
  BY <1>1, <1>2, <1>3, PTL DEF ReplSpec

(***************************************************************************)
(* The formatter.                                                          *)
(***************************************************************************)
Kind == Comment \cup TokenKind
Typed == [kind : Kind, text : STRING, gap : Nat]
PlacedItem == [kind : Kind, text : STRING, line : Nat]
Space == {"", " ", "newline", "blank"}
PrintedItem == [kind : Kind, text : STRING, space : Space, depth : Nat]

\* The rules tell a float from an int no more than the printed text does.
Smoothed(kind) == IF kind = "float" THEN "int" ELSE kind

\* What the printer knows between two items, and what an item makes of it.
Start == [indent |-> 0, loop |-> FALSE, prev |-> NoKind, force |-> FALSE]

Shallower(st, kind) ==
  IF kind = "end" /\ st.indent > 0 THEN st.indent - 1 ELSE st.indent

After(st, kind) ==
  IF kind \in Comment
  THEN [indent |-> st.indent, loop |-> st.loop, prev |-> st.prev, force |-> TRUE]
  ELSE [indent |-> Shallower(st, kind) + (IF kind = "begin" THEN 1 ELSE 0),
        loop   |-> IF kind = "begin" THEN FALSE ELSE IF kind = "loop" THEN TRUE ELSE st.loop,
        prev   |-> kind,
        force  |-> FALSE]

\* What it knows before each of the first N items of a text, and after them.
Knows(t, N, g) ==
  g = [n \in 0 .. N |-> IF n = 0 THEN Start ELSE After(g[n - 1], Smoothed(t[n].kind))]

PrinterState == [indent : Nat, loop : BOOLEAN, prev : Kind \cup {NoKind}, force : BOOLEAN]

(* There is such knowledge for as many items as are asked for.             *)
LEMMA KnowsExist ==
  ASSUME NEW t, NEW N \in Nat
  PROVE  \E g : Knows(t, N, g)
<1> DEFINE S == {n \in Nat : ~ \E g : Knows(t, n, g)}
<1>1. SUFFICES ASSUME S # {}
               PROVE  FALSE
  OBVIOUS
<1>2. PICK m \in S : \A k \in S : m <= k
  BY <1>1, LeastNumber
<1>3. CASE m = 0
  <2>1. PICK v : v = Start
    OBVIOUS
  <2> DEFINE f == [n \in 0 .. 0 |-> v]
  <2>2. Knows(t, 0, f)
    BY <2>1 DEF Knows
  <2> QED
    BY <1>3, <2>2
<1>4. CASE m > 0
  <2>1. m - 1 \in Nat /\ m - 1 \notin S
    BY <1>2, <1>4
  <2>2. PICK h : Knows(t, m - 1, h)
    BY <2>1
  <2>3. PICK v : v = IF m = 0 THEN Start ELSE After(h[m - 1], Smoothed(t[m].kind))
    OBVIOUS
  <2> DEFINE f == [n \in 0 .. m |-> IF n = m THEN v ELSE h[n]]
  <2>4. ASSUME NEW n \in 0 .. m
        PROVE  f[n] = IF n = 0 THEN Start ELSE After(f[n - 1], Smoothed(t[n].kind))
    <3>1. CASE n = m
      <4>1. n # 0 => n - 1 \in 0 .. m /\ n - 1 # m
        BY <1>4, <3>1
      <4> QED
        BY <2>3, <3>1, <4>1
    <3>2. CASE n # m
      <4>1. n \in 0 .. m - 1 /\ (n # 0 => n - 1 \in 0 .. m /\ n - 1 # m)
        BY <3>2
      <4>2. h[n] = IF n = 0 THEN Start ELSE After(h[n - 1], Smoothed(t[n].kind))
        BY <2>2, <4>1 DEF Knows
      <4>3. f[n] = h[n] /\ (n # 0 => f[n - 1] = h[n - 1])
        BY <3>2, <4>1
      <4> QED
        BY <4>2, <4>3
    <3> QED
      BY <3>1, <3>2
  <2>5. Knows(t, m, f)
    BY <2>4 DEF Knows
  <2> QED
    BY <2>5
<1> QED
  BY <1>3, <1>4

(* An item takes the printer from one state to another.                    *)
LEMMA AfterTyped ==
  ASSUME NEW st \in PrinterState, NEW kind \in Kind
  PROVE  After(st, kind) \in PrinterState
<1>1. PICK in, lp, pr, fo : /\ st = [indent |-> in, loop |-> lp, prev |-> pr, force |-> fo]
                            /\ in \in Nat /\ lp \in BOOLEAN /\ pr \in Kind \cup {NoKind}
  BY DEF PrinterState
<1>2. st.indent = in /\ st.loop = lp /\ st.prev = pr
  BY <1>1
<1>3. CASE kind \in Comment
  BY <1>1, <1>2, <1>3 DEF PrinterState, After
<1>4. CASE kind \notin Comment
  <2>1. PICK d : d = Shallower(st, kind) + (IF kind = "begin" THEN 1 ELSE 0)
    OBVIOUS
  <2>2. d \in Nat
    BY <1>1, <1>2, <2>1 DEF Shallower
  <2>3. PICK v : v = IF kind = "begin" THEN FALSE ELSE IF kind = "loop" THEN TRUE ELSE st.loop
    OBVIOUS
  <2>4. v \in BOOLEAN
    BY <1>1, <1>2, <2>3
  <2>5. After(st, kind) = [indent |-> d, loop |-> v, prev |-> kind, force |-> FALSE]
    BY <1>4, <2>1, <2>3 DEF After
  <2> QED
    BY <2>2, <2>4, <2>5 DEF PrinterState
<1> QED
  BY <1>3, <1>4

(* What the printer knows is a state of it, before every item.             *)
LEMMA KnowsTyped ==
  ASSUME NEW t \in Seq(Typed), NEW g, Knows(t, Len(t), g)
  PROVE  /\ g[0] = Start
         /\ \A k \in 1 .. Len(t) : g[k] = After(g[k - 1], Smoothed(t[k].kind))
         /\ \A k \in 0 .. Len(t) : g[k] \in PrinterState
<1>1. PICK N \in Nat : N = Len(t)
  OBVIOUS
<1>2. /\ g[0] = Start
      /\ \A k \in 1 .. N : g[k] = After(g[k - 1], Smoothed(t[k].kind))
  BY <1>1 DEF Knows
<1>3. \A k \in 1 .. N : t[k].kind \in Kind /\ Smoothed(t[k].kind) \in Kind
  <2> SUFFICES ASSUME NEW k \in 1 .. N
               PROVE  t[k].kind \in Kind /\ Smoothed(t[k].kind) \in Kind
    OBVIOUS
  <2>1. t[k] \in Typed
    BY <1>1, ElementOfSeq
  <2> QED
    BY <2>1 DEF Typed, Smoothed, Kind, TokenKind, WordKind
<1> DEFINE S == {k \in 0 .. N : g[k] \notin PrinterState}
<1>4. ASSUME S # {} PROVE FALSE
  <2>1. S \in SUBSET Nat
    OBVIOUS
  <2> HIDE DEF S
  <2>2. PICK m \in S : \A k \in S : m <= k
    BY <1>4, <2>1, LeastNumber
  <2> USE DEF S
  <2>3. m # 0
    <3>1. Start \in PrinterState
      BY DEF Start, PrinterState
    <3> QED
      BY <1>2, <3>1
  <2>4. m \in 1 .. N /\ m - 1 \in 0 .. N /\ ~(m <= m - 1)
    BY <2>3
  <2>5. g[m - 1] \in PrinterState
    BY <2>2, <2>4
  <2> QED
    BY <1>2, <1>3, <2>4, <2>5, AfterTyped
<1> QED
  BY <1>1, <1>2, <1>4

(***************************************************************************)
(* Where the items of a text stand.                                        *)
(***************************************************************************)
\* The lines of the first N items of a text.
Rows(s, down, N, f) ==
  f = [n \in 1 .. N |-> (IF n = 1 THEN 1 ELSE f[n - 1] + Tall(s[n - 1])) + down[n]]

(* They exist for as many items as are asked for.                          *)
LEMMA RowsExist ==
  ASSUME NEW s, NEW down, NEW N \in Nat
  PROVE  \E f : Rows(s, down, N, f)
<1> DEFINE S == {n \in Nat : ~ \E f : Rows(s, down, n, f)}
<1>1. SUFFICES ASSUME S # {}
               PROVE  FALSE
  OBVIOUS
<1>2. PICK m \in S : \A k \in S : m <= k
  BY <1>1, LeastNumber
<1>3. CASE m = 0
  <2> DEFINE f == [n \in 1 .. 0 |-> 0]
  <2>2. Rows(s, down, 0, f)
    BY DEF Rows
  <2> QED
    BY <1>3, <2>2
<1>4. CASE m > 0
  <2>1. m - 1 \in Nat /\ m - 1 \notin S
    BY <1>2, <1>4
  <2>2. PICK h : Rows(s, down, m - 1, h)
    BY <2>1
  <2>3. PICK v : v = (IF m = 1 THEN 1 ELSE h[m - 1] + Tall(s[m - 1])) + down[m]
    OBVIOUS
  <2> DEFINE f == [n \in 1 .. m |-> IF n = m THEN v ELSE h[n]]
  <2>4. ASSUME NEW n \in 1 .. m
        PROVE  f[n] = (IF n = 1 THEN 1 ELSE f[n - 1] + Tall(s[n - 1])) + down[n]
    <3>1. CASE n = m
      <4>1. n # 1 => n - 1 \in 1 .. m /\ n - 1 # m
        BY <1>4, <3>1
      <4> QED
        BY <2>3, <3>1, <4>1
    <3>2. CASE n # m
      <4>1. n \in 1 .. m - 1 /\ (n # 1 => n - 1 \in 1 .. m /\ n - 1 # m)
        BY <3>2
      <4>2. h[n] = (IF n = 1 THEN 1 ELSE h[n - 1] + Tall(s[n - 1])) + down[n]
        BY <2>2, <4>1 DEF Rows
      <4>3. f[n] = h[n] /\ (n # 1 => f[n - 1] = h[n - 1])
        BY <3>2, <4>1
      <4> QED
        BY <4>2, <4>3
    <3> QED
      BY <3>1, <3>2
  <2>5. Rows(s, down, m, f)
    BY <2>4 DEF Rows
  <2> QED
    BY <2>5
<1> QED
  BY <1>3, <1>4

\* The line an item of a text goes down from.
Below(p, k) == IF k = 1 THEN 1 ELSE EndLine(p[k - 1])

(* Each item stands as far below the one before it as it is to.            *)
LEMMA PlacedIs ==
  ASSUME NEW T, NEW s \in Seq(T), NEW down, NEW p, p = Placed(s, down),
         \A e \in T : e.kind \in Kind /\ e.text \in STRING,
         \A k \in 1 .. Len(s) : down[k] \in Nat
  PROVE  /\ p \in Seq(PlacedItem) /\ Len(p) = Len(s)
         /\ DOMAIN p = 1 .. Len(s)
         /\ \A k \in 1 .. Len(s) : /\ p[k].kind = s[k].kind
                                   /\ p[k].text = s[k].text
                                   /\ p[k].line = Below(p, k) + down[k]
<1>1. PICK N \in Nat : N = Len(s)
  OBVIOUS
<1>2. DOMAIN s = 1 .. N
  BY <1>1, LenProperties
<1>3. \E f : Rows(s, down, N, f)
  BY RowsExist
<1> DEFINE R == CHOOSE f : f = [n \in 1 .. N |->
                                  (IF n = 1 THEN 1 ELSE f[n - 1] + Tall(s[n - 1])) + down[n]]
<1>4. R = [n \in 1 .. N |-> (IF n = 1 THEN 1 ELSE R[n - 1] + Tall(s[n - 1])) + down[n]]
  BY <1>3 DEF Rows
<1>5. p = [k \in 1 .. N |-> [kind |-> s[k].kind, text |-> s[k].text, line |-> R[k]]]
  BY <1>2 DEF Placed
<1>6. \A n \in 1 .. N : R[n] = (IF n = 1 THEN 1 ELSE R[n - 1] + Tall(s[n - 1])) + down[n]
  <2> HIDE DEF R
  <2> QED
    BY <1>4
<1> HIDE DEF R
<1> DEFINE S == {k \in 1 .. N : R[k] \notin Nat}
<1>7. ASSUME S # {} PROVE FALSE
  <2>1. S \in SUBSET Nat
    OBVIOUS
  <2> HIDE DEF S
  <2>2. PICK m \in S : \A k \in S : m <= k
    BY <1>7, <2>1, LeastNumber
  <2> USE DEF S
  <2>3. m \in 1 .. N /\ R[m] = (IF m = 1 THEN 1 ELSE R[m - 1] + Tall(s[m - 1])) + down[m]
        /\ down[m] \in Nat
    BY <1>1, <1>6
  <2>4. m # 1 => m - 1 \in 1 .. N /\ ~(m <= m - 1)
    BY <2>3
  <2>5. m # 1 => R[m - 1] \in Nat
    BY <2>2, <2>4
  <2>6. m # 1 => Tall(s[m - 1]) \in Nat
    BY DEF Tall
  <2> QED
    BY <2>2, <2>3, <2>5, <2>6
<1>8. ASSUME NEW k \in 1 .. N
      PROVE  /\ p[k].kind = s[k].kind /\ p[k].text = s[k].text /\ p[k].line = R[k]
             /\ p[k] \in PlacedItem
  <2>1. s[k] \in T
    BY <1>1, ElementOfSeq
  <2>2. R[k] \in Nat
    BY <1>7
  <2> QED
    BY <1>5, <2>1, <2>2 DEF PlacedItem
<1>9. p \in Seq(PlacedItem) /\ Len(p) = N /\ DOMAIN p = 1 .. N
  <2>1. p \in [1 .. N -> PlacedItem]
    BY <1>5, <1>8
  <2> QED
    BY <2>1
<1>10. ASSUME NEW k \in 1 .. N
       PROVE  p[k].line = Below(p, k) + down[k]
  <2>1. R[k] = (IF k = 1 THEN 1 ELSE R[k - 1] + Tall(s[k - 1])) + down[k]
    BY <1>6
  <2>2. CASE k = 1
    BY <1>8, <2>1, <2>2 DEF Below
  <2>3. CASE k # 1
    <3>1. PICK j \in 1 .. N : j = k - 1
      BY <2>3
    <3>2. p[j].line = R[j] /\ p[j].kind = s[j].kind
      BY <1>8
    <3>3. EndLine(p[j]) = R[j] + Tall(s[j])
      BY <3>2 DEF EndLine, Tall
    <3> QED
      BY <1>8, <2>1, <2>3, <3>1, <3>3 DEF Below
  <2> QED
    BY <2>2, <2>3
<1> QED
  BY <1>1, <1>8, <1>9, <1>10

(***************************************************************************)
(* The printed text, read back.                                            *)
(***************************************************************************)
\* Nothing before an item takes it in.
Apart(before, it) ==
  \/ it.space \notin {"", " "}
  \/ /\ before.kind # "line"
     /\ it.space # "" \/ ~({before.kind, it.kind} \subseteq WordKind)

\* What is read of each of the first N items.
Reads(p, N, f) ==
  f = [n \in 0 .. N |-> IF n = 0 THEN <<>> ELSE ReadBack(f[n - 1], p[n])]

(* It exists for as many items as are asked for.                           *)
LEMMA ReadsExist ==
  ASSUME NEW p, NEW N \in Nat
  PROVE  \E f : Reads(p, N, f)
<1> DEFINE S == {n \in Nat : ~ \E f : Reads(p, n, f)}
<1>1. SUFFICES ASSUME S # {}
               PROVE  FALSE
  OBVIOUS
<1>2. PICK m \in S : \A k \in S : m <= k
  BY <1>1, LeastNumber
<1>3. CASE m = 0
  <2>1. PICK v : v = <<>>
    OBVIOUS
  <2> DEFINE f == [n \in 0 .. 0 |-> v]
  <2>2. Reads(p, 0, f)
    BY <2>1 DEF Reads
  <2> QED
    BY <1>3, <2>2
<1>4. CASE m > 0
  <2>1. m - 1 \in Nat /\ m - 1 \notin S
    BY <1>2, <1>4
  <2>2. PICK h : Reads(p, m - 1, h)
    BY <2>1
  <2>3. PICK v : v = IF m = 0 THEN <<>> ELSE ReadBack(h[m - 1], p[m])
    OBVIOUS
  <2> DEFINE f == [n \in 0 .. m |-> IF n = m THEN v ELSE h[n]]
  <2>4. ASSUME NEW n \in 0 .. m
        PROVE  f[n] = IF n = 0 THEN <<>> ELSE ReadBack(f[n - 1], p[n])
    <3>1. CASE n = m
      <4>1. n # 0 => n - 1 \in 0 .. m /\ n - 1 # m
        BY <1>4, <3>1
      <4> QED
        BY <2>3, <3>1, <4>1
    <3>2. CASE n # m
      <4>1. n \in 0 .. m - 1 /\ (n # 0 => n - 1 \in 0 .. m /\ n - 1 # m)
        BY <3>2
      <4>2. h[n] = IF n = 0 THEN <<>> ELSE ReadBack(h[n - 1], p[n])
        BY <2>2, <4>1 DEF Reads
      <4>3. f[n] = h[n] /\ (n # 0 => f[n - 1] = h[n - 1])
        BY <3>2, <4>1
      <4> QED
        BY <4>2, <4>3
    <3> QED
      BY <3>1, <3>2
  <2>5. Reads(p, m, f)
    BY <2>4 DEF Reads
  <2> QED
    BY <2>5
<1> QED
  BY <1>3, <1>4

(* An item that stands apart is read as it was printed.                    *)
LEMMA ReadApart ==
  ASSUME NEW s \in Seq(PrintedItem), NEW it,
         s # <<>> => Apart(s[Len(s)], it)
  PROVE  ReadBack(s, it) = Append(s, it)
<1>1. PICK b : b = s[Len(s)]
  OBVIOUS
<1>2. Last(s) = b
  BY <1>1 DEF Last
<1>3. ~( /\ s # <<>>
         /\ it.space \in {"", " "}
         /\ \/ b.kind = "line"
            \/ it.space = "" /\ {b.kind, it.kind} \subseteq WordKind)
  BY <1>1 DEF Apart
<1> QED
  BY <1>2, <1>3 DEF ReadBack

(* A printed text whose items stand apart is read as it was printed.       *)
LEMMA LexedIs ==
  ASSUME NEW p \in Seq(PrintedItem), \A k \in 2 .. Len(p) : Apart(p[k - 1], p[k])
  PROVE  Lexed(p) = Placed(p, [k \in 1 .. Len(p) |-> Lines(p[k])])
<1>1. PICK N \in Nat : N = Len(p)
  OBVIOUS
<1>2. DOMAIN p = 1 .. N
  BY <1>1, LenProperties
<1>3. \E f : Reads(p, N, f)
  BY ReadsExist
<1> DEFINE R == CHOOSE f : f = [n \in 0 .. N |-> IF n = 0 THEN <<>> ELSE ReadBack(f[n - 1], p[n])]
<1>4. R = [n \in 0 .. N |-> IF n = 0 THEN <<>> ELSE ReadBack(R[n - 1], p[n])]
  BY <1>3 DEF Reads
<1>5. Lexed(p) = Placed(R[N], [k \in DOMAIN R[N] |-> Lines(R[N][k])])
  BY <1>1 DEF Lexed
<1>6. \A n \in 0 .. N : R[n] = IF n = 0 THEN <<>> ELSE ReadBack(R[n - 1], p[n])
  <2> HIDE DEF R
  <2> QED
    BY <1>4
<1> HIDE DEF R
<1> DEFINE S == {k \in 0 .. N : R[k] # SubSeq(p, 1, k)}
<1>7. ASSUME S # {} PROVE FALSE
  <2>1. S \in SUBSET Nat
    OBVIOUS
  <2> HIDE DEF S
  <2>2. PICK m \in S : \A k \in S : m <= k
    BY <1>7, <2>1, LeastNumber
  <2> USE DEF S
  <2>3. m \in 0 .. N /\ R[m] # SubSeq(p, 1, m)
    BY <2>2
  <2>4. m # 0
    <3>1. SubSeq(p, 1, 0) = <<>>
      BY SubSeqEmpty
    <3> QED
      BY <1>6, <2>3, <3>1
  <2>5. PICK j \in 0 .. N : j = m - 1 /\ m = j + 1 /\ m \in 1 .. N
    BY <2>3, <2>4
  <2>6. R[j] = SubSeq(p, 1, j)
    <3>1. ~(m <= j)
      BY <2>5
    <3> QED
      BY <2>2, <3>1
  <2>7. PICK q : q = SubSeq(p, 1, j)
    OBVIOUS
  <2>8. \A x \in 1 .. j : p[x] \in PrintedItem
    BY <1>1, ElementOfSeq
  <2>9. q \in Seq(PrintedItem) /\ Len(q) = j /\ \A x \in 1 .. j : q[x] = p[x]
    <3>1. /\ SubSeq(p, 1, j) \in Seq(PrintedItem)
          /\ Len(SubSeq(p, 1, j)) = IF 1 <= j THEN j - 1 + 1 ELSE 0
          /\ \A x \in 1 .. j - 1 + 1 : SubSeq(p, 1, j)[x] = p[1 + x - 1]
      BY <2>8, SubSeqProperties
    <3> QED
      BY <2>7, <3>1
  <2>10. q # <<>> => Apart(q[Len(q)], p[m])
    <3> SUFFICES ASSUME q # <<>> PROVE Apart(q[Len(q)], p[m])
      OBVIOUS
    <3>1. j # 0
      BY <2>9, EmptySeq
    <3>2. m \in 2 .. N /\ m - 1 = j /\ q[Len(q)] = p[j]
      BY <2>5, <2>9, <3>1
    <3>3. Apart(p[m - 1], p[m])
      BY <1>1, <3>2
    <3> QED
      BY <3>2, <3>3
  <2>11. R[m] = Append(q, p[m])
    <3>1. R[m] = ReadBack(q, p[m])
      BY <1>6, <2>4, <2>5, <2>6, <2>7
    <3> QED
      BY <2>9, <2>10, <3>1, ReadApart
  <2>12. SubSeq(p, 1, m) = Append(q, p[m])
    <3>1. m \in 1 .. Len(p) /\ 1 \in 1 .. Len(p) /\ p[m] \in PrintedItem
      BY <1>1, <2>5, ElementOfSeq
    <3>2. SubSeq(p, 1, m) = SubSeq(p, 1, m - 1) \o << p[m] >>
      BY <3>1, SubSeqRecursiveSecond
    <3>3. Append(q, p[m]) = q \o << p[m] >>
      BY <2>9, <3>1, AppendIsConcat
    <3> QED
      BY <2>5, <2>7, <3>2, <3>3
  <2> QED
    BY <2>3, <2>11, <2>12
<1>8. R[N] = p
  <2>1. R[N] = SubSeq(p, 1, N)
    BY <1>7
  <2> QED
    BY <1>1, <2>1, SubSeqFull
<1> QED
  BY <1>1, <1>2, <1>5, <1>8
(***************************************************************************)
(* What is printed for each item, whatever lines it is on.                 *)
(***************************************************************************)
Breaks(st, kind) ==
  \/ st.force
  \/ st.prev = "semi" /\ ~st.loop
  \/ st.prev = "begin"
  \/ st.prev = "end" /\ kind # "orelse"

Spaced(st, kind) ==
  /\ st.prev \notin {NoKind, "lparen"}
  /\ kind \notin {"semi", "comma", "rparen"}
  /\ kind = "lparen" => st.prev \notin {"ident", "rparen"}

Broken(k) == IF k = 1 THEN {""} ELSE {"newline", "blank"}

\* A comment that goes on in the line of the item before it.
Trails(t, k, o) == k # 1 /\ t[k - 1].kind # "line" /\ o.space = " " /\ o.depth = 0

\* One may be printed for the k-th item of t; st is what is known before it.
FitsComment(t, st, k, o) ==
  Trails(t, k, o) \/ (o.space \in Broken(k) /\ o.depth = st.indent)

FitsToken(t, st, k, o) ==
  IF Breaks(st, Smoothed(t[k].kind))
  THEN o.space \in Broken(k) /\ o.depth = Shallower(st, Smoothed(t[k].kind))
  ELSE /\ o.space = IF Spaced(st, Smoothed(t[k].kind)) THEN " " ELSE ""
       /\ o.depth = 0

Fits(t, st, k, o) ==
  /\ o \in PrintedItem
  /\ o.kind = Written(t[k].kind, t[k].text)
  /\ o.text = t[k].text
  /\ t[k].kind \in Comment => FitsComment(t, st, k, o)
  /\ t[k].kind \notin Comment => FitsToken(t, st, k, o)

(* What is printed for an item is known from the white space before it.    *)
LEMMA KnownBySpace ==
  ASSUME NEW t, NEW st, NEW k, NEW o, NEW q, Fits(t, st, k, o), Fits(t, st, k, q),
         o.space = q.space
  PROVE  o = q
<1>1. o \in PrintedItem /\ q \in PrintedItem /\ o.kind = q.kind /\ o.text = q.text
  BY DEF Fits
<1>2. o.depth = q.depth
  <2>1. CASE t[k].kind \in Comment
    BY <2>1 DEF Fits, FitsComment, Trails, Broken
  <2>2. CASE t[k].kind \notin Comment
    BY <2>2 DEF Fits, FitsToken
  <2> QED
    BY <2>1, <2>2
<1>3. PICK a, b, c, d : o = [kind |-> a, text |-> b, space |-> c, depth |-> d]
  BY <1>1 DEF PrintedItem
<1>4. PICK e, f, h, l : q = [kind |-> e, text |-> f, space |-> h, depth |-> l]
  BY <1>1 DEF PrintedItem
<1>5. a = e /\ b = f /\ c = h /\ d = l
  <2>1. o.kind = a /\ o.text = b /\ o.space = c /\ o.depth = d
    BY <1>3
  <2>2. q.kind = e /\ q.text = f /\ q.space = h /\ q.depth = l
    BY <1>4
  <2> QED
    BY <1>1, <1>2, <2>1, <2>2
<1> QED
  BY <1>3, <1>4, <1>5

(* Writing a whole float as an int is the only change of a kind.           *)
LEMMA WrittenIs ==
  ASSUME NEW kind \in Kind, NEW txt
  PROVE  /\ Written(kind, txt) \in Kind
         /\ Smoothed(Written(kind, txt)) = Smoothed(kind)
         /\ Written(Written(kind, txt), txt) = Written(kind, txt)
         /\ Written(kind, txt) \in Comment <=> kind \in Comment
         /\ Written(kind, txt) = "line" <=> kind = "line"
         /\ Written(kind, txt) \in WordKind <=> kind \in WordKind
         /\ Smoothed(kind) \in Comment <=> kind \in Comment
         /\ Smoothed(kind) \in WordKind <=> kind \in WordKind
         /\ Smoothed(kind) \in Kind
<1>1. CASE kind = "float"
  BY <1>1 DEF Written, Smoothed, Kind, Comment, TokenKind, WordKind
<1>2. CASE kind # "float"
  BY <1>2 DEF Written, Smoothed, Kind, Comment, TokenKind, WordKind
<1> QED
  BY <1>1, <1>2

(* No item that fits takes in, or melts with, the one that fits after it.  *)
LEMMA FitsApart ==
  ASSUME NEW t \in Seq(Typed), NEW st \in PrinterState, NEW stt,
         NEW k \in 2 .. Len(t), st = After(stt, Smoothed(t[k - 1].kind)),
         NEW o, NEW q, Fits(t, stt, k - 1, o), Fits(t, st, k, q)
  PROVE  Apart(o, q)
<1>1. PICK a, b : a = t[k - 1] /\ b = t[k]
  OBVIOUS
<1>2. a \in Typed /\ b \in Typed
  <2>1. k - 1 \in 1 .. Len(t) /\ k \in 1 .. Len(t)
    OBVIOUS
  <2> QED
    BY <1>1, <2>1, ElementOfSeq
<1>3. a.kind \in Kind /\ b.kind \in Kind
  BY <1>2 DEF Typed
<1>4. o.kind = Written(a.kind, a.text) /\ q.kind = Written(b.kind, b.text)
  BY <1>1 DEF Fits
<1>5. /\ o.kind = "line" <=> a.kind = "line"
      /\ o.kind \in WordKind <=> a.kind \in WordKind
      /\ q.kind \in WordKind <=> b.kind \in WordKind
  <2>1. \A kind \in Kind : \A txt :
          /\ Written(kind, txt) = "line" <=> kind = "line"
          /\ Written(kind, txt) \in WordKind <=> kind \in WordKind
    BY WrittenIs
  <2>2. /\ o.kind = "line" <=> a.kind = "line"
        /\ o.kind \in WordKind <=> a.kind \in WordKind
    BY <1>3, <1>4, <2>1
  <2>3. q.kind \in WordKind <=> b.kind \in WordKind
    BY <1>3, <1>4, <2>1
  <2> QED
    BY <2>2, <2>3
<1>6. Broken(k) = {"newline", "blank"}
  <2>1. k # 1
    OBVIOUS
  <2> QED
    BY <2>1 DEF Broken
<1>7. CASE b.kind \in Comment
  <2>1. FitsComment(t, st, k, q)
    BY <1>1, <1>7 DEF Fits
  <2>2. q.space \in {"newline", "blank"} \/ (a.kind # "line" /\ q.space = " ")
    BY <1>1, <1>6, <2>1 DEF FitsComment, Trails
  <2> QED
    BY <1>5, <2>2 DEF Apart
<1>8. CASE b.kind \notin Comment
  <2>1. FitsToken(t, st, k, q)
    BY <1>1, <1>8 DEF Fits
  <2>2. CASE a.kind \in Comment
    <3>1. Smoothed(a.kind) \in Comment
      BY <1>3, <2>2, WrittenIs
    <3>2. st.force = TRUE
      BY <1>1, <3>1 DEF After
    <3>3. q.space \in {"newline", "blank"}
      BY <1>6, <2>1, <3>2 DEF FitsToken, Breaks
    <3> QED
      BY <3>3 DEF Apart
  <2>3. CASE a.kind \notin Comment
    <3>1. a.kind # "line"
      BY <2>3 DEF Comment
    <3>2. CASE a.kind \in WordKind /\ b.kind \in WordKind
      <4>1. PICK ka, kb : ka = Smoothed(a.kind) /\ kb = Smoothed(b.kind)
        OBVIOUS
      <4>2. ka \in WordKind /\ kb \in WordKind /\ ka \notin Comment
        BY <1>3, <2>3, <3>2, <4>1, WrittenIs
      <4>3. st.prev = ka
        BY <1>1, <4>1, <4>2 DEF After
      <4>4. Spaced(st, kb)
        BY <4>2, <4>3 DEF Spaced, WordKind, NoKind
      <4>5. q.space \in {"newline", "blank"} \/ q.space = " "
        BY <1>1, <1>6, <2>1, <4>1, <4>4 DEF FitsToken
      <4> QED
        BY <1>5, <3>1, <4>5 DEF Apart
    <3>3. CASE ~(a.kind \in WordKind /\ b.kind \in WordKind)
      BY <1>5, <3>1, <3>3 DEF Apart
    <3> QED
      BY <3>2, <3>3
  <2> QED
    BY <2>2, <2>3
<1> QED
  BY <1>7, <1>8

\* Everything printed fits.
AllFit(t, g, p) == \A k \in 1 .. Len(p) : Fits(t, g[k - 1], k, p[k])

(* What fits reads back as it is.                                          *)
LEMMA FitReadsBack ==
  ASSUME NEW t \in Seq(Typed), NEW g, Knows(t, Len(t), g),
         NEW p \in Seq(PrintedItem), Len(p) = Len(t), AllFit(t, g, p)
  PROVE  Lexed(p) = Placed(p, [k \in 1 .. Len(p) |-> Lines(p[k])])
<1>1. ASSUME NEW k \in 2 .. Len(p)
      PROVE  Apart(p[k - 1], p[k])
  <2>1. PICK j : j = k - 1
    OBVIOUS
  <2>2. j \in 1 .. Len(p) /\ k \in 1 .. Len(p) /\ j \in 0 .. Len(p) /\ j - 1 \in 0 .. Len(p)
    BY <2>1
  <2>3. Fits(t, g[j - 1], j, p[j]) /\ Fits(t, g[k - 1], k, p[k])
    BY <2>2 DEF AllFit
  <2>4. g[j] = After(g[j - 1], Smoothed(t[j].kind)) /\ g[j] \in PrinterState
    BY <2>2, KnowsTyped
  <2>5. \A st, stt : st \in PrinterState /\ st = After(stt, Smoothed(t[k - 1].kind))
           /\ Fits(t, stt, k - 1, p[j]) /\ Fits(t, st, k, p[k]) => Apart(p[j], p[k])
    BY FitsApart
  <2> QED
    BY <2>1, <2>3, <2>4, <2>5
<1> QED
  BY <1>1, LexedIs

(* The lines of what is printed are natural numbers.                       *)
LEMMA PrintedPlaced ==
  ASSUME NEW p \in Seq(PrintedItem), NEW l, l = Placed(p, [k \in 1 .. Len(p) |-> Lines(p[k])])
  PROVE  /\ l \in Seq(PlacedItem) /\ Len(l) = Len(p) /\ DOMAIN l = 1 .. Len(p)
         /\ \A k \in 1 .. Len(p) : /\ l[k].kind = p[k].kind
                                   /\ l[k].text = p[k].text
                                   /\ l[k].line = Below(l, k) + Lines(p[k])
<1>1. PICK down : down = [k \in 1 .. Len(p) |-> Lines(p[k])]
  OBVIOUS
<1>2. \A k \in 1 .. Len(p) : down[k] = Lines(p[k]) /\ down[k] \in Nat
  BY <1>1 DEF Lines
<1>3. \A e \in PrintedItem : e.kind \in Kind /\ e.text \in STRING
  BY DEF PrintedItem
<1>4. /\ l \in Seq(PlacedItem) /\ Len(l) = Len(p) /\ DOMAIN l = 1 .. Len(p)
      /\ \A k \in 1 .. Len(p) : /\ l[k].kind = p[k].kind
                                /\ l[k].text = p[k].text
                                /\ l[k].line = Below(l, k) + down[k]
  BY <1>1, <1>2, <1>3, PlacedIs
<1> QED
  BY <1>2, <1>4

(***************************************************************************)
(* What the printer keeps true.                                            *)
(***************************************************************************)
\* The text being formatted has the items of the source, on lines of its own.
SameItems ==
  /\ source \in Sources /\ source \in Seq(Typed)
  /\ items \in Seq(PlacedItem) /\ Len(items) = Len(source)
  /\ \A k \in 1 .. Len(source) :
       /\ items[k].text = source[k].text
       /\ items[k].kind \in {source[k].kind, Written(source[k].kind, source[k].text)}

\* What follows a line comment of the source stands below it.
FirstLines ==
  first = <<>> =>
    \A k \in 2 .. Len(source) : source[k - 1].kind = "line" => items[k].line # Below(items, k)

\* The second text has the lines of what was printed.
SecondLines(g) ==
  first # <<>> =>
    /\ first \in Seq(PrintedItem) /\ Len(first) = Len(source) /\ AllFit(source, g, first)
    /\ \A k \in 1 .. Len(source) : items[k].line = Below(items, k) + Lines(first[k])

\* What is printed fits, the second time as it did the first.
PrintedSoFar(g) ==
  /\ pos \in 1 .. Len(source) + 1
  /\ out \in Seq(PrintedItem) /\ Len(out) = pos - 1 /\ AllFit(source, g, out)
  /\ first # <<>> => \A k \in 1 .. Len(out) : out[k] = first[k]

\* The printer knows what was printed.
KnowsIt(g) ==
  /\ indent = g[pos - 1].indent
  /\ inLoopHeader = g[pos - 1].loop
  /\ Smoothed(prevKind) = g[pos - 1].prev
  /\ forceNewline = g[pos - 1].force
  /\ lastLine = Below(items, pos)

FormatInv ==
  /\ SameItems
  /\ FirstLines
  /\ \E g : /\ Knows(source, Len(source), g)
            /\ SecondLines(g) /\ PrintedSoFar(g) /\ KnowsIt(g)

(* At the start nothing is printed.                                        *)
LEMMA RewoundIs ==
  ASSUME Rewound, source \in Seq(Typed)
  PROVE  /\ \A g : Knows(source, Len(source), g) => KnowsIt(g)
         /\ pos \in 1 .. Len(source) + 1 /\ out \in Seq(PrintedItem) /\ Len(out) = pos - 1
         /\ \A g : AllFit(source, g, out)
<1>1. PICK N \in Nat : N = Len(source)
  OBVIOUS
<1>2. /\ pos = 1 /\ out = <<>> /\ indent = 0 /\ inLoopHeader = FALSE /\ prevKind = NoKind
      /\ lastLine = 1 /\ forceNewline = FALSE
  BY DEF Rewound
<1>3. ASSUME NEW g, Knows(source, N, g)
      PROVE  KnowsIt(g)
  <2>1. g[0] = Start
    BY <1>3 DEF Knows
  <2>2. g[pos - 1] = Start
    BY <1>2, <2>1
  <2>3. Smoothed(prevKind) = NoKind
    BY <1>2 DEF Smoothed, NoKind
  <2>4. Below(items, pos) = 1
    BY <1>2 DEF Below
  <2>5. Start.indent = 0 /\ Start.loop = FALSE /\ Start.prev = NoKind /\ Start.force = FALSE
    BY DEF Start
  <2> QED
    BY <1>2, <2>2, <2>3, <2>4, <2>5 DEF KnowsIt
<1>4. out \in Seq(PrintedItem) /\ Len(out) = 0
  BY <1>2, EmptySeq
<1>5. pos \in 1 .. N + 1 /\ Len(out) = pos - 1
  BY <1>2, <1>4
<1>6. \A g : AllFit(source, g, out)
  BY <1>4 DEF AllFit
<1> QED
  BY <1>1, <1>3, <1>4, <1>5, <1>6

LEMMA FormatStarts == FormatInit => FormatInv
<1> SUFFICES ASSUME FormatInit PROVE FormatInv
  OBVIOUS
<1>1. PICK N \in Nat : N = Len(source)
  <2>1. source \in Seq(Typed)
    BY FormatAssumption DEF FormatInit, FormatAssumption, Typed, Kind
  <2> QED
    BY <2>1
<1>2. /\ source \in Sources /\ source \in Seq(Typed)
      /\ \A k \in 2 .. N : source[k - 1].kind = "line" => source[k].gap > 0
  BY <1>1, FormatAssumption DEF FormatInit, FormatAssumption, Typed, Kind
<1>3. DOMAIN source = 1 .. N
  BY <1>1, <1>2, LenProperties
<1>4. PICK down : down = [k \in 1 .. N |-> source[k].gap]
  OBVIOUS
<1>5. \A k \in 1 .. N : down[k] = source[k].gap /\ down[k] \in Nat
  <2> SUFFICES ASSUME NEW k \in 1 .. N PROVE down[k] = source[k].gap /\ down[k] \in Nat
    OBVIOUS
  <2>1. source[k] \in Typed
    BY <1>1, <1>2, ElementOfSeq
  <2> QED
    BY <1>4, <2>1 DEF Typed
<1>6. \A e \in Typed : e.kind \in Kind /\ e.text \in STRING
  BY DEF Typed
<1>7. items = Placed(source, down) /\ first = <<>> /\ Rewound
  BY <1>3, <1>4 DEF FormatInit
<1>8. /\ items \in Seq(PlacedItem) /\ Len(items) = N
      /\ \A k \in 1 .. N : /\ items[k].kind = source[k].kind
                           /\ items[k].text = source[k].text
                           /\ items[k].line = Below(items, k) + down[k]
  BY <1>1, <1>2, <1>5, <1>6, <1>7, PlacedIs
<1>9. SameItems
  BY <1>1, <1>2, <1>8 DEF SameItems
<1>10. FirstLines
  <2> SUFFICES ASSUME NEW k \in 2 .. N, source[k - 1].kind = "line"
               PROVE  items[k].line # Below(items, k)
    BY <1>1 DEF FirstLines
  <2>1. k \in 1 .. N /\ k - 1 \in 1 .. N
    OBVIOUS
  <2>2. items[k].line = Below(items, k) + down[k] /\ down[k] > 0 /\ down[k] \in Nat
    BY <1>2, <1>5, <1>8, <2>1
  <2>3. Below(items, k) \in Int
    <3>1. PICK j \in 1 .. N : j = k - 1
      BY <2>1
    <3>2. items[j] \in PlacedItem
      BY <1>8, ElementOfSeq
    <3>3. EndLine(items[j]) \in Int
      BY <3>2 DEF EndLine, Tall, PlacedItem
    <3> QED
      BY <3>1, <3>3 DEF Below
  <2> QED
    BY <2>2, <2>3
<1>11. PICK g : Knows(source, N, g)
  BY KnowsExist
<1>12. SecondLines(g)
  BY <1>7 DEF SecondLines
<1>13. PrintedSoFar(g) /\ KnowsIt(g)
  BY <1>1, <1>2, <1>7, <1>11, RewoundIs DEF PrintedSoFar
<1> QED
  BY <1>1, <1>9, <1>10, <1>11, <1>12, <1>13 DEF FormatInv

(* The line an item goes down from is a number.                            *)
LEMMA BelowInt ==
  ASSUME NEW p \in Seq(PlacedItem), NEW k \in 1 .. Len(p) + 1
  PROVE  Below(p, k) \in Int
<1>1. CASE k = 1
  BY <1>1 DEF Below
<1>2. CASE k # 1
  <2>1. PICK j \in 1 .. Len(p) : j = k - 1
    BY <1>2
  <2>2. p[j] \in PlacedItem
    BY ElementOfSeq
  <2>3. EndLine(p[j]) \in Int
    BY <2>2 DEF EndLine, Tall, PlacedItem
  <2> QED
    BY <1>2, <2>1, <2>3 DEF Below
<1> QED
  BY <1>1, <1>2

\* What holds at an item, before it is printed.
AtItem(g, a, b, st) ==
  /\ Knows(source, Len(source), g) /\ SecondLines(g) /\ PrintedSoFar(g) /\ KnowsIt(g)
  /\ pos \in 1 .. Len(source)
  /\ a = source[pos] /\ b = items[pos] /\ b = Cur /\ st = g[pos - 1]
  /\ a \in Typed /\ b \in PlacedItem /\ st \in PrinterState
  /\ g[pos] = After(st, Smoothed(a.kind))
  /\ b.text = a.text
  /\ Written(b.kind, b.text) = Written(a.kind, a.text)
  /\ Smoothed(b.kind) = Smoothed(a.kind)
  /\ b.kind \in Comment <=> a.kind \in Comment
  /\ lastLine \in Int /\ lastLine = Below(items, pos)
  /\ out = <<>> <=> pos = 1

(* At an item that is not printed yet, all of that holds.                  *)
LEMMA ThereIsAnItem ==
  ASSUME FormatInv, pos <= Len(items)
  PROVE  \E g, a, b, st : AtItem(g, a, b, st)
<1>1. PICK g : Knows(source, Len(source), g) /\ SecondLines(g) /\ PrintedSoFar(g) /\ KnowsIt(g)
  BY DEF FormatInv
<1>2. /\ source \in Seq(Typed) /\ items \in Seq(PlacedItem) /\ Len(items) = Len(source)
      /\ \A k \in 1 .. Len(source) :
           /\ items[k].text = source[k].text
           /\ items[k].kind \in {source[k].kind, Written(source[k].kind, source[k].text)}
  BY DEF FormatInv, SameItems
<1>3. PICK N \in Nat : N = Len(source)
  BY <1>2
<1>4. pos \in 1 .. N
  BY <1>1, <1>2, <1>3 DEF PrintedSoFar
<1>5. PICK a, b, st : a = source[pos] /\ b = items[pos] /\ st = g[pos - 1]
  OBVIOUS
<1>6. a \in Typed /\ b \in PlacedItem
  BY <1>2, <1>3, <1>4, <1>5, ElementOfSeq
<1>7. st \in PrinterState /\ g[pos] = After(st, Smoothed(a.kind))
  <2>1. pos - 1 \in 0 .. N
    BY <1>4
  <2>2. /\ \A k \in 1 .. N : g[k] = After(g[k - 1], Smoothed(source[k].kind))
        /\ \A k \in 0 .. N : g[k] \in PrinterState
    BY <1>1, <1>2, <1>3, KnowsTyped
  <2> QED
    BY <1>4, <1>5, <2>1, <2>2
<1>8. /\ b.text = a.text /\ Written(b.kind, b.text) = Written(a.kind, a.text)
      /\ Smoothed(b.kind) = Smoothed(a.kind)
      /\ b.kind \in Comment <=> a.kind \in Comment
  <2>1. b.text = a.text /\ b.kind \in {a.kind, Written(a.kind, a.text)} /\ a.kind \in Kind
    BY <1>2, <1>3, <1>4, <1>5, <1>6 DEF Typed
  <2>2. CASE b.kind = a.kind
    BY <2>1, <2>2
  <2>3. CASE b.kind = Written(a.kind, a.text)
    <3>1. /\ Smoothed(Written(a.kind, a.text)) = Smoothed(a.kind)
          /\ Written(Written(a.kind, a.text), a.text) = Written(a.kind, a.text)
          /\ Written(a.kind, a.text) \in Comment <=> a.kind \in Comment
      BY <2>1, WrittenIs
    <3> QED
      BY <2>1, <2>3, <3>1
  <2> QED
    BY <2>1, <2>2, <2>3
<1>9. lastLine = Below(items, pos) /\ lastLine \in Int
  <2>1. pos \in 1 .. Len(items) + 1
    BY <1>2, <1>3, <1>4
  <2> QED
    BY <1>1, <1>2, <2>1, BelowInt DEF KnowsIt
<1>10. out = <<>> <=> pos = 1
  <2>1. out \in Seq(PrintedItem) /\ Len(out) = pos - 1
    BY <1>1 DEF PrintedSoFar
  <2> QED
    BY <1>4, <2>1, EmptySeq
<1>11. b = Cur
  BY <1>5 DEF Cur
<1> QED
  BY <1>1, <1>3, <1>4, <1>5, <1>6, <1>7, <1>8, <1>9, <1>10, <1>11 DEF AtItem

(* The rules of the printer are the rules on what it knows.                *)
LEMMA RulesAre ==
  ASSUME NEW g, NEW a, NEW b, NEW st, AtItem(g, a, b, st)
  PROVE  /\ OnNewLine(b.kind) <=> Breaks(st, Smoothed(a.kind))
         /\ NeedsSpaceBefore(b.kind) <=> Spaced(st, Smoothed(a.kind))
         /\ Dedented = Shallower(st, Smoothed(a.kind))
<1>1. PICK k, c, pr : k = Smoothed(a.kind) /\ c = b.kind /\ pr = st.prev
  OBVIOUS
<1>2. /\ Smoothed(c) = k /\ Smoothed(prevKind) = pr
      /\ (forceNewline = st.force) /\ (inLoopHeader = st.loop) /\ indent = st.indent
  BY <1>1 DEF AtItem, KnowsIt
<1>3. /\ c = "orelse" <=> k = "orelse"
      /\ c = "lparen" <=> k = "lparen"
      /\ c = "end" <=> k = "end"
      /\ c \in {"semi", "comma", "rparen"} <=> k \in {"semi", "comma", "rparen"}
  BY <1>2 DEF Smoothed
<1>4. /\ prevKind = "semi" <=> pr = "semi"
      /\ prevKind = "begin" <=> pr = "begin"
      /\ prevKind = "end" <=> pr = "end"
      /\ prevKind \in {NoKind, "lparen"} <=> pr \in {NoKind, "lparen"}
      /\ prevKind \in {"ident", "rparen"} <=> pr \in {"ident", "rparen"}
  BY <1>2 DEF Smoothed, NoKind
<1>5. StartsNewLine(c) <=> \/ pr = "semi" /\ ~inLoopHeader
                           \/ pr = "begin"
                           \/ pr = "end" /\ k # "orelse"
  BY <1>3, <1>4 DEF StartsNewLine
<1>6. OnNewLine(c) <=> Breaks(st, k)
  BY <1>1, <1>2, <1>5 DEF OnNewLine, Breaks
<1>7. NeedsSpaceBefore(c) <=> Spaced(st, k)
  BY <1>1, <1>3, <1>4 DEF NeedsSpaceBefore, Spaced
<1>8. Dedented = Shallower(st, k)
  <2>1. Cur.kind = c
    BY <1>1 DEF AtItem
  <2> QED
    BY <1>2, <1>3, <2>1 DEF Dedented, Shallower
<1> QED
  BY <1>1, <1>6, <1>7, <1>8

(* The second time an item is where the first pass put it.                 *)
LEMMA SecondTime ==
  ASSUME NEW g, NEW a, NEW b, NEW st, AtItem(g, a, b, st), first # <<>>
  PROVE  /\ first[pos] \in PrintedItem
         /\ Fits(source, st, pos, first[pos])
         /\ b.line = lastLine + Lines(first[pos])
<1>1. PICK N : N = Len(source)
  OBVIOUS
<1>2. /\ first \in Seq(PrintedItem) /\ Len(first) = N /\ AllFit(source, g, first)
      /\ \A k \in 1 .. N : items[k].line = Below(items, k) + Lines(first[k])
      /\ pos \in 1 .. N
      /\ b = items[pos] /\ st = g[pos - 1] /\ lastLine = Below(items, pos)
  BY <1>1 DEF AtItem, SecondLines
<1>3. first[pos] \in PrintedItem
  BY <1>2, ElementOfSeq
<1>4. Fits(source, st, pos, first[pos])
  BY <1>2 DEF AllFit
<1> QED
  BY <1>2, <1>3, <1>4

(* A new line is chosen, and chosen again.                                 *)
LEMMA NewLineIs ==
  ASSUME NEW g, NEW a, NEW b, NEW st, AtItem(g, a, b, st)
  PROVE  /\ NewLine(b.line) \in Broken(pos)
         /\ first # <<>> /\ first[pos].space \in Broken(pos) => NewLine(b.line) = first[pos].space
<1>1. (out = <<>> <=> pos = 1) /\ lastLine \in Int
  BY DEF AtItem
<1>2. CASE pos = 1
  BY <1>1, <1>2 DEF NewLine, Broken
<1>3. CASE pos # 1
  <2>1. Broken(pos) = {"newline", "blank"}
    BY <1>3 DEF Broken
  <2>2. NewLine(b.line) = IF b.line > lastLine + 1 THEN "blank" ELSE "newline"
    BY <1>1, <1>3 DEF NewLine
  <2>3. ASSUME first # <<>>, first[pos].space \in Broken(pos)
        PROVE  NewLine(b.line) = first[pos].space
    <3>1. PICK sp : sp = first[pos].space
      OBVIOUS
    <3>2. b.line = lastLine + Lines(first[pos])
      BY <2>3, SecondTime
    <3>3. CASE sp = "newline"
      <4>1. Lines(first[pos]) = 1
        BY <3>1, <3>3 DEF Lines
      <4>2. ~(b.line > lastLine + 1)
        BY <1>1, <3>2, <4>1
      <4> QED
        BY <2>2, <3>1, <3>3, <4>2
    <3>4. CASE sp = "blank"
      <4>1. Lines(first[pos]) = 2
        BY <3>1, <3>4 DEF Lines
      <4>2. b.line > lastLine + 1
        BY <1>1, <3>2, <4>1
      <4> QED
        BY <2>2, <3>1, <3>4, <4>2
    <3> QED
      BY <2>1, <2>3, <3>1, <3>3, <3>4
  <2> QED
    BY <2>1, <2>2, <2>3
<1> QED
  BY <1>2, <1>3

\* The k-th item printed for what is known is o, the second time as the first.
Printing(st, o) ==
  /\ out' = Append(out, o)
  /\ o \in PrintedItem
  /\ Fits(source, st, pos, o)
  /\ first # <<>> => o = first[pos]

(* What Put prints is an item.                                             *)
LEMMA PutIs ==
  ASSUME NEW g, NEW a, NEW b, NEW st, AtItem(g, a, b, st),
         NEW sp \in Space, NEW d \in Nat, Put(b, sp, d)
  PROVE  \E o \in PrintedItem : /\ out' = Append(out, o)
                                /\ o.kind = Written(a.kind, a.text) /\ o.text = a.text
                                /\ o.space = sp /\ o.depth = d
<1> DEFINE o == [kind |-> Written(b.kind, b.text), text |-> b.text, space |-> sp, depth |-> d]
<1>1. /\ b.kind \in Kind /\ b.text \in STRING /\ b.text = a.text
      /\ Written(b.kind, b.text) = Written(a.kind, a.text)
  BY DEF AtItem, PlacedItem
<1>2. Written(b.kind, b.text) \in Kind
  BY <1>1, WrittenIs
<1>3. out' = Append(out, o)
  BY DEF Put
<1>4. o \in PrintedItem
  BY <1>1, <1>2 DEF PrintedItem
<1>5. o.kind = Written(a.kind, a.text) /\ o.text = a.text /\ o.space = sp /\ o.depth = d
  BY <1>1
<1> QED
  BY <1>3, <1>4, <1>5

(* A token is printed that fits, the second time the same.                 *)
LEMMA TokenPrinted ==
  ASSUME NEW g, NEW a, NEW b, NEW st, AtItem(g, a, b, st), PlaceToken
  PROVE  \E o : Printing(st, o)
<1>1. PICK k : k = Smoothed(a.kind)
  OBVIOUS
<1>2. a = source[pos] /\ b = Cur /\ a.kind \notin Comment /\ a.kind \in Kind
  <2>1. b.kind \in TokenKind
    BY DEF AtItem, PlaceToken
  <2>2. b.kind \notin Comment
    BY <2>1 DEF TokenKind, WordKind, Comment
  <2> QED
    BY <2>2 DEF AtItem, Typed
<1>3. /\ OnNewLine(b.kind) <=> Breaks(st, k)
      /\ NeedsSpaceBefore(b.kind) <=> Spaced(st, k)
      /\ Dedented = Shallower(st, k)
  BY <1>1, RulesAre
<1>4. Shallower(st, k) \in Nat
  <2>1. st.indent \in Nat
    BY DEF AtItem, PrinterState
  <2> QED
    BY <2>1 DEF Shallower
<1>5. CASE Breaks(st, k)
  <2>1. PICK sp : sp = NewLine(b.line)
    OBVIOUS
  <2>2. sp \in Broken(pos)
    BY <2>1, NewLineIs
  <2>9. PICK d \in Nat : d = Shallower(st, k)
    BY <1>4
  <2>3. Put(b, sp, d)
    BY <1>2, <1>3, <1>5, <2>1, <2>9 DEF PlaceToken
  <2>4. sp \in Space
    BY <2>2 DEF Broken, Space
  <2>5. PICK o \in PrintedItem : /\ out' = Append(out, o)
                                 /\ o.kind = Written(a.kind, a.text) /\ o.text = a.text
                                 /\ o.space = sp /\ o.depth = d
    BY <2>3, <2>4, PutIs
  <2>6. Fits(source, st, pos, o)
    BY <1>1, <1>2, <1>5, <2>2, <2>5, <2>9 DEF Fits, FitsToken
  <2>7. ASSUME first # <<>> PROVE o = first[pos]
    <3>1. Fits(source, st, pos, first[pos])
      BY <2>7, SecondTime
    <3>2. first[pos].space \in Broken(pos)
      BY <1>1, <1>2, <1>5, <3>1 DEF Fits, FitsToken
    <3>3. o.space = first[pos].space
      BY <2>1, <2>5, <2>7, <3>2, NewLineIs
    <3> QED
      BY <2>6, <3>1, <3>3, KnownBySpace
  <2> QED
    BY <2>5, <2>6, <2>7 DEF Printing
<1>6. CASE ~Breaks(st, k)
  <2>1. PICK sp : sp = IF Spaced(st, k) THEN " " ELSE ""
    OBVIOUS
  <2>9. PICK d \in Nat : d = 0
    OBVIOUS
  <2>2. Put(b, sp, d)
    BY <1>2, <1>3, <1>6, <2>1, <2>9 DEF PlaceToken
  <2>3. sp \in Space
    BY <2>1 DEF Space
  <2>4. PICK o \in PrintedItem : /\ out' = Append(out, o)
                                 /\ o.kind = Written(a.kind, a.text) /\ o.text = a.text
                                 /\ o.space = sp /\ o.depth = d
    BY <2>2, <2>3, PutIs
  <2>5. Fits(source, st, pos, o)
    BY <1>1, <1>2, <1>6, <2>1, <2>4, <2>9 DEF Fits, FitsToken
  <2>6. ASSUME first # <<>> PROVE o = first[pos]
    <3>1. Fits(source, st, pos, first[pos])
      BY <2>6, SecondTime
    <3>2. first[pos].space = sp
      BY <1>1, <1>2, <1>6, <2>1, <3>1 DEF Fits, FitsToken
    <3> QED
      BY <2>4, <2>5, <3>1, <3>2, KnownBySpace
  <2> QED
    BY <2>4, <2>5, <2>6 DEF Printing
<1> QED
  BY <1>5, <1>6

(* A comment is printed that fits, the second time the same.               *)
LEMMA CommentPrinted ==
  ASSUME NEW g, NEW a, NEW b, NEW st, AtItem(g, a, b, st), FlushComment, FirstLines
  PROVE  \E o : Printing(st, o)
<1>1. /\ a = source[pos] /\ b = Cur /\ b = items[pos] /\ a.kind \in Comment
      /\ st.indent \in Nat /\ indent = st.indent
      /\ (out = <<>> <=> pos = 1) /\ lastLine \in Int /\ lastLine = Below(items, pos)
      /\ pos \in 1 .. Len(source)
  BY DEF AtItem, FlushComment, PrinterState, KnowsIt
<1>2. CASE b.line = lastLine /\ out # <<>>
  <2>2. PICK sp \in Space, d \in Nat : sp = " " /\ d = 0
    BY DEF Space
  <2>1. Put(b, sp, d)
    BY <1>1, <1>2, <2>2 DEF FlushComment
  <2>4. PICK o \in PrintedItem : /\ out' = Append(out, o)
                                 /\ o.kind = Written(a.kind, a.text) /\ o.text = a.text
                                 /\ o.space = sp /\ o.depth = d
    BY <2>1, PutIs
  <2>5. CASE first = <<>>
    <3>1. pos \in 2 .. Len(source)
      BY <1>1, <1>2
    <3>2. source[pos - 1].kind # "line"
      BY <1>1, <1>2, <2>5, <3>1 DEF FirstLines
    <3>3. Fits(source, st, pos, o)
      BY <1>1, <1>2, <2>2, <2>4, <3>2 DEF Fits, FitsComment, Trails
    <3> QED
      BY <2>4, <2>5, <3>3 DEF Printing
  <2>6. CASE first # <<>>
    <3>1. PICK f : f = first[pos]
      OBVIOUS
    <3>2. f \in PrintedItem /\ Fits(source, st, pos, f) /\ b.line = lastLine + Lines(f)
      BY <2>6, <3>1, SecondTime
    <3>3. FitsComment(source, st, pos, f)
      BY <1>1, <3>2 DEF Fits
    <3>4. f.space \notin Broken(pos)
      <4>1. Broken(pos) = {"newline", "blank"}
        BY <1>1, <1>2 DEF Broken
      <4>2. CASE f.space = "newline"
        <5>1. Lines(f) = 1
          BY <4>2 DEF Lines
        <5>2. b.line = lastLine /\ b.line = lastLine + 1
          BY <1>2, <3>2, <5>1
        <5> QED
          BY <1>1, <5>2
      <4>3. CASE f.space = "blank"
        <5>1. Lines(f) = 2
          BY <4>3 DEF Lines
        <5>2. b.line = lastLine /\ b.line = lastLine + 2
          BY <1>2, <3>2, <5>1
        <5> QED
          BY <1>1, <5>2
      <4> QED
        BY <4>1, <4>2, <4>3
    <3>5. Trails(source, pos, f)
      BY <3>3, <3>4 DEF FitsComment
    <3>6. Fits(source, st, pos, o)
      BY <1>1, <2>2, <2>4, <3>5 DEF Fits, FitsComment, Trails
    <3>7. o = f
      BY <2>2, <2>4, <3>2, <3>5, <3>6, KnownBySpace DEF Trails
    <3> QED
      BY <2>4, <3>1, <3>6, <3>7 DEF Printing
  <2> QED
    BY <2>5, <2>6
<1>3. CASE ~(b.line = lastLine /\ out # <<>>)
  <2>1. PICK sp : sp = NewLine(b.line)
    OBVIOUS
  <2>2. sp \in Broken(pos)
    BY <2>1, NewLineIs
  <2>9. PICK d \in Nat : d = st.indent
    BY <1>1
  <2>3. Put(b, sp, d)
    BY <1>1, <1>3, <2>1, <2>9 DEF FlushComment
  <2>4. sp \in Space
    BY <2>2 DEF Broken, Space
  <2>5. PICK o \in PrintedItem : /\ out' = Append(out, o)
                                 /\ o.kind = Written(a.kind, a.text) /\ o.text = a.text
                                 /\ o.space = sp /\ o.depth = d
    BY <2>3, <2>4, PutIs
  <2>6. Fits(source, st, pos, o)
    BY <1>1, <2>2, <2>5, <2>9 DEF Fits, FitsComment
  <2>7. ASSUME first # <<>> PROVE o = first[pos]
    <3>1. PICK f : f = first[pos]
      OBVIOUS
    <3>2. f \in PrintedItem /\ Fits(source, st, pos, f) /\ b.line = lastLine + Lines(f)
      BY <2>7, <3>1, SecondTime
    <3>3. FitsComment(source, st, pos, f)
      BY <1>1, <3>2 DEF Fits
    <3>4. ~Trails(source, pos, f)
      <4> SUFFICES ASSUME Trails(source, pos, f) PROVE FALSE
        OBVIOUS
      <4>1. f.space = " " /\ pos # 1
        BY DEF Trails
      <4>2. Lines(f) = 0
        BY <4>1 DEF Lines
      <4>3. b.line = lastLine
        BY <1>1, <3>2, <4>2
      <4>4. out # <<>>
        BY <1>1, <4>1
      <4> QED
        BY <1>3, <4>3, <4>4
    <3>5. f.space \in Broken(pos)
      BY <3>3, <3>4 DEF FitsComment
    <3>6. o.space = f.space
      BY <2>1, <2>5, <2>7, <3>1, <3>5, NewLineIs
    <3> QED
      BY <2>6, <3>1, <3>2, <3>6, KnownBySpace
  <2> QED
    BY <2>5, <2>6, <2>7 DEF Printing
<1> QED
  BY <1>2, <1>3

(* One more item is printed.                                               *)
LEMMA OnePrinted ==
  ASSUME FormatInv, NEW g, NEW a, NEW b, NEW st, AtItem(g, a, b, st),
         NEW o, Printing(st, o), pos' = pos + 1, UNCHANGED <<source, items, first>>
  PROVE  /\ SameItems' /\ FirstLines'
         /\ Knows(source', Len(source'), g) /\ SecondLines(g)' /\ PrintedSoFar(g)'
<1>1. /\ Knows(source, Len(source), g) /\ SecondLines(g) /\ PrintedSoFar(g)
      /\ pos \in 1 .. Len(source) /\ st = g[pos - 1]
  BY DEF AtItem
<1>2. source' = source /\ items' = items /\ first' = first
  OBVIOUS
<1>3. SameItems' /\ FirstLines'
  <2>1. SameItems /\ FirstLines
    BY DEF FormatInv
  <2>2. SameItems'
    BY <1>2, <2>1 DEF SameItems
  <2>3. FirstLines'
    BY <1>2, <2>1 DEF FirstLines
  <2> QED
    BY <2>2, <2>3
<1>4. SecondLines(g)'
  BY <1>1, <1>2 DEF SecondLines
<1>5. PrintedSoFar(g)'
  <2>1. PICK N, q, r : N = Len(source) /\ q = out /\ r = out'
    OBVIOUS
  <2>0. N \in Nat
    BY <2>1 DEF FormatInv, SameItems
  <2>2. /\ q \in Seq(PrintedItem) /\ Len(q) = pos - 1 /\ r = Append(q, o) /\ o \in PrintedItem
        /\ \A k \in 1 .. Len(q) : Fits(source, g[k - 1], k, q[k])
        /\ first # <<>> => \A k \in 1 .. Len(q) : q[k] = first[k]
        /\ Fits(source, g[pos - 1], pos, o)
        /\ first # <<>> => o = first[pos]
        /\ pos \in 1 .. N
    BY <1>1, <2>1 DEF PrintedSoFar, AllFit, Printing
  <2>3. /\ r \in Seq(PrintedItem) /\ Len(r) = pos /\ r[pos] = o
        /\ \A k \in 1 .. pos - 1 : r[k] = q[k]
    <3>1. /\ Append(q, o) \in Seq(PrintedItem) /\ Len(Append(q, o)) = Len(q) + 1
          /\ \A k \in 1 .. Len(q) : Append(q, o)[k] = q[k]
          /\ Append(q, o)[Len(q) + 1] = o
      BY <2>2, AppendProperties
    <3>2. Len(q) + 1 = pos
      BY <2>2
    <3> QED
      BY <2>2, <3>1, <3>2
  <2>4. ASSUME NEW k \in 1 .. pos
        PROVE  /\ Fits(source, g[k - 1], k, r[k])
               /\ first # <<>> => r[k] = first[k]
    <3>1. CASE k = pos
      BY <2>2, <2>3, <3>1
    <3>2. CASE k # pos
      <4>1. k \in 1 .. pos - 1 /\ k \in 1 .. Len(q)
        BY <2>2, <3>2
      <4> QED
        BY <2>2, <2>3, <4>1
    <3> QED
      BY <3>1, <3>2
  <2>5. pos' \in 1 .. N + 1 /\ Len(r) = pos' - 1
    BY <2>0, <2>2, <2>3
  <2>6. AllFit(source, g, r)
    BY <2>3, <2>4 DEF AllFit
  <2>7. first # <<>> => \A k \in 1 .. Len(r) : r[k] = first[k]
    BY <2>3, <2>4
  <2> QED
    BY <1>2, <2>1, <2>3, <2>5, <2>6, <2>7 DEF PrintedSoFar
<1> QED
  BY <1>1, <1>2, <1>3, <1>4, <1>5

(* The line to go down from is that of the item just printed.              *)
LEMMA NextLine ==
  ASSUME NEW g, NEW a, NEW b, NEW st, AtItem(g, a, b, st),
         pos' = pos + 1, items' = items, lastLine' = EndLine(b)
  PROVE  lastLine' = Below(items', pos')
<1>1. b = items[pos] /\ pos \in 1 .. Len(source)
  BY DEF AtItem
<1>2. pos' # 1 /\ pos' - 1 = pos
  BY <1>1
<1> QED
  BY <1>1, <1>2 DEF Below

(* A comment leaves what the printer knows as the next item needs it.      *)
LEMMA CommentKnown ==
  ASSUME NEW g, NEW a, NEW b, NEW st, AtItem(g, a, b, st), FlushComment
  PROVE  KnowsIt(g)'
<1>1. /\ pos \in 1 .. Len(source) /\ b = Cur /\ st = g[pos - 1] /\ st \in PrinterState
      /\ g[pos] = After(st, Smoothed(a.kind))
      /\ indent = st.indent /\ inLoopHeader = st.loop /\ Smoothed(prevKind) = st.prev
      /\ a.kind \in Kind /\ a.kind \in Comment
  BY DEF AtItem, KnowsIt, FlushComment, Typed
<1>2. /\ pos' = pos + 1 /\ items' = items /\ lastLine' = EndLine(b) /\ forceNewline' = TRUE
      /\ indent' = indent /\ inLoopHeader' = inLoopHeader /\ prevKind' = prevKind
  BY <1>1 DEF FlushComment
<1>3. lastLine' = Below(items', pos')
  BY <1>2, NextLine
<1>4. Smoothed(a.kind) \in Comment
  BY <1>1, WrittenIs
<1>5. g[pos] = [indent |-> st.indent, loop |-> st.loop, prev |-> st.prev, force |-> TRUE]
  BY <1>1, <1>4 DEF After
<1>6. /\ g[pos].indent = st.indent /\ g[pos].loop = st.loop /\ g[pos].prev = st.prev
      /\ g[pos].force = TRUE
  BY <1>5
<1>7. pos' - 1 = pos
  BY <1>1, <1>2
<1>8. Smoothed(prevKind') = Smoothed(prevKind)
  BY <1>2
<1> QED
  BY <1>1, <1>2, <1>3, <1>6, <1>7, <1>8 DEF KnowsIt

(* So does a token.                                                        *)
LEMMA TokenKnown ==
  ASSUME NEW g, NEW a, NEW b, NEW st, AtItem(g, a, b, st), PlaceToken
  PROVE  KnowsIt(g)'
<1>1. PICK k : k = Smoothed(a.kind)
  OBVIOUS
<1>2. /\ pos \in 1 .. Len(source) /\ b = Cur /\ st = g[pos - 1] /\ st \in PrinterState
      /\ g[pos] = After(st, k) /\ Smoothed(b.kind) = k
      /\ inLoopHeader = st.loop /\ st.loop \in BOOLEAN
      /\ b.kind \in TokenKind /\ b.kind \in Kind
  BY <1>1 DEF AtItem, KnowsIt, PlaceToken, PlacedItem, PrinterState
<1>3. /\ b.kind = "begin" <=> k = "begin"
      /\ b.kind = "loop" <=> k = "loop"
  BY <1>2 DEF Smoothed
<1>4. k \notin Comment
  <2>1. b.kind \notin Comment
    BY <1>2 DEF TokenKind, WordKind, Comment
  <2> QED
    BY <1>2, <2>1, WrittenIs
<1>5. Dedented = Shallower(st, k)
  BY <1>1, RulesAre
<1>6. /\ pos' = pos + 1 /\ items' = items /\ lastLine' = b.line /\ forceNewline' = FALSE
      /\ indent' = Shallower(st, k) + IF k = "begin" THEN 1 ELSE 0
      /\ inLoopHeader' = (k # "begin" /\ (st.loop \/ k = "loop"))
      /\ prevKind' = b.kind
  BY <1>2, <1>3, <1>5 DEF PlaceToken
<1>7. lastLine' = EndLine(b)
  <2>1. b.kind # "tall"
    BY <1>2 DEF TokenKind, WordKind
  <2>2. b.line \in Nat
    BY DEF AtItem, PlacedItem
  <2> QED
    BY <1>6, <2>1, <2>2 DEF EndLine, Tall
<1>8. lastLine' = Below(items', pos')
  BY <1>6, <1>7, NextLine
<1>9. PICK v : v = IF k = "begin" THEN FALSE ELSE IF k = "loop" THEN TRUE ELSE st.loop
  OBVIOUS
<1>10. g[pos] = [indent |-> Shallower(st, k) + (IF k = "begin" THEN 1 ELSE 0),
                 loop |-> v, prev |-> k, force |-> FALSE]
  BY <1>2, <1>4, <1>9 DEF After
<1>11. /\ g[pos].indent = Shallower(st, k) + (IF k = "begin" THEN 1 ELSE 0)
       /\ g[pos].loop = v /\ g[pos].prev = k /\ g[pos].force = FALSE
  BY <1>10
<1>12. inLoopHeader' = v
  BY <1>2, <1>6, <1>9
<1>13. pos' - 1 = pos
  BY <1>2, <1>6
<1>14. Smoothed(prevKind') = k
  BY <1>2, <1>6
<1> QED
  BY <1>6, <1>8, <1>11, <1>12, <1>13, <1>14 DEF KnowsIt

(* A comment keeps it.                                                     *)
LEMMA FlushCommentKeeps ==
  ASSUME FormatInv, FlushComment
  PROVE  FormatInv'
<1>1. PICK g, a, b, st : AtItem(g, a, b, st)
  BY ThereIsAnItem DEF FlushComment
<1>2. PICK o : Printing(st, o)
  BY <1>1, CommentPrinted DEF FormatInv
<1>3. pos' = pos + 1 /\ UNCHANGED <<source, items, first>>
  BY DEF FlushComment
<1>4. /\ SameItems' /\ FirstLines'
      /\ Knows(source', Len(source'), g) /\ SecondLines(g)' /\ PrintedSoFar(g)'
  BY <1>1, <1>2, <1>3, OnePrinted
<1>5. KnowsIt(g)'
  BY <1>1, CommentKnown
<1> QED
  BY <1>4, <1>5 DEF FormatInv

(* A token keeps it.                                                       *)
LEMMA PlaceTokenKeeps ==
  ASSUME FormatInv, PlaceToken
  PROVE  FormatInv'
<1>1. PICK g, a, b, st : AtItem(g, a, b, st)
  BY ThereIsAnItem DEF PlaceToken
<1>2. PICK o : Printing(st, o)
  BY <1>1, TokenPrinted
<1>3. pos' = pos + 1 /\ UNCHANGED <<source, items, first>>
  BY DEF PlaceToken
<1>4. /\ SameItems' /\ FirstLines'
      /\ Knows(source', Len(source'), g) /\ SecondLines(g)' /\ PrintedSoFar(g)'
  BY <1>1, <1>2, <1>3, OnePrinted
<1>5. KnowsIt(g)'
  BY <1>1, TokenKnown
<1> QED
  BY <1>4, <1>5 DEF FormatInv

(* Once all is printed, all of it fits, and reads back as it is.           *)
LEMMA AllPrinted ==
  ASSUME FormatInv, Finished
  PROVE  /\ out \in Seq(PrintedItem) /\ Len(out) = Len(source) /\ source \in Seq(Typed)
         /\ Lexed(out) = Placed(out, [k \in 1 .. Len(out) |-> Lines(out[k])])
         /\ \A k \in 1 .. Len(source) : /\ out[k].kind = Written(source[k].kind, source[k].text)
                                        /\ out[k].text = source[k].text
         /\ first # <<>> => /\ first \in Seq(PrintedItem) /\ Len(first) = Len(out)
                            /\ \A k \in 1 .. Len(out) : out[k] = first[k]
         /\ \E g : /\ Knows(source, Len(source), g) /\ AllFit(source, g, out)
<1>1. PICK g : Knows(source, Len(source), g) /\ SecondLines(g) /\ PrintedSoFar(g)
  BY DEF FormatInv
<1>2. source \in Seq(Typed) /\ Len(items) = Len(source)
  BY DEF FormatInv, SameItems
<1>3. PICK N \in Nat : N = Len(source)
  BY <1>2
<1>4. /\ out \in Seq(PrintedItem) /\ Len(out) = N /\ AllFit(source, g, out)
      /\ first # <<>> => \A k \in 1 .. N : out[k] = first[k]
  <2>1. /\ pos \in 1 .. N + 1 /\ out \in Seq(PrintedItem) /\ Len(out) = pos - 1
        /\ AllFit(source, g, out)
        /\ first # <<>> => \A k \in 1 .. Len(out) : out[k] = first[k]
    BY <1>1, <1>3 DEF PrintedSoFar
  <2>2. pos > N
    BY <1>2, <1>3 DEF Finished
  <2>3. Len(out) = N
    BY <2>1, <2>2
  <2> QED
    BY <2>1, <2>3
<1>5. Lexed(out) = Placed(out, [k \in 1 .. Len(out) |-> Lines(out[k])])
  BY <1>1, <1>2, <1>3, <1>4, FitReadsBack
<1>6. first # <<>> => first \in Seq(PrintedItem) /\ Len(first) = N
  BY <1>1, <1>3 DEF SecondLines
<1>7. \A k \in 1 .. N : /\ out[k].kind = Written(source[k].kind, source[k].text)
                        /\ out[k].text = source[k].text
  BY <1>4 DEF AllFit, Fits
<1> QED
  BY <1>1, <1>2, <1>3, <1>4, <1>5, <1>6, <1>7

(* Formatting what was printed starts from the same items.                 *)
LEMMA FormatAgainKeeps ==
  ASSUME FormatInv, FormatAgain
  PROVE  FormatInv'
<1>1. PICK N, p, l : N = Len(source) /\ p = out /\ l = Lexed(p)
  OBVIOUS
<1>2. /\ source' = source /\ first' = p /\ items' = l /\ Finished /\ p # <<>> /\ Rewound'
  BY <1>1 DEF FormatAgain, Rewound
<1>3. /\ p \in Seq(PrintedItem) /\ Len(p) = N /\ source \in Seq(Typed)
      /\ l = Placed(p, [k \in 1 .. Len(p) |-> Lines(p[k])])
      /\ \A k \in 1 .. N : /\ p[k].kind = Written(source[k].kind, source[k].text)
                           /\ p[k].text = source[k].text
  BY <1>1, <1>2, AllPrinted
<1>4. PICK g : Knows(source, N, g) /\ AllFit(source, g, p)
  BY <1>1, <1>2, AllPrinted
<1>5. /\ l \in Seq(PlacedItem) /\ Len(l) = N
      /\ \A k \in 1 .. N : /\ l[k].kind = p[k].kind
                           /\ l[k].text = p[k].text
                           /\ l[k].line = Below(l, k) + Lines(p[k])
  BY <1>3, PrintedPlaced
<1>6. SameItems'
  <2>1. source \in Sources
    BY DEF FormatInv, SameItems
  <2>2. \A k \in 1 .. N : /\ l[k].text = source[k].text
                          /\ l[k].kind \in {source[k].kind, Written(source[k].kind, source[k].text)}
    BY <1>3, <1>5
  <2> QED
    BY <1>1, <1>2, <1>3, <1>5, <2>1, <2>2 DEF SameItems
<1>7. FirstLines'
  BY <1>2 DEF FirstLines
<1>8. SecondLines(g)'
  BY <1>1, <1>2, <1>3, <1>4, <1>5 DEF SecondLines
<1>9. KnowsIt(g)'
  <2>1. /\ pos' = 1 /\ indent' = 0 /\ inLoopHeader' = FALSE /\ prevKind' = NoKind
        /\ lastLine' = 1 /\ forceNewline' = FALSE
    BY DEF FormatAgain
  <2>2. g[pos' - 1] = Start
    <3>1. 0 \in 0 .. N
      BY <1>1, <1>3
    <3>2. g[0] = Start
      BY <1>4, <3>1 DEF Knows
    <3> QED
      BY <2>1, <3>2
  <2>3. Smoothed(prevKind') = NoKind
    BY <2>1 DEF Smoothed, NoKind
  <2>4. Below(items', pos') = 1
    BY <2>1 DEF Below
  <2>5. Start.indent = 0 /\ Start.loop = FALSE /\ Start.prev = NoKind /\ Start.force = FALSE
    BY DEF Start
  <2> QED
    BY <2>1, <2>2, <2>3, <2>4, <2>5 DEF KnowsIt
<1>10. PrintedSoFar(g)'
  <2>1. out' = <<>> /\ pos' = 1
    BY DEF FormatAgain
  <2>2. out' \in Seq(PrintedItem) /\ Len(out') = 0
    BY <2>1, EmptySeq
  <2>3. N \in Nat
    BY <1>1, <1>3
  <2>4. pos' \in 1 .. N + 1 /\ Len(out') = pos' - 1
    BY <2>1, <2>2, <2>3
  <2>5. AllFit(source', g, out')
    BY <2>2 DEF AllFit
  <2>6. \A k \in 1 .. Len(out') : out'[k] = first'[k]
    BY <2>2
  <2>7. pos' \in 1 .. Len(source') + 1
    BY <1>1, <1>2, <2>4
  <2> QED
    BY <2>2, <2>4, <2>5, <2>6, <2>7 DEF PrintedSoFar
<1> QED
  BY <1>1, <1>2, <1>4, <1>6, <1>7, <1>8, <1>9, <1>10 DEF FormatInv

(* Nothing happening keeps it.                                             *)
LEMMA FormatStays ==
  ASSUME FormatInv, UNCHANGED formatVars
  PROVE  FormatInv'
BY DEF FormatInv, SameItems, FirstLines, SecondLines, PrintedSoFar, KnowsIt, formatVars

(* Every step keeps it.                                                    *)
LEMMA FormatStep == FormatInv /\ [FormatNext]_formatVars => FormatInv'
BY FlushCommentKeeps, PlaceTokenKeeps, FormatAgainKeeps, FormatStays DEF FormatNext

(***************************************************************************)
(* Whatever text is formatted, with whatever comments between any two of   *)
(* its tokens, on whatever lines: the formatted text has every token and   *)
(* comment of it, in order, when the scanner reads it back                 *)
(* (format_source, flush_comments_before).                                 *)
(***************************************************************************)
THEOREM TextSurvives == FormatSpec => []TextKept
<1>1. FormatSpec => []FormatInv
  BY FormatStarts, FormatStep, PTL DEF FormatSpec
<1>2. FormatInv => TextKept
  <2> SUFFICES ASSUME FormatInv, Finished
               PROVE  KeptAs(out)
    BY DEF TextKept
  <2>1. PICK N, p, l : N = Len(source) /\ p = out /\ l = Lexed(p)
    OBVIOUS
  <2>2. /\ p \in Seq(PrintedItem) /\ Len(p) = N /\ source \in Seq(Typed)
        /\ l = Placed(p, [k \in 1 .. Len(p) |-> Lines(p[k])])
        /\ \A k \in 1 .. N : /\ p[k].kind = Written(source[k].kind, source[k].text)
                             /\ p[k].text = source[k].text
    BY <2>1, AllPrinted
  <2>3. /\ DOMAIN l = 1 .. N
        /\ \A k \in 1 .. N : l[k].kind = p[k].kind /\ l[k].text = p[k].text
    BY <2>2, PrintedPlaced
  <2>4. DOMAIN source = 1 .. N
    BY <2>1, <2>2, LenProperties
  <2>5. Bare(l) = [k \in 1 .. N |-> <<Written(source[k].kind, source[k].text), source[k].text>>]
    BY <2>2, <2>3 DEF Bare
  <2> QED
    BY <2>1, <2>4, <2>5 DEF KeptAs
<1> QED
  BY <1>1, <1>2, PTL

(***************************************************************************)
(* And the formatter leaves it as it is: every new line, blank line,       *)
(* indentation and place of a comment that it chose, it chooses again.     *)
(***************************************************************************)
THEOREM FormatsOnce == FormatSpec => []Stable
<1>1. FormatSpec => []FormatInv
  BY FormatStarts, FormatStep, PTL DEF FormatSpec
<1>2. FormatInv => Stable
  <2> SUFFICES ASSUME FormatInv, Finished, first # <<>>
               PROVE  out = first
    BY DEF Stable
  <2>1. /\ out \in Seq(PrintedItem) /\ first \in Seq(PrintedItem) /\ Len(first) = Len(out)
        /\ \A k \in 1 .. Len(out) : out[k] = first[k]
    BY AllPrinted
  <2> QED
    BY <2>1, SeqEqual
<1> QED
  BY <1>1, <1>2, PTL
=============================================================================
