--------------------------- MODULE VerbThreadHeap ---------------------------
(***************************************************************************)
(* What threads do to the reference counts of src/codegen.rs.  Retain and  *)
(* release are a load, an add and a store, without a lock, and nothing     *)
(* orders the threads.  channel_send refuses heap values, so two blocks at *)
(* most are within reach of several threads:                               *)
(*   "env"    of the closure that is spawned, if that captures anything:   *)
(*            gen_thread_spawn hands it on as a plain pointer, uncounted;  *)
(*   "global" a heap value in a global variable, if spawned bodies use it. *)
(*            The end of main releases it and leaves the pointer in place. *)
(* Every other block is private: thread t allocates block t, again and     *)
(* again, and tries to send it.                                            *)
(***************************************************************************)
EXTENDS Naturals, FiniteSets

CONSTANTS
  Thread,     \* the threads of the program, each the name of its private block
  Main,       \* the one that runs the program's top level
  MaxCount    \* bound: a global counted that often is not loaded again

Shared == {"env", "global"}
Block == Shared \cup Thread

ThreadHeapAssumption ==
  /\ IsFiniteSet(Thread)
  /\ Main \in Thread
  /\ Thread \cap (Shared \cup {"int"}) = {}
  /\ MaxCount \in Nat

ASSUME ThreadHeapAssumption

VARIABLES
  reach,      \* the shared blocks that spawned bodies get at, by what the program says
  rc,         \* the count in the header of each block
  freed,      \* the blocks that are given back to malloc
  home,       \* the shared blocks a variable owns
  stale,      \* those released while a variable still points there
  refs,       \* the references each thread owns
  inside,     \* the retain, release or reassignment each thread is in the middle of
  phase,      \* of each thread
  queue,      \* the values that wait in a channel
  touched     \* the blocks read or written after they were freed

heapVars == <<reach, rc, freed, home, stale, refs, inside, phase, queue, touched>>

Inside == [do : {"none", "retain", "release", "drop", "overwrite", "last"}, block : Block, seen : Nat]
Idle == [do |-> "none", block |-> "env", seen |-> 0]

HeapTypeOK ==
  /\ reach \subseteq Shared
  /\ rc \in [Block -> Nat]
  /\ freed \subseteq Block
  /\ home \subseteq Shared
  /\ stale \subseteq Shared
  /\ refs \in [Thread -> SUBSET Block]
  /\ inside \in [Thread -> Inside]
  /\ phase \in [Thread -> {"unborn", "spawned", "running", "leaving", "exited"}]
  /\ queue \subseteq Block \cup {"int"}
  /\ touched \subseteq Block

HeapInit ==
  /\ reach \in SUBSET Shared
  /\ home = reach \cup {"global"}
  /\ rc = [b \in Block |-> IF b \in home THEN 1 ELSE 0]
  /\ freed = Block \ home
  /\ stale = {}
  /\ refs = [t \in Thread |-> {}]
  /\ inside = [t \in Thread |-> Idle]
  /\ phase = [t \in Thread |-> IF t = Main THEN "running" ELSE "unborn"]
  /\ queue = {}
  /\ touched = {}

\* The process ends with its main thread.  What a program does that used a
\* freed block is undefined.
ProcessRuns == touched = {} /\ phase[Main] # "exited"

Runs(t) ==
  /\ ProcessRuns
  /\ phase[t] = "running"
  /\ inside[t] = Idle

\* The load of the count, the first half of a retain or release.
Read(t, what, b) ==
  /\ inside' = [inside EXCEPT ![t] = [do |-> what, block |-> b, seen |-> rc[b]]]
  /\ touched' = {b} \cap freed

(***************************************************************************)
(* Values.                                                                 *)
(***************************************************************************)

\* A literal: a block of its own, counted once, for whoever made it.
Alloc(t) ==
  /\ Runs(t)
  /\ t \in freed
  /\ rc' = [rc EXCEPT ![t] = 1]
  /\ freed' = freed \ {t}
  /\ refs' = [refs EXCEPT ![t] = @ \cup {t}]
  /\ UNCHANGED <<reach, home, stale, inside, phase, queue, touched>>

\* Expr::Var: the variable is loaded, and what it holds retained.
LoadGlobal(t) ==
  /\ Runs(t)
  /\ t = Main \/ "global" \in reach
  /\ "global" \in (home \cup stale) \ refs[t]
  /\ rc["global"] < MaxCount
  /\ Read(t, "retain", "global")
  /\ UNCHANGED <<reach, rc, freed, home, stale, refs, phase, queue>>

FinishRetain(t) ==
  /\ ProcessRuns
  /\ inside[t].do = "retain"
  /\ rc' = [rc EXCEPT ![inside[t].block] = inside[t].seen + 1]
  /\ refs' = [refs EXCEPT ![t] = @ \cup {inside[t].block}]
  /\ inside' = [inside EXCEPT ![t] = Idle]
  /\ touched' = {inside[t].block} \cap freed
  /\ UNCHANGED <<reach, freed, home, stale, phase, queue>>

\* A value has been used.
ReleaseValue(t) ==
  /\ Runs(t)
  /\ \E b \in refs[t] \ {"env"} : Read(t, "release", b)
  /\ UNCHANGED <<reach, rc, freed, home, stale, refs, phase, queue>>

\* Mutant of Sendable: the tag is not looked at.
SendAny(v) == TRUE

\* is_primitive
Sendable(v) == v \notin Block

\* channel_send of a value that was computed: refused unless primitive, and
\* released when the call is over.
Send(t, v) ==
  /\ Runs(t)
  /\ v \in (refs[t] \ {"env"}) \cup {"int"}
  /\ queue = {}
  /\ queue' = IF Sendable(v) THEN {v} ELSE queue
  /\ IF v \in Block THEN Read(t, "release", v) ELSE UNCHANGED <<inside, touched>>
  /\ UNCHANGED <<reach, rc, freed, home, stale, refs, phase>>

\* channel_recv: whoever receives owns what it gets.
Recv(t) ==
  /\ Runs(t)
  /\ queue # {}
  /\ queue' = {}
  /\ refs' = [refs EXCEPT ![t] = @ \cup (queue \cap Block)]
  /\ UNCHANGED <<reach, rc, freed, home, stale, inside, phase, touched>>

(***************************************************************************)
(* Variables and the end of main.                                          *)
(***************************************************************************)

\* Stmt::Reassign of the variable: the old value is released before the
\* variable is overwritten.
DropVariable(b) ==
  /\ Runs(Main)
  /\ b \in home
  /\ Read(Main, "drop", b)
  /\ UNCHANGED <<reach, rc, freed, home, stale, refs, phase, queue>>

Overwrite ==
  /\ ProcessRuns
  /\ inside[Main].do = "overwrite"
  /\ stale' = stale \ {inside[Main].block}
  /\ inside' = [inside EXCEPT ![Main] = Idle]
  /\ UNCHANGED <<reach, rc, freed, home, refs, phase, queue, touched>>

\* The top level has run to its end.
EndMain ==
  /\ Runs(Main)
  /\ refs[Main] = {}
  /\ phase' = [phase EXCEPT ![Main] = "leaving"]
  /\ UNCHANGED <<reach, rc, freed, home, stale, refs, inside, queue, touched>>

\* The end of main releases each global and overwrites none.
ReleaseLast(b) ==
  /\ ProcessRuns
  /\ phase[Main] = "leaving"
  /\ inside[Main] = Idle
  /\ b \in home
  /\ Read(Main, "last", b)
  /\ UNCHANGED <<reach, rc, freed, home, stale, refs, phase, queue>>

\* The store of a release, by a thread that read the count before.
FinishRelease(t) ==
  /\ ProcessRuns
  /\ inside[t].do \in {"release", "drop", "last"}
  /\ LET b == inside[t].block IN
     /\ rc' = [rc EXCEPT ![b] = inside[t].seen - 1]
     /\ freed' = IF inside[t].seen = 1 THEN freed \cup {b} ELSE freed
     /\ touched' = {b} \cap freed
     /\ IF inside[t].do = "release"
        THEN refs' = [refs EXCEPT ![t] = @ \ {b}] /\ UNCHANGED <<home, stale>>
        ELSE home' = home \ {b} /\ stale' = stale \cup {b} /\ UNCHANGED refs
     /\ inside' = [inside EXCEPT ![t] = IF @.do = "drop" THEN [@ EXCEPT !.do = "overwrite"] ELSE Idle]
  /\ UNCHANGED <<reach, phase, queue>>

(***************************************************************************)
(* Threads.                                                                *)
(***************************************************************************)

\* gen_thread_spawn: the variable that holds the closure is read, its env is
\* passed on uncounted.
Spawn(u) ==
  /\ Runs(Main)
  /\ reach \cap {"env"} \subseteq home
  /\ phase[u] = "unborn"
  /\ phase' = [phase EXCEPT ![u] = "spawned"]
  /\ UNCHANGED <<reach, rc, freed, home, stale, refs, inside, queue, touched>>

\* The body starts: it retains its env for its self closure.
Begin(u) ==
  /\ ProcessRuns
  /\ phase[u] = "spawned"
  /\ phase' = [phase EXCEPT ![u] = "running"]
  /\ IF "env" \in reach THEN Read(u, "retain", "env") ELSE UNCHANGED <<inside, touched>>
  /\ UNCHANGED <<reach, rc, freed, home, stale, refs, queue>>

\* The body returns: its self closure, and with it the env, is released.
LeaveBody(u) ==
  /\ u # Main
  /\ Runs(u)
  /\ refs[u] \subseteq {"env"}
  /\ phase' = [phase EXCEPT ![u] = "leaving"]
  /\ IF "env" \in reach THEN Read(u, "release", "env") ELSE UNCHANGED <<inside, touched>>
  /\ UNCHANGED <<reach, rc, freed, home, stale, refs, queue>>

ThreadExit(u) ==
  /\ ProcessRuns
  /\ phase[u] = "leaving"
  /\ inside[u] = Idle
  /\ u = Main => home = {}
  /\ phase' = [phase EXCEPT ![u] = "exited"]
  /\ UNCHANGED <<reach, rc, freed, home, stale, refs, inside, queue, touched>>

HeapNext ==
  \/ \E t \in Thread : Alloc(t) \/ LoadGlobal(t) \/ FinishRetain(t) \/ ReleaseValue(t)
  \/ \E t \in Thread : FinishRelease(t) \/ Recv(t) \/ \E v \in Block \cup {"int"} : Send(t, v)
  \/ \E b \in Shared : DropVariable(b) \/ ReleaseLast(b)
  \/ Overwrite \/ EndMain
  \/ \E u \in Thread : Spawn(u) \/ Begin(u) \/ LeaveBody(u) \/ ThreadExit(u)

HeapSpec == HeapInit /\ [][HeapNext]_heapVars

(***************************************************************************)
(* Properties.                                                             *)
(***************************************************************************)

\* The header counts the variable and the threads that own the block.
CountExact(b) ==
  /\ rc[b] = Cardinality({t \in Thread : b \in refs[t]}) + Cardinality(home \cap {b})
  /\ b \in freed <=> rc[b] = 0

(* What the design of std thread promises in the end                       *)
(* (2026-07-21-std-thread-design.md:60-70): the counts of a program whose  *)
(* spawned bodies touch no heap value of other threads stay exact without  *)
(* a lock, and even in one whose bodies do the damage is confined to those *)
(* values.  It rests on channel_send, which must let no block through.     *)
CountsConfined ==
  /\ HeapTypeOK
  /\ touched \subseteq reach
  /\ \A b \in Block \ reach : CountExact(b)

(* What 2026-07-21-std-thread-design.md:28-30 says of closures: a spawned  *)
(* one cannot carry a heap value into its thread, so that a program whose  *)
(* bodies use no heap global counts exactly.  Closures that capture break  *)
(* it: the env goes to the thread uncounted.                               *)
EnvsCounted ==
  "global" \notin reach => touched = {} /\ \A b \in Block : CountExact(b)
=============================================================================
