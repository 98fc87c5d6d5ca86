# Verification of the Verb compiler

Verb is a small imperative language. `src/src/*.rs` parses it, generates LLVM
IR, and either runs the IR (JIT) or links it into a program (AOT);
`src/runtime/*.cpp` is the C++ runtime of the `std` modules. This directory
holds TLA+ models of the parts of that system whose correctness depends on the
order of many steps or on cases a test hardly reaches, TLC configurations that
check them on small instances, and TLAPS proofs about the core one, the
reference-counted heap.

`PROJECT.json` lists components, runs, the code lines behind every definition,
a mutant for every property, hazards, findings and theorems. In the modules a
definition commented "Mutant of X" or "Mutated: ..." is a plausible bug, used
only to show that a property can be broken.

## 1. The system

| Component | State | Operations | Where |
|---|---|---|---|
| Reference-counted heap | a header per block (count, or `GC_STATIC_SENTINEL`), `verb_gc_live` | alloc, retain, release and its cascade | codegen.rs 233-590, 1896-2478 |
| Statements and expressions of one frame | operand temporaries, scopes of cells, globals, loop bookkeeping | what each `gen_expr`/`gen_stmt` arm emits | codegen.rs 2500-3080, 3457-3880 |
| Functions, closures, calls | closure block, env block, frames | definition and capture, call, entry, return | codegen.rs 3080-3224, 3983-4011 |
| Tagged unions and errors | table of variants, descriptor of a value | `choice`, construction, `match`, `is_err`, `err_kind`, `err_msg` | codegen.rs 3229-3552 |
| Arithmetic, comparison, string helpers | none | `verb_add` ... `verb_eq`, `str_index`, `str_slice`, `str_split` | codegen.rs 860-1500 |
| std map runtime | a hash map in insertion order per handle | `map_new/set/get/remove/keys/values`, key by position | verb_map.cpp |
| std thread runtime | OS threads, mutexes, a channel = deque + mutex + condition variable | spawn, join, lock, unlock, send, recv | verb_std_thread.cpp |
| Threads and counts | headers shared by threads | non-atomic retain/release, the env handed to a thread | codegen.rs 1941, 2044, 4086 |
| Debugger | breakpoints, stepping, current line, frames | checkpoint and frame hooks, console commands | debugger.rs |
| Import resolver | `done`, `on_stack`, `sources`, the program so far | `resolve`, `process` | resolve.rs |
| Parser | position, `fn_depth`, `loop_depth`, errors | `parse`, `parse_recovering`, `synchronize`, `expression` | parser.rs |
| Lexer | position in the text, line and column, tokens and comments | `lex`, `lex_with_comments` | lexer.rs |
| Formatter | printer: output, indentation, last line, previous token | `format` | formatter.rs |
| REPL | history, buffered lines | `run_repl`, `classify_repl_line`, `compile_and_jit_run` | main.rs 562-765 |
| AOT build | temporary objects, results, exit status | `build_aot_host`, `build_aot_cross`, `build_aot_all` | main.rs 782-1173, targets.rs |
| Language server | open documents, `shutting_down` | one handler per message | verb-lsp.rs |
| Connections of std io | file descriptors, bytes on their way | `tcp_connect`, `send_line`, `recv_line`, `close_conn` | verb_std_io.cpp 82-175 |
| Resolution of calls, `extern` functions | `externs`, the declarations of the LLVM module | `gen_call`, `gen_std_io_call`, `gen_extern_call`, `gen_typed_extern_call`, `gen_thread_spawn` | codegen.rs 3716-4300 |
| JIT run, std io files, std net, std time, values, errors | none of their own | one call of LLVM or of the system each | not modelled |

**How they interact.** The generated code is the hub: it calls the helpers it
emits itself, the C++ runtime through `gen_std_io_call` (each argument is
released after the call, so the runtime must retain what it keeps), and in a
debug build the debugger's hooks. Threads share globals, and the env of the
closure they run; a debug build has one thread, as `verb debug` refuses every
import of a std module (main.rs:473-482). In front of it stand the lexer,
the parser and the resolver, which runs both on every file. The REPL, the
builder and the language server are three loops around that pipeline, each with
a state that outlives one run of it: the retained entries, the objects of
earlier targets, the open documents. The formatter reads tokens and comments of
the lexer.

**What is hard.** (a) Ownership: every path of every construct has to give up
exactly the references it took; a mistake is noticed by an unrelated statement
much later. (b) Non-local exits: `leave`, `next`, `return` and aborts out of
nested scopes, `each` loops and argument lists. (c) Pointers that are not
counted: the collection of an `each`, the env of a running body, keys of a map.
(d) Threads on data whose counts are not atomic; condition variables.
(e) Recursion that must stop: release cascades, import cycles, error recovery.
(f) Two passes or two tables that have to agree: `str_split`, variant numbers,
int and float comparison, the declarations of a symbol. (g) Loops that go on
after a failure with what the failure left: REPL, build of all targets,
language server. (h) A connection that takes any part of a line, and breaks.

**What makes each component correct.** Heap and frame: the count of a block is
the number of places that refer to it; `verb_gc_live` is the number of live
allocations; nothing survives the program except cycles; releasing ends.
Closures: the env is alive when the body starts, capture cannot build a cycle.
Map: the same counts with the map as an owner. Threads: a channel is a FIFO
queue and no receiver sleeps on a filled one; whatever threads do, only blocks
that several of them get at are miscounted. Debugger: `backtrace` is the calls
that are open, a statement stops exactly if what was typed asks for it. Resolver: each file once, imports before importers, an error
exactly when there is one. Variants: the arm written for the value's variant
runs and its fields exist. Helpers: the laws of strings, order and arithmetic.
Parser: accepts the grammar, gives every operator its operands, recovers from any
error, ends. Lexer: positions are
those of the text, nothing is dropped. Formatter: keeps tokens and comments, and
does nothing the second time. REPL: what was retained rebuilds the session, but
for what entries changed that are not retained.
Build: an executable is linked from this build's objects, the exit status is
true. Language server: an answer is about the text the editor had written when
it asked, the diagnostics shown are of the text it wrote last. Connections: lines arrive whole and in order, nobody waits for
ever. Calls: one symbol, one declaration, the same at every call.

## 2. Modules

| Module | Models | Notes |
|---|---|---|
| `VerbHeap` | blocks, counts, slots, release and cascade | a `VerbValue` is the block it points to or `Nil`; every place that owns a reference is a `Slot` |
| `VerbProgram` | one frame, over `VerbHeap` | one action per construct; which program runs is left open |
| `VerbMap` | extends `VerbProgram` by verb_map.cpp | key equality left open: any entry or none; `keyOf` is the keys, which the map does not retain, `spoiled` that a freed one was read or one released that the map never owned |
| `VerbClosures` | functions and calls, over `VerbHeap` | variable `prog`: which part of the language the program uses |
| `VerbStdThread` | verb_std_thread.cpp | one action per lock, push, notify, wait, pop |
| `VerbChannel` | abstract FIFO queue | `VerbStdThread!ImplementsChannel` is the refinement |
| `VerbThreadHeap` | load and store of a count by several threads, variables, spawn, send and receive, the end of main | a private block per thread, and the two that several can get at: an env and a global; `reach` says which of them the spawned bodies use |
| `VerbDebugger` | debugger.rs and the hooks codegen.rs emits | `stack` (ghost) is the calls and statements that run; each hook is a step apart from the call or return it reports, and the two ways out of a body have a hook each |
| `VerbResolve` | resolve.rs | a file is what it imports and whether it reads and parses |
| `VerbVariants` | tagged unions | the table of variants at compile time, numbers at run time |
| `VerbStrings`, `VerbNumbers` | helpers | pure; one call per behaviour |
| `VerbStdIo` | a connection of std io | two threads send on it, the peer receives; `sigpipe` is the disposition of SIGPIPE |
| `VerbCalls` | which symbol a call goes to | one action per kind of call site; `decls` is the LLVM module |
| `VerbLibrary` | the four above, `VerbVariants` and `VerbThreadHeap` side by side | one of them moves in a behaviour |
| `VerbParser` | statement-level parser | a token is chosen when it is first looked at, so every text is parsed |
| `VerbExpr` | expressions of parser.rs | `calls` is the native stack: loops that have not returned, and what is still expected |
| `VerbLexer` | lexer.rs | a step per character or lexeme; `mode` is the loop it is in |
| `VerbFormat` | formatter.rs | formats, reads what was printed back as the lexer would, formats again |
| `VerbRepl` | the REPL of main.rs | a line is what it begins, ends and states; `known` (ghost) is a session that runs each entry once, `forgotten` (ghost) the names whose value came from an entry that is not retained |
| `VerbBuild` | AOT builds of main.rs | a file is the target it was made for; the order of `-L` directories is left out |
| `VerbLsp` | verb-lsp.rs | a text is whether it lexes, parses, compiles; every method comes with an id and without |
| `VerbTools` | the six above and `VerbResolve` side by side | one of them moves in a behaviour |
| `MCVerb*` | bounds and values for TLC | - |
| `VerbHeapProofs` | what the moves of references do to counts; reachability; what survives | TLAPS, section 5 |
| `VerbProgramProofs` | theorems about `VerbProgram` and `VerbMap` | TLAPS |
| `VerbClosuresProofs` | theorems about `VerbClosures` | TLAPS |
| `VerbStdThreadProofs`, `VerbDebuggerProofs` | theorems about `VerbStdThread`, about `VerbDebugger` | TLAPS |
| `VerbLibraryProofs` | theorems about `VerbCalls`, `VerbStdIo`, `VerbThreadHeap`, `VerbVariants`, `VerbNumbers` and `VerbStrings` within `VerbLibrary` | TLAPS |
| `VerbToolsProofs` | theorems about `VerbResolve`, `VerbBuild`, `VerbLexer`, `VerbLsp`, `VerbRepl` and `VerbFormat` | TLAPS |
| `VerbParserProofs` | theorems about `VerbParser` | TLAPS |

**Correspondence.** In the heap modules `rc`, `gcLive` are the header word and
the global of the generated code; `own` is the content of every owning place;
`drain` is the native stack of nested `verb_release_value` calls; `orphan`
(ghost) counts references that were overwritten without a release. Expressions
run in postfix order: a `gen_expr` leaves one owned reference in `Temp(sp)`, a
helper reads the topmost ones, leaves its result in `Reg` and lowers `sp`; a
temporary above `sp` is an operand whose `verb_release_value` is still to come
(`ReleaseOperand`). `depth`, `target` are the scopes open and the depth a
`leave`, `next` or `return` unwinds to; `fe` is the `each` loops, which keep an
uncounted pointer to their collection. Where a value is moved and the old one
released, `Exchange` swaps the two, so that the old one is what is due.

`VerbLibrary` and `VerbTools` put modules side by side whose code shares no
state: a product of them would only repeat each one's behaviours. An initial
state starts one part and has the others at the end of a run of theirs
(`NoString` ... `NoCall`, `NoImport` ... `NoEditor`), so that one configuration
checks all of them, and every part still reaches every state it has alone.

## 3. Runs

Each run has one question. "Passing" runs also check that the system is not
stuck where it may not be (`CHECK_DEADLOCK FALSE` only where threads may all
wait, or a one-shot call just ends).

| Run | Bounds | Shows |
|---|---|---|
| `program` | 4 blocks, one name, up to 3 operands and 3 scopes | counts, `verb_gc_live`, scopes, `each`, cascades, leaks, termination of releases (6 properties) |
| `map` | 3 blocks, 2 entries, strings as keys | `MapCountsExact`: counts and `verb_gc_live` with maps and `each` over maps, until a key is used that was freed or never owned |
| `closures` | 7 blocks, 2 names, 1 function name, 2 frames, programs of 4 to 6 statements | counts, env lifetime, scopes of frames, acyclic capture, no leak |
| `threads` | 3 threads, 1 channel, 1 mutex, 3 values sent | refinement of `VerbChannel` with liveness, lock, wakeups |
| `debugger` | 2 files of 2 lines, 2 functions, 2 calls deep, 3 statements open, 2 commands about breakpoints (at most 4 of both, `Small`) | `BacktraceTrue`, `StopsAsAsked` |
| `parser` | every text to 9 tokens of 18 kinds | grammar, depths, recovery, termination |
| `library` | strings to 6 bytes over 2, separators to 3; 4-bit ints, 2-bit significands; `Result` and two choices, matches of 2 arms; main and a spawned thread, each with a block, and 2 blocks they may share, a global counted up to 3; two senders of 3 lines, 3 bytes on their way, 2 addresses; 3 call sites, 8 names | `StringsAgree`, `Trichotomy`, `IntLaws`; `DispatchInChoice`; `CountsConfined`; `LinesWhole`, `NoFdLost`, `ConnectionEnds`; `CallsLink` |
| `tools` | 3 files, one library, 2 imports per file: every import graph; texts to 8 characters; expressions to 6 tokens of 14; one comment anywhere in 4 texts, or two; 4 lines typed of 15; 3 targets, all sets of std modules; 3 messages about 2 documents | `ImportsFirst`, `Verdict`, `Returns`; `PositionsExact`, `NothingSkipped`; `TreeMeant`; `TextKept`, `Stable`; `ReplayRebuilds`, `EntriesWhole`; `LinkFresh`, `ExitHonest`; `AnswersCurrent`, `DiagnosticsCurrent` |
| `clos_env_freed` | as `closures` | violated: section 6, no. 1 |
| `map_key_freed` | as `map` | violated: section 6, no. 2 |
| `thread_env` | threads as in `library` | violated: section 6, no. 3 |
| `session_forgets` | sessions as in `tools` | violated: section 6, no. 4 |

**Why the bounds are enough.** `program` and `map` explore a union of bounded
programs (`Programs` in the MC module, a state constraint): the whole language
over four blocks does not fit. Each entry names the kinds of blocks, how many,
how wide, and the scopes and operands: arrays that grow twice (capacity 0, 1, 2)
and alias; arrays in each other, cyclic too; an `each` in a loop in a scope, with
`leave` out of all three; `each` over strings, which allocates; records and
variants whose fields refer to each other, matched and set. Two blocks make
aliasing, self-reference and a two-block cycle; three a cascade through a block
that stays alive; what more blocks could add is covered by the proofs of
section 5, which hold for any number. In `closures` seven blocks are two
closures, their envs, a cell for each and one to spare. In `threads` two
threads beside main are two receivers for one value, or two senders; a third
value makes order visible after a pop. In `library` main
and one spawned thread hold a shared block twice over, and each may lose the
other's update; the proof is for any number of threads. In `debugger` two statements open in
each other, in a function called from a third, are a call whose line is stale
and one whose line is right; two commands set and delete a breakpoint by line
alone and with its file. Two significant bits of 4 give every
rounding of 53 of 64: exact, up, down and tie, at the ends too. Nine
tokens hold a function in a loop in a function cut off anywhere. Eight
characters of `!`, `?` and line end hold two block comments, one in pieces and
over two lines. Six tokens of an expression are two operators of any levels with a
prefix, a field, a call or a list among them. The texts of the formatter have a comment of each kind before
every token, on its line, below it and after a gap, and its only state over a
token is what two neighbours show. Four lines of the REPL define, fail and use
what was defined, in one entry or in several. The third target of a build of all
comes after one that failed and one that did not; the host is built alone. Three
messages open, change and ask about a document while another is open. Three
bytes on their way cut a line of two bytes and its end at every place.
Three call sites are a declaration, one that finds it and a third that differs;
every program with fewer is among them.
Bounds in guards: `Width`, `MaxTemp`, `MaxDepth`, `MaxLost` (heap, program),
`statements`, `calls`, `temps` of a program (closures), `MaxSent`, `MaxCount`,
`MaxDepth`, `MaxNest` and `MaxAsked` (debugger), `MaxArms`,
`MaxImports`, `MaxTokens`, `MaxExprTokens`, `MaxDigits`, `MaxTyped`, `MaxMessages`, `MaxWire`,
`MaxAddrs`, `MaxArgs`, `MaxCalls`. When no block is left the program aborts, as it does
when `malloc` returns null.

**The properties, and the code behaviour each is about**, stand as comments at
their definitions. Those that relate most: `RefExact` (`VerbHeap`), the count
against all places and the releases under way; `ReleasesShrink`, a measure every
step of a cascade and of the end of a program lowers, which with deadlock
checking says both end; `NoLostWakeup`; `ImplementsChannel`; `ParsesGrammar`,
the recursive descent against a grammar written separately; `TreeMeant`, six
nested loops against splitting at the loosest operator; `StringsAgree`, two
passes against the pieces between separators; `PositionsExact`, the running line
and column against the text; `TextKept` and `Stable`, the printer against the
lexer reading it back; `CountsConfined`, unlocked loads and
stores against who can get at a block; `BacktraceTrue` and `StopsAsAsked`, what
the console shows against calls and commands; `ReplayRebuilds`, replay from
nothing against a session that runs each entry once; `AnswersCurrent`, answers
against the editor's own messages; `LinkFresh`, objects against the target they were made for;
`LinesWhole`, lines received against lines sent through a wire that cuts them
anywhere; `CallsLink`, every call against the declaration it finds.

## 4. Fairness

- `VerbProgram`: weak fairness of `Releasing`. Generated code never waits: a
  release that is due is the next instruction. Nothing else is fair, a program
  may loop for ever. (No run uses it: `ReleasesShrink` needs none. The theorems
  are about the specification with it.)
- `VerbStdThread`: weak fairness of each thread *inside* the runtime
  (`InRuntime`): the operating system runs a thread that is not blocked. A
  mutex is not fair (no strong fairness), spurious wakeups and the program's
  next call are owed to nobody. Under it `VerbChannel`'s fairness follows.
- `VerbResolve` (in `VerbTools`), `VerbParser`: weak fairness of the step:
  sequential code, run to the end.
- `VerbStdIo` (in `VerbLibrary`): weak fairness of each call that can return:
  `send` when there is room or the connection is broken, `recv` when there is a
  byte or the end, `close`. The reset of the connection is owed to nobody, no
  thread is preferred, and a program that connected goes on to send and close.
- The rest states safety only and has none. `MaxSent` ends the sending in
  `threads`, so its liveness is about receivers that still get a value and calls
  that return, not about a stream without end.

## 5. Proofs

Each theorem holds for every value of the constants that the named assumptions
admit, where a run shows it on one. The assumptions are those of the modules;
TLC evaluates each on a run.

- `HeapAssumption`: finite sets of blocks and names, `Nil` is no block, the
  bounds are positive. `ProgramAssumption`: `Lang` is any part of the language.
- `ThreadAssumption`: finitely many threads, main among them; threads, channels
  and mutexes are different things.
- `FnAssumption`: functions are names, `NoName` is none, `Programs` are programs.
  The parameters of a function may coincide with its name or a global's; only
  `FunctionsLeave` asks that none is named like its own function, because the
  property is false otherwise (section 6, no. 6). `CalleesKeepEnv` states
  `EnvAliveByName`, which speaks of programs that call names only and reassign
  none; without that it is false (section 6, no. 1).
- `ResolveAssumption`: the entry is a file. Nothing is asked of what files hold:
  they import each other in any way, also themselves. `BuildAssumption`: the
  target triples are different and none is called `host`, as in targets.rs.
  `LexerAssumption`: texts are sequences of characters, and the suffix (`.verb`
  in the code) begins with its point and holds no newline. `LspAssumption`: of
  any text it is known whether it lexes, parses and compiles.
- `DebuggerAssumption`: the main file is a file, every function has one, and the
  bounds are numbers. `MapAssumption`: a key that is gone is no value.
  `VariantsAssumption`: every choice and every variant has a name of its own and
  at most two fields; without the first the later choice takes over the entry.
- `CallsAssumption`: no two std modules export a name, none exports one of the
  runtime (so is the table in codegen.rs), and no program calls
  `thread_spawn_raw` itself: a program with an `import mod` whose library has a
  function of that name is outside. The code takes the declaration it finds
  under a name without a look at its type.
- `ThreadHeapAssumption`: finitely many threads, main among them. Nothing is asked
  of their order or of what they get at.
- `Locked` for `LinesArriveWhole`: the senders hold a mutex while they send a
  line (section 7).
- `NumbersAssumption`: an int has at least two bits, and a float at least two
  fewer than an int has (53 and 64). Without the second the negation of the least
  int need not be a float, and the order of ints and floats has gaps there.
- `FormatAssumption`: a text is tokens and comments with the newlines before each,
  and what follows a line comment stands on a later line, as a line comment ends
  at its newline. `ReplAssumption`: a line says of itself whether it lexes, how
  deep it nests, and which statements it holds. `ParserAssumption`,
  `StringsAssumption`: their bounds are numbers.
- `"set" \notin Lang` for `AcyclicProgramsLeakNothing`: with it the property is
  false (section 6, no. 5).

| Theorem | Says |
|---|---|
| `VerbProgramProofs!Invariance` | `Spec => []IInv` |
| `VerbProgramProofs!TypeCorrect` | `Spec => []TypeOK` |
| `VerbProgramProofs!CountsExact` | `Spec => []RefExact`: every header is exactly the number of references |
| `VerbProgramProofs!NothingDangles` | `Spec => []NoDangling`: no owning place refers to a freed block |
| `VerbProgramProofs!CascadeExact` | `Spec => []CascadeOwnsItsBlocks`: the nested releases work on each live block nobody refers to, once |
| `VerbProgramProofs!LeakCountExact` | `Spec => []LiveCountExact`: `verb_gc_live` is the number of allocations not given back |
| `VerbProgramProofs!ReleasesEnd` | `Spec => ReleasesShrink`: a release leaves less than it found, whatever refers to what |
| `VerbProgramProofs!ReleasesInvisible` | `Spec => ReleasesSpareTheRest`: no release, and nothing freed by it, changes a block that is still referred to |
| `VerbProgramProofs!ScopesHold` | `Spec => []ScopesExact`: a scope that was left owns nothing, an open `each` owns its collection |
| `VerbProgramProofs!OnlyGarbageSurvives` | `Spec => []OnlyLostOrCyclicSurvive`: what is live at the end is on a cycle, was overwritten by `set`, or hangs on such a block |
| `VerbProgramProofs!AcyclicProgramsLeakNothing` | `Spec => []AcyclicLeaksNothing`, for programs without `set` |
| `VerbProgramProofs!MapsCountExact` | `MapSpec => []MapCountsExact`: the map functions keep every header and `verb_gc_live` exact, whatever the keys, until one is used that was freed or never owned |
| `VerbClosuresProofs!FunctionsCountExact` | `Spec => []RefExact`: every header is exact in every program of functions, with closures, captures, recursion and calls by value |
| `VerbClosuresProofs!FunctionsLeave` | `FunctionsLeakNothing`, for programs without a parameter named like its function: frames that have returned own nothing, the end owns nothing |
| `VerbClosuresProofs!CalleesKeepEnv` | `Spec => []EnvAliveByName`: the env of a body called by name is alive when it starts |
| `VerbStdThreadProofs!Invariance`, `LockExact` | the lock of a channel is held by the thread in its critical section and no other |
| `VerbStdThreadProofs!WakeupsKept` | `Spec => []NoLostWakeup` |
| `VerbStdThreadProofs!ChannelRefinement` | the safety half of `ImplementsChannel`: initial states are queues, steps are queue steps or stutter |
| `VerbLibraryProofs!LinksByName` | `Spec => []CallsLink` |
| `VerbLibraryProofs!DescriptorsKept` | `Spec => []NoFdLost` |
| `VerbLibraryProofs!LinesArriveWhole` | `Spec => []LinesWhole`, under `Locked`: lines arrive whole and in order, however their bytes were cut up |
| `VerbLibraryProofs!ConfinedCounts` | `Spec => []CountsConfined`: for any number of threads and any interleaving of loads and stores, blocks that no spawned body gets at are counted exactly |
| `VerbLibraryProofs!DispatchesInChoice` | `Spec => []DispatchInChoice`: among arms of the value's choice the arm of its variant runs |
| `VerbLibraryProofs!NumbersOrdered` | `Spec => []Trichotomy`: ints and floats are in one order at every width, but for NaN |
| `VerbLibraryProofs!IntsObeyLaws` | `Spec => []IntLaws`: at every width the int helpers agree with each other and return ints |
| `VerbLibraryProofs!StringHelpersAgree` | `Spec => []StringsAgree`: the two passes of `str_split` agree, and `str_index` and `str_slice` with them, over any bytes |
| `VerbToolsProofs!ResolveInvariance` | `ResolveSpec => []ResolveInv` |
| `VerbToolsProofs!ImportsStandFirst` | `ResolveSpec => []ImportsFirst`: each file once, behind what it imports |
| `VerbToolsProofs!VerdictRight` | `ResolveSpec => []Verdict`: accepted are exactly the good programs, with exactly what they reach |
| `VerbToolsProofs!LinksFresh` | `BuildSpec => []LinkFresh`: each executable from its own objects and directories |
| `VerbToolsProofs!ExitsHonest` | `BuildSpec => []ExitHonest`: exit status 0 exactly if every target was linked |
| `VerbToolsProofs!PositionsNeverDrift` | `LexSpec => []PositionsExact`: tokens, comments and errors are where their lines and columns say |
| `VerbToolsProofs!NothingLost` | `LexSpec => []NothingSkipped`: they do not overlap, and between them are only blanks |
| `VerbToolsProofs!AnswersAreCurrent` | `LspSpec => []AnswersCurrent`: requests of the methods that are answered, once, in order, about the text of their time |
| `VerbToolsProofs!DiagnosticsShown` | `LspSpec => []DiagnosticsCurrent`: the editor shows what belongs to the text it wrote last |
| `VerbToolsProofs!EntriesStayWhole` | `ReplSpec => []EntriesWhole`: every line is evaluated once, in the entry it belongs to |
| `VerbToolsProofs!ReplaysRebuild` | `ReplSpec => []ReplayRebuilds`: the retained entries, compiled from nothing, give every name its value but those changed by an entry that is not retained |
| `VerbToolsProofs!TextSurvives` | `FormatSpec => []TextKept`: every token and comment of a text is in the formatted one when it is read back |
| `VerbToolsProofs!FormatsOnce` | `FormatSpec => []Stable`: the formatter leaves what it printed as it is |
| `VerbParserProofs!DepthsMatch` | `Spec => []DepthsMatchNesting`: `return`, `leave` and `next` are judged by the functions and loops really around them |
| `VerbParserProofs!RecoveryMovesOn` | `Spec => []Progress`: each statement tried begins further on (what `Terminates` rests on) |
| `VerbDebuggerProofs!Invariance`, `BacktraceHolds` | `Spec => []BacktraceTrue`: `backtrace` is the calls that are open, with the right line where the calling statement was the last with a checkpoint |
| `VerbDebuggerProofs!StopsHold` | `Spec => StopsAsAsked` |

**Counts.** `RefExact` is not inductive: when a block is freed one must know
that nobody refers to it and that it is in `drain` once, and when one is
allocated that the free block has neither a count nor fields. Hence
`IInv == HeapInv /\ ControlOK /\ RegIdle`, where `HeapInv` joins
`HeapTypeOK`, `RefExact`, `FreeIsZero`, `FreeOwnsNothing` (a free block has
count 0 and empty fields), `DrainIsDead` (what is in `drain` is live, has
count 0, and is there once) and its converse `DeadIsDrained` (a live block with
count 0 is in `drain`, so no release is forgotten), and `RegIdle` says the result register is empty
between helpers, so that a helper may fill it.

`VerbHeapProofs` first proves how `Put` and `Exchange` change the number of
references (`PutRefs`, `ExchangeRefs`, by finite cardinalities), then one lemma
per heap move: `DropStep`, `FreeBlockStep`, `CascadeStep`, `RearrangeStep`
(references only move), `CopyStep` (one more reference, one more count),
`AllocStep`. `VerbProgramProofs` has one lemma per action of `VerbProgram`,
which names the heap move it is and shows the control part; the invariance
theorem puts them together. `LeakCountExact` adds `LiveInv` (a buffer belongs to
an array) and follows the weight of the one block a step changes;
`ReleasesEnd` adds that the end of a program only ever releases.
`ReleasesInvisible` is `NoDangling` seen from the program: a block that a cascade
changes has the count 0, so by `RefExact` no slot refers to it.

**Scopes.** Why does the collection of an `each` survive an assignment in its
body to the variable it came from? A cell has one owner, its scope
(`CellsInScopes`, `CellsUnshared`), so no expression reaches the hidden cell, and
what an expression may write (`Harmless`) excludes its value. `EachNested` says
that the loops open are nested in the scopes that stay, so a `leave` that
releases inner scopes stops above the outer loops' cells.

**What survives.** The recursive function `Reach` is reasoned about as the least
set closed under `Children` (`ReachLeast`, `ReachClosed`; instead of an
induction, `Least` takes the first round in which the claim fails). If a live
block at the end is neither lost nor on a cycle, its count says that somebody
refers to it (`HasParent`), and that block reaches strictly more. A block that
reaches most, which exists as blocks are finite (`Largest`), has therefore no
parent, a contradiction (`Survivors`). `FinalInv` supplies that roots and `drain`
are empty when the program has ended.

**Maps.** `MapInv` is `IInv`, and that a key points to a live block although
nobody counts it, or is gone (`KeysLive`): a step that frees a block takes it from
every key, and none frees a block otherwise. Then each map function is a move of
`VerbHeapProofs` again: an insertion exchanges a temporary with a field, an
overwriting drops what the field had, a removal moves the value of the entry to
where a lost reference is counted and closes the gap (`RearrangeStep`: references
only change places), and a snapshot copies each field or key into a new array. A
key read by `each` is one more reference to a live block (`CountedStep`). All of it
holds up to the step that makes the program `spoiled`. `MapWeight` follows the
allocations as for `LeakCountExact`.

**Threads.** `NoLostWakeup` is about sleepers only; its inductive form
`ValuesClaimed` says that while somebody sleeps, the values queued are at most
as many as the threads that hold or will take the lock for them: senders who
have pushed and not yet notified, and receivers awake. It needs `LockOwner`, which makes check and sleep
one step for everybody else. The refinement maps the queue of the runtime to
itself and each call to the abstract step at the push or the pop.

**Library.** `CallsInv`: a declaration is under its own name with the type the
tables give that name, except those of `each`, which are made beside the table;
these agree with it because `map_len` and `map_key_at` have one row. `FdsInv` follows
the socket under trial. `LinesInv` labels every byte in flight with the line and
the place in it that it is (`Labels`); the labels follow one another from where the receiver is
to where the next byte sent will be, so a piece sent or a byte received only
moves an end (`SendKeeps`, `RecvKeeps`), and a line ends where its newline is as
no other byte of a line is one.

*Counts of threads.* `Confined`: a block out of the spawned bodies' reach has one
owner, so what its owner has read in the middle of a retain or release is still
the count when it writes (`OperationFits`), and no channel passes it on. The
blocks in reach may be miscounted in any way.

`VariantInv`: an entry of the table is the one a choice makes for its variant, of
which the id is the place (`PlaceOf`), so within a choice equal ids mean equal
variants (`IdsApart`); the arms before the one under test do not match.

**Numbers.** Rounding an int to a float is cutting off bits (`Exponent`) and taking
the nearest multiple of what is left (`Nearest`, ties to even). `2 ^ n` is known
to the prover only by its recursion, so the laws of powers come from counting
subsets (`PowerOfCard`: `2 ^ n` is the number of subsets of `n` things). With them rounding is
monotone (`RoundMonotone`, the cut at a power of two being the case that needs
work) and exact up to the precision, so two numbers compared as floats are never
in the order opposite to the exact one, and one of smaller, equal and greater
holds (`OneOfThree`). Quotient and remainder come from the uniqueness of division
(`DividesOnce`) and from which results fit a word (`QuotientInt`, `NegatedInt`).

**Strings.** `StrInv`: the offsets at which the first pass stopped (`Stops`) exist while
the second pass runs, and it is at the one whose number is that of the pieces
stored, so it finds as many; the pieces joined so far are the string up to there
(`Stored`). That strstr returns the first place is the choice of a least number
(`StrstrIs`), and no earlier hit is possible in a piece because it would be a hit in
the string (`PieceEnds`).

**Functions and closures.** `RefExact` needs to know what every slot may hold.
`Control` fixes where a program is: the operation under way, its code, and how
many temporaries the open calls have (`Stack`, `Position`). On top of it
`RootsTyped` and `FieldsTyped` say which kind of block a slot refers to (a local
a cell, field 1 of a closure its env, the fields of an env cells), `BuiltAlone`
that an env under construction has no owner but the register, `HasEnv` that a
closure with captures has an env and a call in progress a callee. `EnvKept`
follows the chain that keeps a running body's env alive: the frame owns the cell
of its function's own name, the cell the closure, the closure the env.

*No leaks.* In no step does a block become reachable from itself: a field is
only ever given a block that is older in the chain env, closure, cell, or that
has no parent yet (`FieldsGrowOutwards`), so the heap stays `Acyclic`. A reference
is lost only where `scope.insert` finds the name taken; `EntryLocals` says what
the entry of a body has bound so far, and with `NamesApart` each name is free
when its turn comes (`NoneLost`). Acyclic, nothing lost and no roots give an empty
heap (`Survivors`).

*The env of a callee.* `gen_call` releases the callee before the body has started.
`Named` says that the closure whose env is passed has another owner, a global or a
local bound below the call; globals and the locals of open frames stay as they
are while the call is prepared (`NamesStay`, `CallsStay`).

**Imports.** `ResolveInv` describes the depth-first walk at any moment: `Chained`,
each file on the stack imports the next one; `Waiting`, what is on it or was just
asked for stands nowhere in the program yet; `Progress`, a frame has visited what
it imports up to its index; `Ordered`, what stands in the program stands behind
what it imports; `ReadOnce` and `LibsOnce`, what has been collected is what the
files seen hold; `Blamed`, an error is the fault of the file named. Reachability
is taken as the least set closed under imports (`Closure`): to show that
acceptance means no file reaches itself, it is enough that everything before a
file in the program is closed. `DedupPush`, a loop over the libraries, is a
recursive function; what it pushes is found by the first number at which the
claim would fail.

**Builds.** `BuildInv` says whose each file in the directory of temporaries is:
the current target's up to the stage it is in, or one of a target that failed
(`Objects`), that targets take turns and each gets one result (`Turns`), and that
the results are those of the failures so far (`Outcome`).

**Scanner.** The column is how far the index is from the newline before it, so
`Stands` names that newline instead of the largest element of a set. `LexInv`:
index, line and column stand together, and so does the start of an open token;
the items so far are right and nothing is left out up to the index, or up to
that start. Each of the ten places that move on is then one of three moves: within
a line (`StandsOn`), over a newline (`StandsBelow`), or none.

**Language server.** A message or a notice lengthens a history by one, so the last
place that concerns a document is the new one or the old one. The id of a
request is its place in the history of received messages (`IdsFresh`), which is
why an answer's id is above all answered before. The server's table of documents
is what the messages wrote (`TextsKept`), and what an answer says of the text at
its place in the history stays said, as the history only grows.

**Parser.** `todo` holds, behind each body being parsed, the step that leaves it.
`Nests` reads those steps from the end: they give the depths at each place, and
what replaces the first place leaves the others alone. So the depths are those at the
first place (`ParserInv`), an error that leaves all of `todo` gets to the outermost
ones (`UnwindsAll`), and counting the places gives `DepthsMatchNesting`
(`CountsAre`). A body has its keyword among the tokens read, or as the token ahead
(`Kept`), which bounds the depths by the text. `MoveInv`: until a statement has
read a token, that token is there and is what the parser wants.

**REPL.** An entry is retained for the sake of what it does in a program that is
another one each time. `ReplayInv` says that the retained statements are
`Lasting` (they parse, and none aborts), so that running them is going through
them (`LastingRuns`); two programs one behind the other do what the second does
on the values the first leaves (`ExecutedJoins`, by the first statement at which
the two would differ), printing included if the first is quiet, also from two sets of values that agree
on the names that are read. So a turn does in the replay what it does in the
session that runs each entry once, on every name that is not `forgotten`. `EntriesInv` adds to `EntriesWhole`
that a block is open at the end of each prefix of the entry being typed.

**Formatter.** What the printer knows between two items depends on the kinds of
the items before (`Knows`), not on their lines, and it does not tell a float from
an int. `Fits` says what may be printed for an item in that state; lines only
choose between one new line and two, or whether a comment trails. What fits stands
apart from its neighbours (`FitsApart`), so it reads back as it is (`FitReadsBack`),
on the lines its white space says (`PrintedPlaced`). `FormatInv` therefore
describes both passes: the second finds the items of the source, written as the
first wrote them, on those lines, and what it prints has the same white space and
is the same item (`KnownBySpace`).

**Debugger.** `DInv`: every call between its two hooks has a frame (`Hooked`), the
frames are those of the calls below (`Matched`), and only the last call can be
before its push or behind its pop (`Shaped`). The line of a frame is right where
the statement that calls is the one of the last checkpoint, as that line is then
the current one (`LatestIs`, `Pending`). `AskedFor`: breakpoints and stepping are
what the commands so far say.

**Only model-checked**, and why:

- Liveness, also that of `ImplementsChannel`, `Returns` and `ConnectionEnds`: it
  rests on fairness and `ENABLED`, which the prover does not have.
- What recursive definitions compute for every input needs induction over data:
  the grammar of `parser` (`ParsesGrammar`) and `Meaning` of `VerbExpr`
  (`TreeMeant`).

## 6. Divergences between the code and its documents

Four are runs that fail:

1. `clos_env_freed`: codegen.rs:4006 releases the callee before the call. In
   `f()()` where `f` returns a capturing closure, that was the last reference:
   the env is freed and the body then reads its captures from it. The comment at
   codegen.rs:4113, on the same code for threads, says the env is "always null
   -- closures never capture". `EnvAliveByName` (passing) delimits it: with
   callees that are names nobody reassigns, the env is alive.
2. `map_key_freed`: verb_map.cpp:144 stores the key without a retain, and the
   call releases its argument (codegen.rs:4062): a string made at run time is
   freed while it is a key. verb_map.cpp:33 asks for a retain of every value
   that gets a second home. A map that is freed then releases a key it never
   owned (verb_map.cpp:243). `MapCountsExact` (passing) says what holds until then.
3. `thread_env`: codegen.rs:4114 hands the env of a closure to the thread
   uncounted, so a main that drops the closure frees it under the thread.
   docs/superpowers/specs/2026-07-21-std-thread-design.md:27 says that closures
   capture nothing. Heap values in globals that threads use are the limitation
   the same document discloses (60-79); `CountsConfined` (passing) says that
   nothing but these and captured envs is ever miscounted.
4. `session_forgets`: main.rs:579 does not retain a field set, a `shape`, a block
   or a call such as `push(x, 1);`, so what they change is undone at the next
   turn; main.rs:570 says that all program state is rebuilt every turn.
   `ReplayRebuilds` (passing) says that nothing else is lost.

The others can be reproduced with a property or constant the modules have:

5. codegen.rs:1742: `verb_array_set` overwrites without a release, although
   docs/superpowers/specs/2026-07-21-refcounting-gc-v2-design.md:143 says
   otherwise. Check `AcyclicLeaksNothing` with `"set" \in Lang`. What leaks is
   only what was overwritten (`OnlyLostOrCyclicSurvive`).
6. codegen.rs:3183: a parameter named like its function replaces the cell of
   the self closure in the scope, which is never released. In `VerbClosures` a
   program with `param |-> [f \in Fn |-> "f"]` violates `FunctionsLeakNothing`.
7. verb_map.cpp:180: `map_remove` does not release the value it erases.
   `AcyclicLeaksNothing` under `MapSpec`.
8. codegen.rs:3354: `is_err` holds of the second variant of every choice.
   `LooksLikeErr` of `VerbVariants` against the comment at 3334. As a consequence
   `err_msg` may read a field such a value does not have.
9. parser.rs:52: the comment says an error inside a `make` body leaves
   `fn_depth` incremented; the code decrements before it propagates
   (parser.rs:313-316). `ErrorUnwinds`, a part of `DepthsMatchNesting` (passing).
10. codegen.rs:3505 compares variant numbers only, and every choice counts from
    0, so a match runs an arm written for another choice's variant; the comment
    at codegen.rs:3457 says it falls to `otherwise` or aborts.
    `UncoveredFallsThrough` in MCLibrary.cfg; `DispatchInChoice` (passing)
    delimits it.
11. formatter.rs:182 prints a float that is a whole number without its point, so
    `3.0` becomes the int `3`, while formatter.rs:7 says the formatter "just
    echoes the tokens it sees". Division of ints and of floats differ, so the
    program may change. `EchoesTokens` in MCTools.cfg; `TextKept` (passing) says
    nothing else does.
12. codegen.rs:4069 lifts the nil of every io function to an `Err` because "`io`
    functions signal failure by returning nil" (4065); `close_conn` returns nil
    always (verb_std_io.cpp:174, and so specified in
    docs/superpowers/specs/2026-07-20-std-io-import-design.md:93), so a program
    sees an `Err` of every connection it closes. `ErrIsFailure` in MCLibrary.cfg.
13. debugger.rs:155 takes the line of the last checkpoint for the line of the
    call: after another call in the same statement, in the condition of a loop,
    in a `return` or an `each` it is another one.
    docs/superpowers/specs/2026-07-21-interactive-debugger-design.md:117 says
    "called at line". `BacktraceExact` in MCDebugger.cfg; `BacktraceTrue`
    (passing) says where it is right.
14. codegen.rs:4437 knows no line for `return` and `each`, so `step` does not stop
    at one; debugger.rs:507 has a checkpoint "at the start of every statement".
    `StepStopsNext` in MCDebugger.cfg; `StopsAsAsked` (passing) is about the
    others.

Remarked in the source while modelling, without a property of their own:

- verb_map.cpp:6 says maps are never freed; they are. A body of `each` is no loop
  for the parser, so `next` in a range `each` inside `repeat` skips the increment.
- The interactive loop re-runs the initialisers of earlier lines, so one that
  prints prints again every turn (main.rs:568-575 says so).
- A build for the host that fails while it compiles the thread or time runtime
  leaves the object of the net runtime behind (main.rs:930-948).
- The language server answers no request without a method (verb-lsp.rs:124), none
  of `initialized` (61) and none of a notification's method that came with an id
  (60-93): `Unanswered` of `VerbLsp`. JSON-RPC would have an error sent.
- The language server compiles a document without the files it imports
  (verb-lsp.rs:7): it flags names `verb run` accepts. Its header promises one
  diagnostic and names `parse`; the code calls `parse_recovering`.
- verb_std_io.cpp: `write_file` ignores the result of its `fclose` (69); a socket
  that ends in the middle of a line returns the partial line as a success
  (162-164); the descriptor of a closed connection may be given out again, so
  closing twice closes somebody else's (172).
- With an `import mod`, a name that is not declared yet is taken for a library's,
  so a forward reference becomes an extern call. codegen.rs:4163-4172 accepts it.

## 7. Limits

- Integer division and remainder of the least int by -1 are undefined in the
  generated code: an arbitrary outcome in `VerbNumbers`. `neg` of it wraps. A
  NaN divisor aborts as a zero one does. Equality of ints through a float is not
  transitive; `Trichotomy` says what does hold. The result of float arithmetic
  is any float.
- `MatchArm` of `VerbProgram` loads as many fields as the value has; gen_match
  loads those of the arm's variant, which is another number only for a value of
  another choice (section 6, no. 10), and `VerbVariants` is about those.
- The native stack of nested releases has no bound in the models.
- `VerbClosures` has one scope per frame; nested scopes are `VerbProgram`'s. The
  free-variable analysis is any list of locals.
- `VerbThreadHeap` counts only headers: `verb_gc_live`, which threads update
  without a lock too, and what is inside a shared block (an element of an array
  two threads write) are left out. A program that has used a freed block ends
  there: what it does is undefined. Each thread has one private block, allocated
  again and again.
- `VerbMap` ends with the first use of a freed key or the release of one the map
  never owned, for the same reason. Before that, a search among keys one of which
  is gone may read it or not.
- `VerbStdThread` starts with its channels and mutexes; using a joined handle or
  unlocking another's mutex is undefined in C++ and no action.
- `VerbDebugger` leaves the program open: any statements, calls and ways out. The
  checkpoint of a statement is asked of the innermost call only, and a thread is
  never spawned, which `verb debug` makes sure of (main.rs:473-482).
- `VerbStdIo` runs with `Locked = TRUE`: the program's mutex is around each use of
  a connection. Without it two threads mix their lines, which is the program's
  affair. A client is any sender of pieces; addresses, errno and the files of
  the io runtime are left out.
- `VerbCalls` lets no program call `thread_spawn_raw` itself, whose C signature
  is not the one an extern declaration gives it.
- `VerbFormat` does not model `escape_str`; texts are tokens, not characters.
  A skeleton of tokens need not parse, while the formatter refuses a file that
  does not (formatter.rs:22); each stands for a program with those kinds of
  tokens. `VerbRepl` keeps of a line its kind, its names and whether it fails;
  names that hold one array or record are one name. `VerbLsp` of a text whether it lexes, parses, compiles and is tidy.
- Cycles leak by design.
- Not modelled: argument parsing and the JIT run of main.rs, the table of target
  triples, the files of std io, the udp calls of std net, std time, what a library
  does with the values it is given (its source is not in the repository), the
  text of messages, editor support.

## 8. Plan

Done in this order: `VerbHeap`, `VerbProgram`, their proofs, `VerbClosures`,
`VerbMap`, `VerbStdThread` over `VerbChannel`, `VerbThreadHeap`, `VerbDebugger`,
`VerbResolve`, `VerbVariants`, `VerbStrings` and `VerbNumbers`, `VerbParser`; then
`VerbExpr`, `VerbLexer`, `VerbFormat`, `VerbRepl`, `VerbBuild` and `VerbLsp` under
`VerbTools`, `VerbStdIo`, and `VerbCalls` under `VerbLibrary`.

Next models: nested scopes in `VerbClosures`, ownership of arguments and results
of `extern` calls, the JIT's thunks, udp.

Proved so far: section 5.

Next proofs: an abstract object store (a program's values with no counts and no
frees) that `VerbProgram` refines, for which `ReleasesInvisible` is the step of a
release. `ParsesGrammar` and `TreeMeant` wait for a prover that does induction over
data.
