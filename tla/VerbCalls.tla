------------------------------ MODULE VerbCalls ------------------------------
(***************************************************************************)
(* What a call by name becomes, gen_call of src/codegen.rs: the name is    *)
(* looked up among the builtins, the records and variants, the variables,  *)
(* the std modules that are imported, and, with an `import mod`, taken for *)
(* a function of that library.  The last three kinds call a symbol of the  *)
(* LLVM module, declared when it is first needed; the table externs keeps  *)
(* the declarations.  LLVM gives a second declaration of a name a new name *)
(* (`map_len.1`), which no library provides.                               *)
(*                                                                         *)
(* The references a call takes and gives are in VerbProgram, closure calls *)
(* in VerbClosures.  The types are abstracted to how the arguments go over *)
(* and how many they are.                                                  *)
(***************************************************************************)
EXTENDS Naturals, FiniteSets, Functions

CONSTANTS
  Builtins,     \* the arity of each builtin function
  StdModules,   \* of each std module, the arity of each of its functions
  Runtime,      \* the symbols that Codegen::new has declared
  Types,        \* what a program may declare: tables of constructors
  Signatures,   \* what `exposing` may say: tables of [params, str]
  Bindable,     \* the names programs use for variables
  Callable,     \* the names programs call
  MaxArgs,      \* bound on the arguments of a call
  MaxCalls      \* bound on the call sites of a program

\* The std modules share no function and take no name of the code generator;
\* std map has the two functions an `each` calls.  thread_spawn_raw is what
\* the code generator calls for thread_spawn, programs do not call it.
CallsAssumption ==
  /\ MaxArgs \in Nat /\ MaxCalls \in Nat
  /\ \A m \in DOMAIN StdModules :
       /\ DOMAIN StdModules[m] \cap (Runtime \cup {"thread_spawn_raw"}) = {}
       /\ \A o \in DOMAIN StdModules \ {m} : DOMAIN StdModules[m] \cap DOMAIN StdModules[o] = {}
  /\ "map" \in DOMAIN StdModules => {"map_len", "map_key_at"} \subseteq DOMAIN StdModules["map"]
  /\ "thread_spawn_raw" \notin Callable

ASSUME CallsAssumption

VARIABLES
  imports,      \* the program has an import mod
  stdImports,   \* the std modules it imports
  externSigs,   \* the typed signatures
  constructors, \* the records and variants declared, with their fields
  bound,        \* the names that are variables where the compiler is
  externs,      \* the declaration of a name
  decls,        \* the function declarations of the LLVM module
  sites,        \* the calls emitted, with what they pass
  compiling     \* until a compile error

callVars == <<imports, stdImports, externSigs, constructors, bound, externs, decls, sites, compiling>>

Passes(how, n) == [how |-> how, n |-> n]
Tagged(n) == Passes("values", n)
Native(n) == Passes("native", n)
Pointers  == Passes("pointers", 2)

Declaration(name, nth, type) == [name |-> name, nth |-> nth, type |-> type]

\* The signatures are of the functions of an import mod.
CallsInit ==
  /\ imports \in BOOLEAN
  /\ stdImports \in SUBSET DOMAIN StdModules
  /\ externSigs \in IF imports THEN Signatures ELSE {[x \in {} |-> 0]}
  /\ constructors \in Types
  /\ bound = {}
  /\ externs = [x \in {} |-> 0]
  /\ decls = {Declaration(f, 0, Passes("runtime", 0)) : f \in Runtime}
  /\ sites = {}
  /\ compiling = TRUE

AtSite == compiling /\ Cardinality(sites) < MaxCalls

Reject ==
  /\ compiling' = FALSE
  /\ UNCHANGED <<imports, stdImports, externSigs, constructors, bound, externs, decls, sites>>

\* add_function: the declaration LLVM makes.
AddFunction(name, type) ==
  Declaration(name, Cardinality({d \in decls : d.name = name}), type)

\* module.get_function
Existing(name) == {d \in decls : d.name = name /\ d.nth = 0}

\* A call of the function d declares, passing what passes says.
Emit(d, passes) ==
  /\ decls' = decls \cup {d}
  /\ externs' = [x \in DOMAIN externs \cup {d.name} |->
                   IF x \in DOMAIN externs THEN externs[x] ELSE d]
  /\ sites' = sites \cup {[to |-> d, passes |-> passes]}
  /\ UNCHANGED <<imports, stdImports, externSigs, constructors, bound, compiling>>

Known(name, otherwise) ==
  IF name \in DOMAIN externs THEN externs[name] ELSE otherwise

\* A variable comes into scope, or goes out of it.
Bind(x) ==
  /\ AtSite
  /\ bound' = IF x \in bound THEN bound \ {x} ELSE bound \cup {x}
  /\ UNCHANGED <<imports, stdImports, externSigs, constructors, externs, decls, sites, compiling>>

\* `each` over anything calls map_len and map_key_at in case it is a map.
Each ==
  /\ AtSite
  /\ "map" \in stdImports
  /\ decls' = decls \cup {AddFunction(f, Tagged(StdModules["map"][f])) :
                            f \in {g \in {"map_len", "map_key_at"} : Existing(g) = {}}}
  /\ UNCHANGED <<imports, stdImports, externSigs, constructors, bound, externs, sites, compiling>>

StdOf(name) == {m \in stdImports : name \in DOMAIN StdModules[m]}

\* The order of gen_call.
Meaning(name) ==
  IF name \in DOMAIN Builtins THEN "builtin"
  ELSE IF name \in DOMAIN constructors THEN "constructor"
  ELSE IF name \in {"getf", "setf"} THEN "field"
  ELSE IF name \in bound THEN "closure"
  ELSE IF StdOf(name) # {} THEN "std"
  ELSE IF name = "thread_spawn" /\ "thread" \in stdImports THEN "spawn"
  ELSE IF imports THEN "extern"
  ELSE "undefined"

\* Calls of helpers and of closures declare nothing here: their symbols are
\* there from the start, a closure checks its arity when it runs.
CallInside(name, n) ==
  /\ AtSite
  /\ LET arity == CASE Meaning(name) = "builtin" -> {Builtins[name]}
                    [] Meaning(name) = "constructor" -> {constructors[name]}
                    [] Meaning(name) = "field" -> {IF name = "getf" THEN 2 ELSE 3}
                    [] Meaning(name) = "closure" -> 0 .. MaxArgs
                    [] OTHER -> {}
     IN  /\ Meaning(name) \in {"builtin", "constructor", "field", "closure", "undefined"}
         /\ IF n \in arity THEN UNCHANGED callVars ELSE Reject

\* Mutated: the table is asked, the module is not.
NotInTable(name, n) == Known(name, AddFunction(name, Tagged(n)))

StdFunction(name, n) ==
  Known(name, IF Existing(name) = {} THEN AddFunction(name, Tagged(n))
              ELSE CHOOSE d \in Existing(name) : TRUE)

\* gen_std_io_call: the arity is the function's.
CallStd(name, n) ==
  /\ AtSite
  /\ Meaning(name) = "std"
  /\ IF \E m \in StdOf(name) : StdModules[m][name] = n
     THEN Emit(StdFunction(name, n), Tagged(n))
     ELSE Reject

\* gen_thread_spawn: two pointers out of the closure.
CallSpawn(name, n) ==
  /\ AtSite
  /\ Meaning(name) = "spawn"
  /\ IF n = 1
     THEN Emit(Known("thread_spawn_raw", AddFunction("thread_spawn_raw", Pointers)), Pointers)
     ELSE Reject

\* The first call of a library function decides how many arguments it has.
SameArity(name, n) == name \in DOMAIN externs => externs[name].type.n = n

\* gen_extern_call without a signature.
CallExtern(name, n) ==
  /\ AtSite
  /\ Meaning(name) = "extern"
  /\ name \notin DOMAIN externSigs
  /\ IF SameArity(name, n)
     THEN Emit(Known(name, AddFunction(name, Tagged(n))), Tagged(n))
     ELSE Reject

\* gen_typed_extern_call
CallTyped(name, n) ==
  /\ AtSite
  /\ Meaning(name) = "extern"
  /\ name \in DOMAIN externSigs
  /\ IF externSigs[name].params = n /\ ~externSigs[name].str
     THEN Emit(Known(name, AddFunction(name, Native(n))), Native(n))
     ELSE Reject

CallsNext ==
  \/ \E x \in Bindable : Bind(x)
  \/ Each
  \/ \E name \in Callable, n \in 0 .. MaxArgs :
       \/ CallInside(name, n)
       \/ CallStd(name, n)
       \/ CallSpawn(name, n)
       \/ CallExtern(name, n)
       \/ CallTyped(name, n)

(***************************************************************************)
(* What the calls promise.                                                 *)
(***************************************************************************)

\* A program that compiles links: whatever was declared before, by another
\* call or by an each, a call passes what its symbol was declared to take
\* and goes to the symbol the runtime or the library provides, not to a
\* renamed second declaration; only a library function named like a symbol
\* of the runtime gets one, which the comment in gen_extern_call accepts.
CallsLink ==
  \A c \in sites :
    /\ c.passes = c.to.type
    /\ c.to.nth > 0 => c.to.name \in Runtime
    /\ \A e \in sites : e.to.name = c.to.name => e.to = c.to
=============================================================================
