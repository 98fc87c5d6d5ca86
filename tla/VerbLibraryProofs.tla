-------------------------- MODULE VerbLibraryProofs --------------------------
EXTENDS VerbLibrary, FiniteSetTheorems, FunctionTheorems, SequenceTheorems, TLAPS

(***************************************************************************)
(* Calls by name.                                                          *)
(***************************************************************************)

\* What the symbol of a function takes is decided by its name alone.
TypeOfName(fn, type) ==
  IF fn = "thread_spawn_raw" THEN type = Pointers
  ELSE IF StdOf(fn) # {} THEN \A mod \in StdOf(fn) : type = Tagged(StdModules[mod][fn])
  ELSE IF fn \in DOMAIN externSigs THEN type = Native(externSigs[fn].params)
  ELSE type = Tagged(type.n)

\* A declaration that an `each` made.
ByEach(decl) ==
  /\ "map" \in stdImports
  /\ decl.name \in {"map_len", "map_key_at"}
  /\ decl.type = Tagged(StdModules["map"][decl.name])

\* The table holds declarations of the module under their names, and what
\* the module declares beside the runtime is in the table or from an `each`.
DeclsKnown ==
  /\ \A fn \in DOMAIN externs :
       /\ externs[fn] \in decls
       /\ externs[fn].name = fn
       /\ TypeOfName(fn, externs[fn].type)
  /\ \A decl \in decls : decl = Declaration(decl.name, decl.nth, decl.type)
  /\ \A decl \in decls :
       decl.name \notin Runtime =>
         /\ decl.nth = 0
         /\ \/ decl.name \in DOMAIN externs /\ decl = externs[decl.name]
            \/ ByEach(decl)

CallsInv ==
  /\ stdImports \subseteq DOMAIN StdModules
  /\ DeclsKnown
  /\ \A site \in sites :
       /\ site.to.name \in DOMAIN externs
       /\ site.to = externs[site.to.name]
       /\ site.passes = site.to.type

\* Before the first declaration of the module the invariant holds.
LEMMA CallsInitInv == CallsInit \/ NoCall => CallsInv
  BY DEF CallsInit, NoCall, CallsInv, DeclsKnown, Declaration

\* The invariant says what the property asks.
LEMMA CallsInvLinks == CallsInv => CallsLink
  BY DEF CallsInv, DeclsKnown, CallsLink

\* A call through the table keeps the invariant, if what it would declare
\* anew has the type of its name and is no second declaration of it.
LEMMA EmitKnown ==
  ASSUME CallsInv, NEW fn, NEW other, NEW type,
         other = Declaration(fn, other.nth, type),
         fn \notin Runtime /\ fn \notin DOMAIN externs => other.nth = 0,
         TypeOfName(fn, type),
         fn \in DOMAIN externs => externs[fn].type = type,
         \A decl \in decls :
           decl.name = fn /\ fn \notin Runtime /\ fn \notin DOMAIN externs => decl = other,
         Emit(Known(fn, other), type)
  PROVE  CallsInv'
<1> DEFINE new == Known(fn, other)
<1>1. /\ new.name = fn
      /\ new.type = type
      /\ new = Declaration(fn, new.nth, type)
      /\ fn \in DOMAIN externs => new = externs[fn]
      /\ fn \notin DOMAIN externs => new = other
      /\ fn \notin Runtime => new.nth = 0
  <2>1. other.name = fn /\ other.type = type
    BY DEF Declaration
  <2>2. CASE fn \in DOMAIN externs
    BY <2>2 DEF Known, CallsInv, DeclsKnown
  <2>3. CASE fn \notin DOMAIN externs
    BY <2>1, <2>3 DEF Known
  <2> QED
    BY <2>2, <2>3
<1>2. /\ decls' = decls \cup {new}
      /\ DOMAIN externs' = DOMAIN externs \cup {fn}
      /\ externs'[fn] = new
      /\ \A x \in DOMAIN externs : externs'[x] = externs[x]
      /\ sites' = sites \cup {[to |-> new, passes |-> type]}
      /\ stdImports' = stdImports /\ externSigs' = externSigs
  BY <1>1 DEF Emit
<1> HIDE DEF new
<1>3. \A x \in DOMAIN externs' : TypeOfName(x, externs'[x].type)
  BY <1>1, <1>2 DEF CallsInv, DeclsKnown
<1>4. \A x \in DOMAIN externs' :
        externs'[x] \in decls' /\ externs'[x].name = x /\ TypeOfName(x, externs[x].type)'
  BY <1>1, <1>2, <1>3 DEF CallsInv, DeclsKnown, TypeOfName, StdOf
<1>5. ASSUME NEW decl \in decls', decl.name \notin Runtime
      PROVE  /\ decl.nth = 0
             /\ \/ decl.name \in DOMAIN externs' /\ decl = externs'[decl.name]
                \/ ByEach(decl)'
  <2>1. CASE decl = new
    BY <2>1, <1>1, <1>2, <1>5
  <2>2. CASE decl \in decls /\ decl.name \in DOMAIN externs /\ decl = externs[decl.name]
    BY <2>2, <1>2, <1>5 DEF CallsInv, DeclsKnown
  <2>3. CASE decl \in decls /\ ByEach(decl)
    BY <2>3, <1>2, <1>5 DEF CallsInv, DeclsKnown, ByEach
  <2> QED
    BY <2>1, <2>2, <2>3, <1>2, <1>5 DEF CallsInv, DeclsKnown
<1>6. \A decl \in decls' : decl = Declaration(decl.name, decl.nth, decl.type)
  BY <1>1, <1>2 DEF CallsInv, DeclsKnown
<1>7. \A site \in sites' :
        site.to.name \in DOMAIN externs' /\ site.to = externs'[site.to.name]
          /\ site.passes = site.to.type
  BY <1>1, <1>2 DEF CallsInv
<1>8. DeclsKnown'
  BY <1>4, <1>5, <1>6 DEF DeclsKnown
<1>9. (stdImports \subseteq DOMAIN StdModules)'
  BY <1>2 DEF CallsInv
<1> QED
  BY <1>7, <1>8, <1>9 DEF CallsInv

\* A function that is neither of the runtime nor in the table nor declared
\* by an `each` is not in the module: its declaration keeps its name.
LEMMA FirstDeclaration ==
  ASSUME CallsInv, NEW fn, NEW type, fn \notin Runtime, fn \notin DOMAIN externs,
         \A decl \in decls : ~(decl.name = fn /\ ByEach(decl))
  PROVE  /\ AddFunction(fn, type) = Declaration(fn, 0, type)
         /\ \A decl \in decls : decl.name # fn
<1>1. {decl \in decls : decl.name = fn} = {}
  BY DEF CallsInv, DeclsKnown
<1>2. Cardinality({decl \in decls : decl.name = fn}) = 0
  BY <1>1, FS_EmptySet
<1> QED
  BY <1>1, <1>2 DEF AddFunction

\* The std module of a function is the only one that has it.
LEMMA OneStdModule ==
  ASSUME CallsInv, NEW fn, NEW mod \in StdOf(fn)
  PROVE  /\ StdOf(fn) = {mod}
         /\ fn \notin Runtime
         /\ fn # "thread_spawn_raw"
  BY CallsAssumption DEF CallsAssumption, CallsInv, StdOf

\* What each declares by itself belongs to std map.
LEMMA MapFunctions ==
  ASSUME CallsInv, NEW decl, ByEach(decl)
  PROVE  "map" \in StdOf(decl.name)
  BY CallsAssumption DEF CallsAssumption, CallsInv, StdOf, ByEach

\* A call of a function of a std module is declared by the name and type of
\* the table.
LEMMA CallStdInv ==
  ASSUME CallsInv, NEW fn \in Callable, NEW len, CallStd(fn, len)
  PROVE  CallsInv'
<1>1. PICK mod \in StdOf(fn) : TRUE
  BY DEF CallStd, Meaning
<1>2. StdOf(fn) = {mod} /\ fn \notin Runtime /\ fn # "thread_spawn_raw"
  BY <1>1, OneStdModule
<1>3. CASE StdModules[mod][fn] # len
  <2>1. Reject
    BY <1>2, <1>3 DEF CallStd
  <2> QED
    BY <2>1 DEF Reject, CallsInv, DeclsKnown, TypeOfName, StdOf, ByEach
<1>4. CASE StdModules[mod][fn] = len
  <2> DEFINE type == Tagged(len)
             other == IF Existing(fn) = {} THEN AddFunction(fn, Tagged(len))
                      ELSE CHOOSE d \in Existing(fn) : TRUE
  <2>1. Emit(Known(fn, other), type)
    BY <1>2, <1>4 DEF CallStd, StdFunction
  <2>2. TypeOfName(fn, type)
    BY <1>2, <1>4 DEF TypeOfName
  <2>3. fn \in DOMAIN externs => externs[fn].type = type
    BY <1>2, <1>4 DEF TypeOfName, CallsInv, DeclsKnown
  <2>4. /\ other = Declaration(fn, other.nth, type)
        /\ fn \notin DOMAIN externs =>
             /\ other.nth = 0
             /\ \A decl \in decls : decl.name = fn => decl = other
    <3>1. CASE Existing(fn) = {}
      <4>1. {decl \in decls : decl.name = fn} = {}
        BY <3>1, <1>2 DEF Existing, CallsInv, DeclsKnown
      <4>2. Cardinality({decl \in decls : decl.name = fn}) = 0
        BY <4>1, FS_EmptySet
      <4> QED
        BY <3>1, <4>1, <4>2 DEF AddFunction, Declaration
    <3>2. CASE Existing(fn) # {}
      <4>1. other \in Existing(fn)
        BY <3>2
      <4>2. other \in decls /\ other.name = fn /\ other.nth = 0
        BY <4>1 DEF Existing
      <4>3. \A decl \in decls : decl.name = fn => decl.nth = 0 /\ decl.type = type
        <5> SUFFICES ASSUME NEW decl \in decls, decl.name = fn
                     PROVE  decl.nth = 0 /\ decl.type = type
          OBVIOUS
        <5>1. CASE ByEach(decl)
          <6>1. mod = "map"
            BY <5>1, <1>2, MapFunctions
          <6> QED
            BY <5>1, <6>1, <1>2, <1>4 DEF ByEach, CallsInv, DeclsKnown
        <5>2. CASE ~ByEach(decl)
          BY <5>2, <1>2, <2>3 DEF CallsInv, DeclsKnown
        <5> QED
          BY <5>1, <5>2
      <4>4. \A decl \in decls : decl = Declaration(decl.name, decl.nth, decl.type)
        BY DEF CallsInv, DeclsKnown
      <4> QED
        BY <4>2, <4>3, <4>4
    <3> QED
      BY <3>1, <3>2
  <2> HIDE DEF type, other
  <2> QED
    BY <2>1, <2>2, <2>3, <2>4, EmitKnown
<1> QED
  BY <1>3, <1>4

\* So is a call of the spawn, of an extern library or of a typed function:
\* what they declare no std module has.
LEMMA CallExternInv ==
  ASSUME CallsInv, NEW fn \in Callable, NEW len,
         CallSpawn(fn, len) \/ CallExtern(fn, len) \/ CallTyped(fn, len)
  PROVE  CallsInv'
<1>1. ASSUME Reject
      PROVE  CallsInv'
  BY <1>1 DEF Reject, CallsInv, DeclsKnown, TypeOfName, StdOf, ByEach
<1>2. ASSUME NEW other, NEW type, NEW sym, sym \notin {"map_len", "map_key_at"} \/ "map" \notin stdImports,
             other = AddFunction(sym, type),
             TypeOfName(sym, type),
             sym \in DOMAIN externs => externs[sym].type = type,
             Emit(Known(sym, other), type)
      PROVE  CallsInv'
  <2>1. other = Declaration(sym, other.nth, type)
    BY <1>2 DEF AddFunction, Declaration
  <2>2. ASSUME sym \notin Runtime, sym \notin DOMAIN externs
        PROVE  /\ other.nth = 0
               /\ \A decl \in decls : decl.name # sym
    <3>1. \A decl \in decls : ~(decl.name = sym /\ ByEach(decl))
      BY <1>2 DEF ByEach
    <3>2. AddFunction(sym, type) = Declaration(sym, 0, type) /\ \A decl \in decls : decl.name # sym
      BY <2>2, <3>1, FirstDeclaration
    <3> QED
      BY <1>2, <3>2 DEF Declaration
  <2> QED
    BY <1>2, <2>1, <2>2, EmitKnown
<1>3. CASE CallSpawn(fn, len)
  <2> SUFFICES ASSUME Emit(Known("thread_spawn_raw", AddFunction("thread_spawn_raw", Pointers)), Pointers)
               PROVE  CallsInv'
    BY <1>1, <1>3 DEF CallSpawn
  <2>1. TypeOfName("thread_spawn_raw", Pointers)
    BY DEF TypeOfName
  <2>2. "thread_spawn_raw" \in DOMAIN externs => externs["thread_spawn_raw"].type = Pointers
    BY DEF CallsInv, DeclsKnown, TypeOfName
  <2> QED
    BY <1>2, <2>1, <2>2
<1>4. ASSUME Meaning(fn) = "extern"
      PROVE  /\ StdOf(fn) = {}
             /\ fn # "thread_spawn_raw"
             /\ fn \notin {"map_len", "map_key_at"} \/ "map" \notin stdImports
  <2>1. StdOf(fn) = {}
    BY <1>4 DEF Meaning
  <2>2. fn # "thread_spawn_raw"
    BY CallsAssumption DEF CallsAssumption
  <2>3. "map" \in stdImports => {"map_len", "map_key_at"} \subseteq DOMAIN StdModules["map"]
    BY CallsAssumption DEF CallsAssumption, CallsInv
  <2>4. "map" \in stdImports => fn \notin {"map_len", "map_key_at"}
    BY <2>1, <2>3 DEF StdOf
  <2> QED
    BY <2>1, <2>2, <2>4
<1>5. CASE CallExtern(fn, len)
  <2> SUFFICES ASSUME Emit(Known(fn, AddFunction(fn, Tagged(len))), Tagged(len)), SameArity(fn, len)
               PROVE  CallsInv'
    BY <1>1, <1>5 DEF CallExtern
  <2>1. Tagged(len).n = len
    BY DEF Tagged, Passes
  <2>2. Meaning(fn) = "extern" /\ fn \notin DOMAIN externSigs
    BY <1>5 DEF CallExtern
  <2>3. TypeOfName(fn, Tagged(len))
    BY <1>4, <2>1, <2>2 DEF TypeOfName
  <2>4. fn \in DOMAIN externs => externs[fn].type = Tagged(len)
    BY <1>4, <2>2 DEF CallsInv, DeclsKnown, TypeOfName, SameArity
  <2> QED
    BY <1>2, <1>4, <2>2, <2>3, <2>4
<1>6. CASE CallTyped(fn, len)
  <2> SUFFICES ASSUME Emit(Known(fn, AddFunction(fn, Native(len))), Native(len)), externSigs[fn].params = len
               PROVE  CallsInv'
    BY <1>1, <1>6 DEF CallTyped
  <2>1. Meaning(fn) = "extern" /\ fn \in DOMAIN externSigs
    BY <1>6 DEF CallTyped
  <2>2. TypeOfName(fn, Native(len))
    BY <1>4, <2>1 DEF TypeOfName
  <2>3. fn \in DOMAIN externs => externs[fn].type = Native(len)
    BY <1>4, <2>1 DEF CallsInv, DeclsKnown, TypeOfName
  <2> QED
    BY <1>2, <1>4, <2>1, <2>2, <2>3
<1> QED
  BY <1>3, <1>5, <1>6

\* each declares map_len and map_key_at as the table of std map does.
LEMMA EachInv ==
  ASSUME CallsInv, Each
  PROVE  CallsInv'
<1> DEFINE new == {AddFunction(f, Tagged(StdModules["map"][f])) :
                     f \in {g \in {"map_len", "map_key_at"} : Existing(g) = {}}}
<1>1. /\ decls' = decls \cup new
      /\ "map" \in stdImports
      /\ UNCHANGED <<stdImports, externSigs, externs, sites>>
  BY DEF Each
<1>2. ASSUME NEW decl \in new
      PROVE  decl = Declaration(decl.name, 0, decl.type) /\ ByEach(decl)
  <2>1. PICK fn \in {"map_len", "map_key_at"} :
          Existing(fn) = {} /\ decl = AddFunction(fn, Tagged(StdModules["map"][fn]))
    BY <1>2
  <2>2. fn \notin Runtime
    BY <1>1, <2>1, CallsAssumption DEF CallsAssumption, CallsInv
  <2>3. {old \in decls : old.name = fn} = {}
    BY <2>1, <2>2 DEF Existing, CallsInv, DeclsKnown
  <2>4. Cardinality({old \in decls : old.name = fn}) = 0
    BY <2>3, FS_EmptySet
  <2> QED
    BY <1>1, <2>1, <2>4 DEF AddFunction, Declaration, ByEach
<1> HIDE DEF new
<1>3. \A decl \in new : decl.nth = 0
  BY <1>2 DEF Declaration
<1> QED
  BY <1>1, <1>2, <1>3 DEF CallsInv, DeclsKnown, TypeOfName, StdOf, ByEach

\* Every step of the resolution of calls keeps the invariant.
LEMMA CallsStep ==
  ASSUME CallsInv, [CallsNext]_callVars
  PROVE  CallsInv'
<1>1. CASE UNCHANGED callVars
  BY <1>1 DEF callVars, CallsInv, DeclsKnown, TypeOfName, StdOf, ByEach
<1>2. ASSUME NEW x \in Bindable, Bind(x)
      PROVE  CallsInv'
  BY <1>2 DEF Bind, CallsInv, DeclsKnown, TypeOfName, StdOf, ByEach
<1>3. CASE Each
  BY <1>3, EachInv
<1>4. ASSUME NEW fn \in Callable, NEW len \in 0 .. MaxArgs, CallInside(fn, len)
      PROVE  CallsInv'
  <2>1. UNCHANGED callVars \/ Reject
    BY <1>4 DEF CallInside
  <2>2. UNCHANGED <<stdImports, externSigs, externs, decls, sites>>
    BY <2>1 DEF callVars, Reject
  <2> QED
    BY <2>2 DEF CallsInv, DeclsKnown, TypeOfName, StdOf, ByEach
<1>5. ASSUME NEW fn \in Callable, NEW len \in 0 .. MaxArgs, CallStd(fn, len)
      PROVE  CallsInv'
  BY <1>5, CallStdInv
<1>6. ASSUME NEW fn \in Callable, NEW len \in 0 .. MaxArgs,
             CallSpawn(fn, len) \/ CallExtern(fn, len) \/ CallTyped(fn, len)
      PROVE  CallsInv'
  BY <1>6, CallExternInv
<1> QED
  BY <1>1, <1>2, <1>3, <1>4, <1>5, <1>6 DEF CallsNext

\* Every call of a module, resolved in any order beside any each, import and
\* call of a library, goes to a declaration with its own symbol and its own
\* type, so it links.
THEOREM LinksByName == Spec => []CallsLink
<1>1. Init => CallsInv
  BY CallsInitInv DEF Init
<1>2. CallsInv /\ [Next]_vars => CallsInv'
  <2>1. [Next]_vars => [CallsNext]_callVars
    BY DEF Next, vars, CallStep, StringStep, NumberStep, VariantStep, IoStep, HeapStep
  <2> QED
    BY <2>1, CallsStep
<1> QED
  BY <1>1, <1>2, CallsInvLinks, PTL DEF Spec

(***************************************************************************)
(* The descriptors of a connection.                                        *)
(***************************************************************************)

\* The program holds the connection, or has nothing open.
FdsInv ==
  /\ addrs \in Seq(Outcomes)
  /\ sock \in {"none", "open", "closed", "broken"}
  /\ IF sock # "none" /\ closing = NotYet THEN \E fd : fds = {fd} ELSE fds = {}
  /\ sock = "none" => closing = NotYet
  /\ sock = "closed" => closing # NotYet

\* No descriptor is open before the first address is tried.
LEMMA FdsInitInv == IoInit \/ NoConnection => FdsInv
<1>1. IoInit => addrs \in Seq(Outcomes)
  <2> SUFFICES ASSUME NEW len \in 0 .. MaxAddrs, addrs \in [1 .. len -> Outcomes]
               PROVE  addrs \in Seq(Outcomes)
    BY DEF IoInit
  <2> QED
    BY StdIoAssumption, SeqDef DEF StdIoAssumption
<1>2. NoConnection => addrs \in Seq(Outcomes)
  BY DEF NoConnection
<1> QED
  BY <1>1, <1>2 DEF IoInit, NoConnection, FdsInv, NotYet

\* Every step of a connection keeps track of the one descriptor that is open.
LEMMA FdsStep ==
  ASSUME FdsInv, [IoNext]_ioVars
  PROVE  FdsInv'
<1> USE DEF FdsInv
<1>1. CASE UNCHANGED ioVars
  BY <1>1 DEF ioVars
<1>2. CASE TryAddress
  <2>1. Head(addrs) \in Outcomes /\ Tail(addrs) \in Seq(Outcomes)
    <3>1. addrs \in Seq(Outcomes) /\ addrs # <<>>
      BY <1>2 DEF TryAddress
    <3> HIDE DEF FdsInv
    <3> QED
      BY <3>1, HeadTailProperties
  <2>2. addrs' \in Seq(Outcomes) /\ sock = "none" /\ UNCHANGED closing
    BY <1>2, <2>1 DEF TryAddress
  <2>3. CASE Head(addrs) = "connects"
    BY <1>2, <2>2, <2>3 DEF TryAddress
  <2>4. CASE Head(addrs) \in {"no socket", "refused"}
    BY <1>2, <2>2, <2>4 DEF TryAddress, CloseRefused
  <2> QED
    BY <2>1, <2>3, <2>4 DEF Outcomes
<1>3. ASSUME NEW thr \in Sender, SendSome(thr) \/ SendFails(thr)
      PROVE  FdsInv'
  BY <1>3 DEF SendSome, SendFails
<1>4. ASSUME NEW thr \in Sender, SendKills(thr)
      PROVE  FdsInv'
  BY <1>4 DEF SendKills, Killed, NotYet
<1>5. CASE CloseConn
  BY <1>5 DEF CloseConn, Lifted, NilV, ErrV, NotYet
<1>6. CASE Break
  BY <1>6 DEF Break
<1>7. CASE RecvByte \/ RecvEnd
  BY <1>7 DEF RecvByte, RecvEnd
<1> QED
  BY <1>1, <1>2, <1>3, <1>4, <1>5, <1>6, <1>7 DEF IoNext

\* A program that connects has one descriptor open while it has the
\* connection and none before and after, however many addresses refuse.
THEOREM DescriptorsKept == Spec => []NoFdLost
<1>1. Init => FdsInv
  BY FdsInitInv DEF Init
<1>2. FdsInv /\ [Next]_vars => FdsInv'
  <2>1. [Next]_vars => [IoNext]_ioVars
    BY DEF Next, vars, CallStep, StringStep, NumberStep, VariantStep, IoStep, HeapStep
  <2> QED
    BY <2>1, FdsStep
<1>3. FdsInv => NoFdLost
  BY FS_EmptySet, FS_Singleton DEF FdsInv, NoFdLost
<1> QED
  BY <1>1, <1>2, <1>3, PTL DEF Spec

(***************************************************************************)
(* The lines of a connection.                                              *)
(***************************************************************************)

Position == Nat \X Nat

\* Place p[2] of line p[1], the newline behind it included.
Valid(o, p)  == p \in Position /\ p[1] \in 1 .. Len(o) /\ p[2] \in 1 .. Len(o[p[1]]) + 1
ByteAt(o, p) == IF p[2] = Len(o[p[1]]) + 1 THEN NL ELSE o[p[1]][p[2]]
After(o, p)  == IF p[2] = Len(o[p[1]]) + 1 THEN <<p[1] + 1, 1>> ELSE <<p[1], p[2] + 1>>

\* The bytes w are those of the lines o from one position to before another;
\* lab says which each is.
Labels(w, o, p, q, lab) ==
  /\ lab \in Seq(Position)
  /\ Len(lab) = Len(w) + 1
  /\ lab[1] = p
  /\ lab[Len(w) + 1] = q
  /\ \A m \in 1 .. Len(w) :
       Valid(o, lab[m]) /\ w[m] = ByteAt(o, lab[m]) /\ lab[m + 1] = After(o, lab[m])

InFlight(w, o, p, q) == \E lab : Labels(w, o, p, q, lab)

LineSeq == Seq(Seq(Nat))
ByteSeq == Seq(Nat \cup {NL})

\* Nothing is between two positions exactly if they are the same.
LEMMA NoneInFlight ==
  ASSUME NEW o, NEW p \in Position, NEW q
  PROVE  InFlight(<<>>, o, p, q) <=> p = q
<1>1. ASSUME p = q PROVE InFlight(<<>>, o, p, q)
  <2>1. PICK lab : lab = <<p>>
    OBVIOUS
  <2>2. lab \in Seq(Position) /\ Len(lab) = 1 /\ lab[1] = p
    BY <2>1
  <2>3. Len(<<>>) = 0 /\ 1 .. 0 = {} /\ Len(<<>>) + 1 = 1
    OBVIOUS
  <2> QED
    BY <1>1, <2>2, <2>3 DEF InFlight, Labels
<1>2. ASSUME InFlight(<<>>, o, p, q) PROVE p = q
  <2>1. PICK lab : lab[1] = p /\ lab[Len(<<>>) + 1] = q
    BY <1>2 DEF InFlight, Labels
  <2>2. Len(<<>>) + 1 = 1
    OBVIOUS
  <2> QED
    BY <2>1, <2>2
<1> QED
  BY <1>1, <1>2

\* A line begun behind those that are in flight.
LEMMA BeginKeeps ==
  ASSUME NEW o \in LineSeq, NEW w \in ByteSeq, NEW p, NEW q, NEW L \in Seq(Nat),
         InFlight(w, o, p, q)
  PROVE  InFlight(w, Append(o, L), p, q)
<1>1. PICK lab : Labels(w, o, p, q, lab)
  BY DEF InFlight
<1>2. PICK u : u = Append(o, L)
  OBVIOUS
<1>3. Len(o) \in Nat /\ Len(u) = Len(o) + 1 /\ \A k \in 1 .. Len(o) : u[k] = o[k]
  BY <1>2 DEF LineSeq
<1>4. ASSUME NEW x, Valid(o, x)
      PROVE  Valid(u, x) /\ ByteAt(u, x) = ByteAt(o, x) /\ After(u, x) = After(o, x)
  <2>1. x \in Position /\ x[1] \in 1 .. Len(o) /\ x[2] \in 1 .. Len(o[x[1]]) + 1
    BY <1>4 DEF Valid
  <2>2. x[1] \in 1 .. Len(u) /\ u[x[1]] = o[x[1]]
    BY <1>3, <2>1
  <2> QED
    BY <2>1, <2>2 DEF Valid, ByteAt, After
<1>5. Labels(w, u, p, q, lab)
  BY <1>1, <1>4 DEF Labels
<1> QED
  BY <1>2, <1>5 DEF InFlight

\* n bytes of a line, behind the first f.
Cut(L, f, n, piece) ==
  /\ piece \in ByteSeq /\ Len(piece) = n
  /\ \A m \in 1 .. n : piece[m] = IF f + m = Len(L) + 1 THEN NL ELSE L[f + m]

\* The piece of n bytes behind the first f of a line.
LEMMA PieceIs ==
  ASSUME NEW L \in Seq(Nat), NEW f \in Nat, NEW n \in Nat, n > 0, f + n <= Len(L) + 1,
         NEW piece, piece = SubSeq(Append(L, NL), f + 1, f + n)
  PROVE  Cut(L, f, n, piece)
<1>1. PICK u : u = Append(L, NL)
  OBVIOUS
<1>2. /\ u \in Seq(Nat \cup {NL}) /\ Len(L) \in Nat /\ Len(u) = Len(L) + 1
      /\ \A m \in 1 .. Len(L) : u[m] = L[m]
      /\ u[Len(L) + 1] = NL
  <2>1. PICK S : S = Nat \cup {NL}
    OBVIOUS
  <2>2. L \in Seq(S) /\ NL \in S /\ Len(L) \in Nat
    BY <2>1
  <2>3. /\ u \in Seq(S) /\ Len(u) = Len(L) + 1 /\ u[Len(L) + 1] = NL
        /\ \A m \in 1 .. Len(L) : u[m] = L[m]
    BY <1>1, <2>2, AppendProperties
  <2> QED
    BY <2>1, <2>2, <2>3
<1>3. f + 1 \in Int /\ f + n \in Int
  OBVIOUS
<1>4. \A m \in f + 1 .. f + n : u[m] \in Nat \cup {NL}
  <2> SUFFICES ASSUME NEW m \in f + 1 .. f + n PROVE u[m] \in Nat \cup {NL}
    OBVIOUS
  <2>1. m \in 1 .. Len(L) + 1
    BY <1>2
  <2>2. CASE m = Len(L) + 1
    BY <1>2, <2>2
  <2>3. CASE m # Len(L) + 1
    <3>1. m \in 1 .. Len(L)
      BY <1>2, <2>1, <2>3
    <3>2. L[m] \in Nat
      BY <3>1, ElementOfSeq
    <3> QED
      BY <1>2, <3>1, <3>2
  <2> QED
    BY <2>2, <2>3
<1>5. PICK lo \in Int : lo = f + 1
  BY <1>3
<1>6. PICK hi \in Int : hi = f + n
  BY <1>3
<1>7. /\ SubSeq(u, lo, hi) \in Seq(Nat \cup {NL})
      /\ Len(SubSeq(u, lo, hi)) = IF lo <= hi THEN hi - lo + 1 ELSE 0
      /\ \A m \in 1 .. hi - lo + 1 : SubSeq(u, lo, hi)[m] = u[lo + m - 1]
  BY <1>4, <1>5, <1>6, SubSeqProperties
<1>8. hi - lo + 1 = n /\ lo <= hi
  BY <1>5, <1>6
<1>9. \A m \in 1 .. n : SubSeq(u, lo, hi)[m] = IF f + m = Len(L) + 1 THEN NL ELSE L[f + m]
  <2> SUFFICES ASSUME NEW m \in 1 .. n
               PROVE  SubSeq(u, lo, hi)[m] = IF f + m = Len(L) + 1 THEN NL ELSE L[f + m]
    OBVIOUS
  <2>1. SubSeq(u, lo, hi)[m] = u[lo + m - 1] /\ lo + m - 1 = f + m
    BY <1>5, <1>7, <1>8
  <2>2. f + m \in 1 .. Len(L) + 1
    BY <1>2
  <2>3. CASE f + m = Len(L) + 1
    BY <1>2, <2>1, <2>3
  <2>4. CASE f + m # Len(L) + 1
    <3>1. f + m \in 1 .. Len(L)
      <4>1. PICK h \in Nat : h = Len(L)
        BY <1>2
      <4>2. f + m \in 1 .. h + 1 /\ f + m # h + 1
        BY <2>2, <2>4, <4>1
      <4>3. f + m \in 1 .. h
        BY <4>2
      <4> QED
        BY <4>1, <4>3
    <3>2. u[f + m] = L[f + m]
      BY <1>2, <3>1
    <3> QED
      BY <2>1, <2>4, <3>2
  <2> QED
    BY <2>3, <2>4
<1> QED
  BY <1>1, <1>5, <1>6, <1>7, <1>8, <1>9 DEF ByteSeq, Cut

\* What is in flight when n bytes more of line k are, those behind its first f.
Sent(w, o, p, k, f, n) ==
  LET v == w \o SubSeq(Append(o[k], NL), f + 1, f + n)
  IN  /\ v \in ByteSeq
      /\ InFlight(v, o, p, IF f + n = Len(o[k]) + 1 THEN <<k + 1, 1>> ELSE <<k, f + n + 1>>)

\* The sender is at place f + 1 of the last line and sends n bytes of it.
LEMMA SendKeeps ==
  ASSUME NEW o \in LineSeq, NEW w \in ByteSeq, NEW p,
         NEW k \in Nat, k = Len(o), k > 0,
         NEW f \in Nat, NEW n \in Nat, n > 0, f + n <= Len(o[k]) + 1,
         InFlight(w, o, p, <<k, f + 1>>)
  PROVE  Sent(w, o, p, k, f, n)
<1>1. PICK lab : Labels(w, o, p, <<k, f + 1>>, lab)
  BY DEF InFlight
<1>2. PICK q : q = IF f + n = Len(o[k]) + 1 THEN <<k + 1, 1>> ELSE <<k, f + n + 1>>
  OBVIOUS
<1>3. PICK c : c = Len(w)
  OBVIOUS
<1>4. c \in Nat
  BY <1>3 DEF ByteSeq
<1>5. /\ lab \in Seq(Position) /\ Len(lab) = c + 1 /\ lab[1] = p /\ lab[c + 1] = <<k, f + 1>>
      /\ \A m \in 1 .. c : Valid(o, lab[m]) /\ w[m] = ByteAt(o, lab[m]) /\ lab[m + 1] = After(o, lab[m])
  BY <1>1, <1>3 DEF Labels
<1>6. k \in 1 .. Len(o) /\ o[k] \in Seq(Nat)
  BY ElementOfSeq DEF LineSeq
<1>7. PICK g : g = Len(o[k]) + 1
  OBVIOUS
<1>8. g \in Nat /\ f + n <= g
  BY <1>6, <1>7
<1>9. PICK piece : piece = SubSeq(Append(o[k], NL), f + 1, f + n)
  OBVIOUS
<1>10. /\ piece \in ByteSeq /\ Len(piece) = n
       /\ \A m \in 1 .. n : piece[m] = IF f + m = g THEN NL ELSE o[k][f + m]
  <2>1. PICK L \in Seq(Nat) : L = o[k]
    BY <1>6
  <2>2. f + n <= Len(L) + 1 /\ g = Len(L) + 1 /\ piece = SubSeq(Append(L, NL), f + 1, f + n)
    BY <1>7, <1>8, <1>9, <2>1
  <2>3. Cut(L, f, n, piece)
    BY <2>2, PieceIs
  <2> QED
    BY <2>1, <2>2, <2>3 DEF Cut
<1>11. PICK v : v = w \o piece
  OBVIOUS
<1>12. /\ v \in ByteSeq /\ Len(v) = c + n
       /\ \A m \in 1 .. c : v[m] = w[m]
       /\ \A m \in c + 1 .. c + n : v[m] = piece[m - c]
  <2>1. /\ v \in Seq(Nat \cup {NL}) /\ Len(v) = Len(w) + Len(piece)
        /\ \A m \in 1 .. Len(w) + Len(piece) : v[m] = IF m <= Len(w) THEN w[m] ELSE piece[m - Len(w)]
    BY <1>10, <1>11, ConcatProperties DEF ByteSeq
  <2> QED
    BY <1>3, <1>4, <1>10, <2>1 DEF ByteSeq
<1>13. PICK new : new = [m \in 1 .. c + n + 1 |-> IF m <= c THEN lab[m]
                                                 ELSE IF m = c + n + 1 THEN q
                                                 ELSE <<k, f + (m - c)>>]
  OBVIOUS
<1>14. q \in Position
  BY <1>2 DEF Position
<1>15. new \in Seq(Position) /\ Len(new) = c + n + 1
  <2>1. \A m \in 1 .. c : lab[m] \in Position
    BY <1>4, <1>5, ElementOfSeq
  <2>2. \A m \in c + 1 .. c + n : <<k, f + (m - c)>> \in Position
    BY <1>4 DEF Position
  <2>3. ASSUME NEW m \in 1 .. c + n + 1 PROVE new[m] \in Position
    <3>1. CASE m <= c
      <4>1. m \in 1 .. c
        BY <1>4, <3>1
      <4> QED
        BY <1>13, <2>1, <3>1, <4>1
    <3>2. CASE m = c + n + 1
      <4>1. ~(m <= c)
        BY <1>4, <3>2
      <4> QED
        BY <1>13, <1>14, <3>2, <4>1
    <3>3. CASE ~(m <= c) /\ m # c + n + 1
      <4>1. m \in c + 1 .. c + n
        BY <1>4, <3>3
      <4> QED
        BY <1>13, <2>2, <3>3, <4>1
    <3> QED
      BY <3>1, <3>2, <3>3
  <2>4. new \in [1 .. c + n + 1 -> Position]
    BY <1>13, <2>3
  <2> QED
    BY <1>4, <2>4
<1>16. new[1] = p
  <2>1. CASE c = 0
    BY <1>4, <1>5, <1>13, <2>1
  <2>2. CASE c # 0
    BY <1>4, <1>5, <1>13, <2>2
  <2> QED
    BY <2>1, <2>2
<1>17. new[c + n + 1] = q
  BY <1>4, <1>13
<1>18. \A m \in c + 1 .. c + n : new[m] = <<k, f + (m - c)>>
  BY <1>4, <1>13
<1>19. new[c + 1] = lab[c + 1]
  <2>1. c + 1 \in c + 1 .. c + n /\ (c + 1) - c = 1
    BY <1>4
  <2> QED
    BY <1>5, <1>18, <2>1
<1>20. ASSUME NEW m \in 1 .. c
       PROVE  Valid(o, new[m]) /\ v[m] = ByteAt(o, new[m]) /\ new[m + 1] = After(o, new[m])
  <2>1. new[m] = lab[m]
    BY <1>4, <1>13
  <2>2. new[m + 1] = lab[m + 1]
    <3>1. CASE m = c
      BY <1>19, <3>1
    <3>2. CASE m # c
      <4>1. m + 1 \in 1 .. c
        BY <1>4, <3>2
      <4> QED
        BY <1>4, <1>13, <4>1
    <3> QED
      BY <3>1, <3>2
  <2> QED
    BY <1>5, <1>12, <2>1, <2>2
<1>21. ASSUME NEW m \in c + 1 .. c + n
       PROVE  Valid(o, new[m]) /\ v[m] = ByteAt(o, new[m]) /\ new[m + 1] = After(o, new[m])
  <2>1. PICK j : j = m - c
    OBVIOUS
  <2>2. j \in 1 .. n /\ f + j \in 1 .. g
    BY <1>4, <1>8, <2>1
  <2>3. new[m] = <<k, f + j>>
    BY <1>18, <2>1
  <2>4. v[m] = IF f + j = g THEN NL ELSE o[k][f + j]
    BY <1>10, <1>12, <2>1, <2>2
  <2>5. <<k, f + j>>[1] = k /\ <<k, f + j>>[2] = f + j /\ <<k, f + j>> \in Position
    BY <2>2 DEF Position
  <2>6. Valid(o, new[m])
    BY <1>6, <1>7, <2>2, <2>3, <2>5 DEF Valid
  <2>7. v[m] = ByteAt(o, new[m])
    BY <1>7, <2>3, <2>4, <2>5 DEF ByteAt
  <2>8. After(o, new[m]) = IF f + j = g THEN <<k + 1, 1>> ELSE <<k, f + j + 1>>
    BY <1>7, <2>3, <2>5 DEF After
  <2>9. CASE m = c + n
    <3>1. j = n
      BY <1>4, <2>1, <2>9
    <3> QED
      BY <1>2, <1>7, <1>17, <2>6, <2>7, <2>8, <2>9, <3>1
  <2>10. CASE m # c + n
    <3>1. m + 1 \in c + 1 .. c + n /\ (m + 1) - c = j + 1 /\ f + j # g /\ f + (j + 1) = f + j + 1
      BY <1>4, <1>8, <2>1, <2>10
    <3>2. new[m + 1] = <<k, f + j + 1>>
      BY <1>18, <3>1
    <3> QED
      BY <2>6, <2>7, <2>8, <3>1, <3>2
  <2> QED
    BY <2>9, <2>10
<1>22. Labels(v, o, p, q, new)
  <2>1. \A m \in 1 .. Len(v) : m \in 1 .. c \/ m \in c + 1 .. c + n
    BY <1>4, <1>12
  <2>2. Len(new) = Len(v) + 1 /\ new[Len(v) + 1] = q
    BY <1>12, <1>15, <1>17
  <2>3. \A m \in 1 .. Len(v) :
          Valid(o, new[m]) /\ v[m] = ByteAt(o, new[m]) /\ new[m + 1] = After(o, new[m])
    BY <1>20, <1>21, <2>1
  <2> QED
    BY <1>15, <1>16, <2>2, <2>3 DEF Labels
<1>23. InFlight(v, o, p, q)
  BY <1>22 DEF InFlight
<1> QED
  BY <1>2, <1>9, <1>11, <1>12, <1>23 DEF Sent

\* The receiver takes the first byte.
LEMMA RecvKeeps ==
  ASSUME NEW o \in LineSeq, NEW w \in ByteSeq, w # <<>>, NEW p, NEW q, InFlight(w, o, p, q)
  PROVE  /\ Valid(o, p)
         /\ Head(w) = ByteAt(o, p)
         /\ Tail(w) \in ByteSeq
         /\ InFlight(Tail(w), o, After(o, p), q)
<1>1. PICK lab : Labels(w, o, p, q, lab)
  BY DEF InFlight
<1>2. PICK c : c = Len(w)
  OBVIOUS
<1>3. c \in Nat \ {0} /\ 1 \in 1 .. c
  BY <1>2 DEF ByteSeq
<1>4. /\ lab \in Seq(Position) /\ Len(lab) = c + 1 /\ lab[1] = p /\ lab[c + 1] = q
      /\ \A m \in 1 .. c : Valid(o, lab[m]) /\ w[m] = ByteAt(o, lab[m]) /\ lab[m + 1] = After(o, lab[m])
  BY <1>1, <1>2 DEF Labels
<1>5. PICK v : v = Tail(w)
  OBVIOUS
<1>6. v \in ByteSeq /\ Len(v) = c - 1 /\ \A m \in 1 .. c - 1 : v[m] = w[m + 1]
  BY <1>2, <1>5 DEF ByteSeq
<1>7. PICK new : new = [m \in 1 .. c |-> lab[m + 1]]
  OBVIOUS
<1>8. new \in Seq(Position) /\ Len(new) = c
  <2>1. \A m \in 1 .. c : m + 1 \in 1 .. Len(lab)
    BY <1>3, <1>4
  <2>2. \A m \in 1 .. c : lab[m + 1] \in Position
    BY <1>4, <2>1, ElementOfSeq
  <2>3. new \in [1 .. c -> Position]
    BY <1>7, <2>2
  <2> QED
    BY <1>3, <2>3
<1>9. new[1] = After(o, p) /\ new[c] = q
  <2>1. new[1] = lab[1 + 1] /\ new[c] = lab[c + 1]
    BY <1>3, <1>7
  <2> QED
    BY <1>3, <1>4, <2>1
<1>10. \A m \in 1 .. c - 1 :
         Valid(o, new[m]) /\ v[m] = ByteAt(o, new[m]) /\ new[m + 1] = After(o, new[m])
  <2> SUFFICES ASSUME NEW m \in 1 .. c - 1
               PROVE  Valid(o, new[m]) /\ v[m] = ByteAt(o, new[m]) /\ new[m + 1] = After(o, new[m])
    OBVIOUS
  <2>1. m + 1 \in 1 .. c /\ m \in 1 .. c
    BY <1>3
  <2>2. new[m] = lab[m + 1] /\ new[m + 1] = lab[m + 1 + 1]
    BY <1>7, <2>1
  <2> QED
    BY <1>4, <1>6, <2>1, <2>2
<1>11. Labels(v, o, After(o, p), q, new)
  <2>1. Len(new) = Len(v) + 1 /\ Len(v) + 1 = c
    BY <1>3, <1>6, <1>8
  <2> QED
    BY <1>6, <1>8, <1>9, <1>10, <2>1 DEF Labels
<1>12. Head(w) = w[1]
  BY <1>2, <1>3 DEF ByteSeq
<1> QED
  BY <1>3, <1>4, <1>5, <1>6, <1>11, <1>12 DEF InFlight

\* The beginning of a line.
Begins(l, L) == Len(l) <= Len(L) /\ \A m \in 1 .. Len(l) : l[m] = L[m]

LineResult == [tag : {"str"}, text : Seq(Nat)]
SendState  == [at : Nat \ {0}, off : Nat, results : Seq({True, ErrV})]

LinesTyped ==
  /\ order \in LineSeq /\ wire \in ByteSeq /\ line \in Seq(Nat)
  /\ got \in Seq(LineResult \cup {ErrV})
  /\ sends \in [Sender -> SendState]
  /\ sock \in {"none", "open", "closed", "broken"}

\* One sender is in the middle of a line, the last one begun; a connection
\* that was closed has all its lines.
SenderTurns ==
  /\ sock \in {"none", "open"} =>
       /\ \A t \in Sender : MidLine(t) =>
            /\ HasLine(t) /\ sends[t].off <= Len(Script[t][sends[t].at])
            /\ Len(order) > 0 /\ order[Len(order)] = Script[t][sends[t].at]
       /\ \A t, u \in Sender : MidLine(t) /\ MidLine(u) => t = u
  /\ sock = "closed" => \A t \in Sender : ~MidLine(t)

\* An Err is the last result, and told when there is nothing more to come.
ErrLast ==
  \A m \in 1 .. Len(got) :
    got[m] = ErrV =>
      m = Len(got) /\ wire = <<>> /\ line = <<>> /\ sock \in {"closed", "broken"}

\* What was received is what was sent; the last line of a broken connection
\* may have been cut, and then no more follows.
LinesReceived ==
  /\ Len(Received) <= Len(order)
  /\ \A m \in 1 .. Len(Received) :
       \/ Received[m].text = order[m]
       \/ /\ m = Len(Received) /\ sock = "broken" /\ wire = <<>> /\ line = <<>>
          /\ Begins(Received[m].text, order[m])

LinePartial ==
  line # <<>> => /\ Len(Received) + 1 <= Len(order)
                 /\ Begins(line, order[Len(Received) + 1])

\* The next byte that is sent, the next that is received.
SendsNext(q) ==
  \/ q = <<Len(order) + 1, 1>> /\ \A t \in Sender : ~MidLine(t)
  \/ \E t \in Sender : MidLine(t) /\ q = <<Len(order), sends[t].off + 1>>

RecvsNext == <<Len(Received) + 1, Len(line) + 1>>

Stream ==
  IF sock = "broken" THEN wire = <<>>
  ELSE \E q : SendsNext(q) /\ InFlight(wire, order, RecvsNext, q)

LinesInv ==
  /\ LinesTyped /\ SenderTurns /\ ErrLast
  /\ LinesReceived /\ LinePartial /\ Stream

\* What a program has received, by its results.
ReceivedOf(g) == IF ErrV \notin ToSet(g) THEN g ELSE Front(g)

\* Received is ReceivedOf the results.
LEMMA ReceivedIs == Received = ReceivedOf(got) /\ Received' = ReceivedOf(got')
BY DEF Received, ReceivedOf, Listening

\* Everything but an Err at the end is a line received.
LEMMA ReceivedAre ==
  ASSUME NEW g \in Seq(LineResult \cup {ErrV}),
         \A m \in 1 .. Len(g) : g[m] = ErrV => m = Len(g)
  PROVE  /\ ReceivedOf(g) \in Seq(LineResult)
         /\ ErrV \notin ToSet(g) => ReceivedOf(g) = g
         /\ ErrV \in ToSet(g) => g # <<>> /\ g[Len(g)] = ErrV
<1>1. Len(g) \in Nat /\ DOMAIN g = 1 .. Len(g) /\ \A m \in 1 .. Len(g) : g[m] \in LineResult \cup {ErrV}
  BY ElementOfSeq
<1>2. CASE ErrV \notin ToSet(g)
  <2>1. \A m \in 1 .. Len(g) : g[m] \in LineResult
    BY <1>1, <1>2 DEF ToSet
  <2>2. g \in [1 .. Len(g) -> LineResult]
    <3>1. g = [m \in 1 .. Len(g) |-> g[m]]
      BY <1>1
    <3> QED
      BY <2>1, <3>1
  <2>3. g \in Seq(LineResult)
    <3>1. PICK c \in Nat : c = Len(g)
      BY <1>1
    <3>2. g \in [1 .. c -> LineResult]
      BY <2>2, <3>1
    <3> QED
      BY ONLY <3>2, SeqDef
  <2> QED
    BY <1>2, <2>3 DEF ReceivedOf
<1>3. CASE ErrV \in ToSet(g)
  <2>0. PICK c : c = Len(g)
    OBVIOUS
  <2>1. PICK m \in 1 .. c : g[m] = ErrV
    BY <1>1, <1>3, <2>0 DEF ToSet
  <2>2. m = c
    BY <2>0, <2>1
  <2>9. c \in Nat /\ c - 1 \in Int /\ c # 0
    <3>1. c \in Nat
      BY <1>1, <2>0
    <3>2. c # 0
      BY <2>1, <3>1
    <3> QED
      BY <3>1, <3>2
  <2>3. ASSUME NEW k \in 1 .. c - 1 PROVE g[k] \in LineResult
    <3>1. k \in 1 .. c /\ k # c
      BY <2>9
    <3>2. g[k] # ErrV
      BY <2>0, <3>1
    <3> QED
      BY <1>1, <2>0, <3>1, <3>2
  <2>4. PICK hi \in Int : hi = c - 1
    BY <2>9
  <2>5. SubSeq(g, 1, hi) \in Seq(LineResult)
    BY <2>3, <2>4, SubSeqProperties
  <2>6. ReceivedOf(g) \in Seq(LineResult)
    BY <1>3, <2>0, <2>4, <2>5 DEF ReceivedOf, Front
  <2>7. g # <<>>
    BY <2>0, <2>9
  <2> QED
    BY <1>3, <2>0, <2>1, <2>2, <2>6, <2>7
<1> QED
  BY <1>2, <1>3

\* The constants and the sizes.
LEMMA LinesBasics ==
  ASSUME LinesTyped, ErrLast
  PROVE  /\ Len(order) \in Nat /\ Len(line) \in Nat
         /\ Received \in Seq(LineResult) /\ Len(Received) \in Nat
         /\ RecvsNext \in Position
         /\ Listening => Received = got
<1>1. Len(order) \in Nat /\ Len(line) \in Nat
  BY DEF LinesTyped, LineSeq
<1>2. got \in Seq(LineResult \cup {ErrV}) /\ \A m \in 1 .. Len(got) : got[m] = ErrV => m = Len(got)
  BY DEF LinesTyped, ErrLast
<1>3. Received \in Seq(LineResult) /\ Len(Received) \in Nat
  BY <1>2, ReceivedAre, ReceivedIs
<1> QED
  BY <1>1, <1>3 DEF RecvsNext, Position, Received

\* Before the first address is tried nothing was sent.
LEMMA LinesStart ==
  ASSUME sock = "none", wire = <<>>, order = <<>>, line = <<>>, got = <<>>,
         sends = [t \in Sender |-> [at |-> 1, off |-> 0, results |-> <<>>]]
  PROVE  LinesInv
<1>1. LinesTyped
  <2>1. [at |-> 1, off |-> 0, results |-> <<>>] \in SendState
    BY DEF SendState
  <2>2. sends \in [Sender -> SendState]
    BY <2>1
  <2> QED
    BY <2>2 DEF LinesTyped, LineSeq, ByteSeq
<1>2. \A t \in Sender : ~MidLine(t)
  BY DEF MidLine
<1>3. Len(<<>>) = 0 /\ 1 .. 0 = {}
  OBVIOUS
<1>4. ErrLast
  BY <1>3 DEF ErrLast
<1>5. Received = <<>>
  <2>1. ToSet(got) = {}
    BY DEF ToSet
  <2> QED
    BY <2>1 DEF Received, Listening
<1>6. Stream
  <2>1. PICK q : q = <<1, 1>>
    OBVIOUS
  <2>2. RecvsNext = q /\ SendsNext(q) /\ q \in Position
    BY <1>2, <1>3, <1>5, <2>1 DEF RecvsNext, SendsNext, Position
  <2>3. InFlight(wire, order, RecvsNext, q)
    BY <2>2, NoneInFlight
  <2> QED
    BY <2>2, <2>3 DEF Stream
<1> QED
  BY <1>1, <1>2, <1>3, <1>4, <1>5, <1>6 DEF LinesInv, SenderTurns, LinesReceived, LinePartial

\* A step that moves no byte: the sender's place and the lines are the same.
LEMMA LinesStay ==
  ASSUME LinesInv, UNCHANGED <<wire, order, line, got>>,
         sends' \in [Sender -> SendState],
         \/ sends' = sends /\ sock = "none" /\ sock' \in {"none", "open"}
         \/ sends' = sends /\ sock = "open" /\ sock' = "closed" /\ (\A u \in Sender : ~MidLine(u))
         \/ sock = "broken" /\ sock' = "broken"
  PROVE  LinesInv'
<1>1. LinesTyped /\ SenderTurns /\ ErrLast /\ LinesReceived /\ LinePartial /\ Stream
  BY DEF LinesInv
<1>2. LinesTyped'
  BY <1>1 DEF LinesTyped
<1>3. SenderTurns'
  BY <1>1 DEF SenderTurns, MidLine, HasLine
<1>4. ErrLast'
  BY <1>1 DEF ErrLast
<1>5. Received' = Received
  BY ReceivedIs
<1>6. LinesReceived'
  BY <1>1, <1>5 DEF LinesReceived
<1>7. LinePartial'
  BY <1>1, <1>5 DEF LinePartial
<1>8. Stream'
  <2>1. CASE sock' = "broken"
    BY <1>1, <2>1 DEF Stream
  <2>2. CASE sock' # "broken"
    <3>1. sock # "broken" /\ sends' = sends
      BY <2>2
    <3>2. PICK q : SendsNext(q) /\ InFlight(wire, order, RecvsNext, q)
      BY <1>1, <3>1 DEF Stream
    <3>3. SendsNext(q)'
      BY <3>1, <3>2 DEF SendsNext, MidLine
    <3>4. RecvsNext' = RecvsNext
      BY <1>5 DEF RecvsNext
    <3> QED
      BY <2>2, <3>2, <3>3, <3>4 DEF Stream
  <2> QED
    BY <2>1, <2>2
<1> QED
  BY <1>2, <1>3, <1>4, <1>6, <1>7, <1>8 DEF LinesInv

\* A send that returned: the sender is before its next line.
LEMMA SendReturns ==
  ASSUME LinesTyped, NEW thr \in Sender, NEW v, v \in {True, NilV}, Return(thr, v)
  PROVE  /\ sends' \in [Sender -> SendState]
         /\ sends'[thr].off = 0
         /\ \A u \in Sender : u # thr => sends'[u] = sends[u]
<1>1. sends \in [Sender -> SendState] /\ sends[thr] \in SendState
  BY DEF LinesTyped
<1>2. Lifted(v) \in {True, ErrV}
  BY DEF Lifted, True, NilV, ErrV
<1>3. Append(sends[thr].results, Lifted(v)) \in Seq({True, ErrV})
  BY <1>1, <1>2 DEF SendState
<1>4. PICK x : x = [at |-> sends[thr].at + 1, off |-> 0, results |-> Append(sends[thr].results, Lifted(v))]
  OBVIOUS
<1>5. x \in SendState /\ x.off = 0
  BY <1>1, <1>3, <1>4 DEF SendState
<1>6. sends' = [sends EXCEPT ![thr] = x]
  BY <1>4 DEF Return
<1> QED
  BY <1>1, <1>5, <1>6

\* The reset of a connection.
LEMMA BreakKeeps ==
  ASSUME LinesInv, Break
  PROVE  LinesInv'
<1>1. LinesTyped /\ SenderTurns /\ ErrLast /\ LinesReceived /\ LinePartial
  BY DEF LinesInv
<1>2. /\ sock \in {"open", "closed"} /\ sock' = "broken" /\ wire' = <<>>
      /\ UNCHANGED <<sends, order, line, got>>
  BY DEF Break
<1>3. LinesTyped'
  BY <1>1, <1>2 DEF LinesTyped, ByteSeq
<1>4. ErrLast'
  BY <1>1, <1>2 DEF ErrLast
<1>5. Received' = Received
  BY <1>2, ReceivedIs
<1>6. LinesReceived'
  BY <1>1, <1>2, <1>5 DEF LinesReceived
<1>7. LinePartial'
  BY <1>1, <1>2, <1>5 DEF LinePartial
<1> QED
  BY <1>2, <1>3, <1>4, <1>6, <1>7 DEF LinesInv, SenderTurns, Stream

\* n bytes are sent.
LEMMA SendSomeKeeps ==
  ASSUME Locked, LinesInv, NEW thr \in Sender, SendSome(thr)
  PROVE  LinesInv'
<1>1. LinesTyped /\ SenderTurns /\ ErrLast /\ LinesReceived /\ LinePartial /\ Stream
  BY DEF LinesInv
<1>2. /\ sock = "open" /\ HasLine(thr)
      /\ MidLine(thr) \/ MayBegin(thr)
      /\ order' = IF MidLine(thr) THEN order ELSE Append(order, Script[thr][sends[thr].at])
      /\ UNCHANGED <<sock, line, got>>
  BY DEF SendSome
<1>3. PICK n \in 1 .. Len(LineBytes(thr)) - sends[thr].off :
        /\ wire' = wire \o SubSeq(LineBytes(thr), sends[thr].off + 1, sends[thr].off + n)
        /\ IF Whole(thr, n) THEN Return(thr, True)
           ELSE sends' = [sends EXCEPT ![thr].off = sends[thr].off + n]
  BY DEF SendSome
<1>4. /\ sends \in [Sender -> SendState] /\ sends[thr] \in SendState
      /\ sends[thr].at \in Nat \ {0} /\ sends[thr].off \in Nat
  BY <1>1 DEF LinesTyped, SendState
<1>5. PICK f \in Nat : f = sends[thr].off
  BY <1>4
<1>6. PICK L : L = Script[thr][sends[thr].at]
  OBVIOUS
<1>7. L \in Seq(Nat) /\ Len(L) \in Nat
  <2>1. Script[thr] \in Seq(Seq(Nat))
    BY StdIoAssumption DEF StdIoAssumption
  <2>2. sends[thr].at \in 1 .. Len(Script[thr])
    BY <1>2, <1>4, <2>1 DEF HasLine
  <2> QED
    BY <1>6, <2>1, <2>2, ElementOfSeq
<1>8. LineBytes(thr) = Append(L, NL) /\ Len(LineBytes(thr)) = Len(L) + 1
  BY <1>6, <1>7 DEF LineBytes
<1>9. n \in Nat /\ n > 0 /\ f + n <= Len(L) + 1
  <2>1. PICK h \in Nat : h = Len(L) + 1
    BY <1>7
  <2>2. n \in 1 .. h - f
    BY <1>5, <1>8, <2>1
  <2>3. n \in Nat /\ n > 0 /\ f + n <= h
    BY ONLY <2>2, f \in Nat, h \in Nat
  <2> QED
    BY <2>1, <2>3
<1>10. PICK o : o = order'
  OBVIOUS
<1>11. PICK k : k = Len(o)
  OBVIOUS
<1>12. order \in LineSeq /\ Len(order) \in Nat /\ wire \in ByteSeq
  BY <1>1 DEF LinesTyped, LineSeq
<1>13. \A u \in Sender : u # thr => ~MidLine(u)
  BY <1>1, <1>2 DEF SenderTurns, MayBegin
\* The line is the last one begun, and what is in flight ends before its
\* byte f + 1.
<1>14. /\ o \in LineSeq /\ k \in Nat /\ k > 0 /\ o[k] = L
       /\ Len(order) <= k /\ \A m \in 1 .. Len(order) : o[m] = order[m]
       /\ InFlight(wire, o, RecvsNext, <<k, f + 1>>)
  <2>1. PICK q : SendsNext(q) /\ InFlight(wire, order, RecvsNext, q)
    BY <1>1, <1>2 DEF Stream
  <2>2. CASE MidLine(thr)
    <3>1. o = order /\ Len(order) > 0 /\ order[Len(order)] = L
      BY <1>1, <1>2, <1>6, <1>10, <2>2 DEF SenderTurns
    <3>2. q = <<Len(order), f + 1>>
      BY <1>5, <1>13, <2>1, <2>2 DEF SendsNext
    <3> QED
      BY <1>11, <1>12, <2>1, <3>1, <3>2
  <2>3. CASE ~MidLine(thr)
    <3>1. o = Append(order, L)
      BY <1>2, <1>6, <1>10, <2>3
    <3>2. /\ o \in LineSeq /\ Len(o) = Len(order) + 1 /\ o[Len(order) + 1] = L
          /\ \A m \in 1 .. Len(order) : o[m] = order[m]
      BY <1>7, <1>12, <3>1 DEF LineSeq
    <3>3. q = <<Len(order) + 1, 1>> /\ f = 0
      BY <1>4, <1>5, <1>13, <2>1, <2>3 DEF SendsNext, MidLine
    <3>4. InFlight(wire, o, RecvsNext, q)
      BY <1>7, <1>12, <2>1, <3>1, BeginKeeps
    <3> QED
      BY <1>11, <1>12, <3>2, <3>3, <3>4
  <2> QED
    BY <2>2, <2>3
<1>15. PICK q : q = IF f + n = Len(L) + 1 THEN <<k + 1, 1>> ELSE <<k, f + n + 1>>
  OBVIOUS
<1>16. wire' \in ByteSeq /\ InFlight(wire', o, RecvsNext, q)
  <2>1. wire' = wire \o SubSeq(Append(o[k], NL), f + 1, f + n)
    BY <1>3, <1>5, <1>8, <1>14
  <2>2. f + n <= Len(o[k]) + 1
    BY <1>9, <1>14
  <2>3. Sent(wire, o, RecvsNext, k, f, n)
    <3>1. PICK w \in ByteSeq : w = wire
      BY <1>12
    <3>2. PICK r : r = RecvsNext
      OBVIOUS
    <3>3. InFlight(w, o, r, <<k, f + 1>>)
      BY <1>14, <3>1, <3>2
    <3>4. Sent(w, o, r, k, f, n)
      BY <1>9, <1>11, <1>14, <2>2, <3>3, SendKeeps
    <3> QED
      BY <3>1, <3>2, <3>4
  <2> QED
    BY <1>14, <1>15, <2>1, <2>3 DEF Sent
<1>17. sends' \in [Sender -> SendState] /\ \A u \in Sender : u # thr => sends'[u] = sends[u]
  <2>1. CASE Whole(thr, n)
    BY <1>1, <1>3, <2>1, SendReturns
  <2>2. CASE ~Whole(thr, n)
    <3>1. PICK x : x = [sends[thr] EXCEPT !.off = f + n]
      OBVIOUS
    <3>2. x \in SendState
      <4>1. f + n \in Nat
        BY <1>9
      <4>2. PICK y \in SendState : y = sends[thr]
        BY <1>4
      <4> QED
        BY <3>1, <4>1, <4>2 DEF SendState
    <3>3. sends' = [sends EXCEPT ![thr] = x]
      BY <1>3, <1>5, <2>2, <3>1
    <3> QED
      BY <1>4, <3>2, <3>3
  <2> QED
    BY <2>1, <2>2
<1>18. Whole(thr, n) <=> f + n = Len(L) + 1
  BY <1>5, <1>8 DEF Whole
<1>19. Whole(thr, n) => sends'[thr].off = 0
  BY <1>1, <1>3, SendReturns
<1>20. ~Whole(thr, n) => sends'[thr].off = f + n /\ sends'[thr].at = sends[thr].at
  BY <1>3, <1>4, <1>5 DEF SendState
<1>21. \A u \in Sender : u # thr => ~(sends'[u].off > 0)
  BY <1>13, <1>17 DEF MidLine
<1>22. LinesTyped'
  BY <1>1, <1>2, <1>10, <1>14, <1>16, <1>17 DEF LinesTyped
<1>23. SenderTurns'
  <2>1. sock' = "open"
    BY <1>2
  <2>2. \A u \in Sender : MidLine(u)' => u = thr /\ ~Whole(thr, n)
    BY <1>19, <1>21 DEF MidLine
  <2>3. ASSUME ~Whole(thr, n)
        PROVE  /\ HasLine(thr)' /\ sends'[thr].off <= Len(Script[thr][sends'[thr].at])
               /\ Len(order') > 0 /\ order'[Len(order')] = Script[thr][sends'[thr].at]
    <3>1. f + n <= Len(L)
      BY <1>7, <1>9, <1>18, <2>3
    <3>2. HasLine(thr)'
      BY <1>2, <1>20, <2>3 DEF HasLine
    <3> QED
      BY <1>6, <1>10, <1>11, <1>14, <1>20, <2>3, <3>1, <3>2
  <2> QED
    BY <2>1, <2>2, <2>3 DEF SenderTurns
<1>24. Received' = Received /\ RecvsNext' = RecvsNext
  BY <1>2, ReceivedIs DEF RecvsNext
<1>25. ErrLast'
  BY <1>1, <1>2 DEF ErrLast
<1>26. /\ Len(Received) \in Nat
       /\ \A m \in 1 .. Len(Received) : m \in 1 .. Len(order)
  BY <1>1, <1>12, LinesBasics DEF LinesReceived
<1>27. LinesReceived'
  <2>1. Len(Received) <= Len(order')
    BY <1>1, <1>10, <1>11, <1>12, <1>14, <1>26 DEF LinesReceived
  <2>2. \A m \in 1 .. Len(Received) : Received[m].text = order'[m]
    BY <1>1, <1>2, <1>10, <1>14, <1>26 DEF LinesReceived
  <2> QED
    BY <1>24, <2>1, <2>2 DEF LinesReceived
<1>28. LinePartial'
  <2> SUFFICES ASSUME line # <<>>
               PROVE  /\ Len(Received) + 1 <= Len(order')
                      /\ Begins(line, order'[Len(Received) + 1])
    BY <1>2, <1>24 DEF LinePartial
  <2>1. Len(Received) + 1 <= Len(order) /\ Begins(line, order[Len(Received) + 1])
    BY <1>1 DEF LinePartial
  <2>2. Len(Received) + 1 \in 1 .. Len(order)
    BY <1>12, <1>26, <2>1
  <2> QED
    BY <1>10, <1>11, <1>12, <1>14, <1>26, <2>1, <2>2
<1>29. Stream'
  <2>1. SendsNext(q)'
    <3>1. CASE Whole(thr, n)
      <4>1. q = <<Len(order') + 1, 1>>
        BY <1>10, <1>11, <1>15, <1>18, <3>1
      <4>2. \A u \in Sender : ~(sends'[u].off > 0)
        BY <1>19, <1>21, <3>1
      <4> QED
        BY <4>1, <4>2 DEF SendsNext, MidLine
    <3>2. CASE ~Whole(thr, n)
      <4>1. q = <<Len(order'), sends'[thr].off + 1>>
        BY <1>10, <1>11, <1>15, <1>18, <1>20, <3>2
      <4>2. sends'[thr].off > 0
        BY <1>9, <1>20, <3>2
      <4> QED
        BY <4>1, <4>2 DEF SendsNext, MidLine
    <3> QED
      BY <3>1, <3>2
  <2>2. InFlight(wire', order', RecvsNext', q)
    BY <1>10, <1>16, <1>24
  <2>3. sock' # "broken"
    BY <1>2
  <2> QED
    BY <2>1, <2>2, <2>3 DEF Stream
<1> QED
  BY <1>22, <1>23, <1>25, <1>27, <1>28, <1>29 DEF LinesInv

\* What stands before the last of a sequence.
LEMMA FrontOfAppend ==
  ASSUME NEW S, NEW g \in Seq(S), NEW r \in S
  PROVE  Front(Append(g, r)) = g
<1>1. PICK h : h = Append(g, r)
  OBVIOUS
<1>2. PICK c \in Int : c = Len(g)
  OBVIOUS
<1>3. c \in Nat /\ h \in Seq(S) /\ Len(h) = c + 1 /\ \A m \in 1 .. c : h[m] = g[m] /\ g[m] \in S
  BY <1>1, <1>2
<1>4. PICK u : u = SubSeq(h, 1, c)
  OBVIOUS
<1>5. \A m \in 1 .. c : h[m] \in S
  BY <1>3
<1>6. /\ u \in Seq(S)
      /\ Len(u) = IF 1 <= c THEN c - 1 + 1 ELSE 0
      /\ \A m \in 1 .. c - 1 + 1 : u[m] = h[1 + m - 1]
  BY <1>4, <1>5, SubSeqProperties
<1>7. Len(u) = c /\ \A m \in 1 .. c : u[m] = h[m]
  BY <1>3, <1>6
<1>8. u = g
  BY <1>2, <1>3, <1>6, <1>7, SeqEqual
<1>9. Len(h) - 1 = c
  BY <1>3
<1> QED
  BY <1>1, <1>4, <1>8, <1>9 DEF Front

\* A beginning is a prefix.
LEMMA BeginsPrefix ==
  ASSUME NEW l \in Seq(Nat), NEW L \in Seq(Nat), Begins(l, L)
  PROVE  IsPrefix(l, L)
<1>1. PICK c \in Int : c = Len(l)
  OBVIOUS
<1>2. c \in Nat /\ c <= Len(L) /\ \A m \in 1 .. c : l[m] = L[m] /\ l[m] \in Nat /\ L[m] \in Nat
  BY <1>1 DEF Begins
<1>3. PICK u : u = SubSeq(l, 1, c)
  OBVIOUS
<1>4. PICK v : v = SubSeq(L, 1, c)
  OBVIOUS
<1>5. /\ u \in Seq(Nat)
      /\ Len(u) = IF 1 <= c THEN c - 1 + 1 ELSE 0
      /\ \A m \in 1 .. c - 1 + 1 : u[m] = l[1 + m - 1]
  BY <1>2, <1>3, SubSeqProperties
<1>6. /\ v \in Seq(Nat)
      /\ Len(v) = IF 1 <= c THEN c - 1 + 1 ELSE 0
      /\ \A m \in 1 .. c - 1 + 1 : v[m] = L[1 + m - 1]
  BY <1>2, <1>4, SubSeqProperties
<1>7. Len(u) = c /\ Len(v) = c
  BY <1>2, <1>5, <1>6
<1>8. \A m \in 1 .. c : u[m] = v[m]
  BY <1>2, <1>5, <1>6
<1>9. u = v
  BY <1>5, <1>6, <1>7, <1>8, SeqEqual
<1> QED
  BY <1>1, <1>2, <1>3, <1>4, <1>9 DEF IsPrefix

\* A line received behind those before it, or the Err at the end.
LEMMA OneMoreReceived ==
  ASSUME NEW g \in Seq(LineResult \cup {ErrV}), ErrV \notin ToSet(g),
         NEW r \in LineResult \cup {ErrV}
  PROVE  /\ Append(g, r) \in Seq(LineResult \cup {ErrV})
         /\ \A m \in 1 .. Len(g) : g[m] # ErrV
         /\ r # ErrV => ReceivedOf(Append(g, r)) = Append(g, r)
         /\ r = ErrV => ReceivedOf(Append(g, r)) = g
<1>1. PICK h : h = Append(g, r)
  OBVIOUS
<1>2. PICK c \in Nat : c = Len(g)
  OBVIOUS
<1>3. /\ h \in Seq(LineResult \cup {ErrV}) /\ Len(h) = c + 1 /\ h[c + 1] = r
      /\ \A m \in 1 .. c : h[m] = g[m]
  BY <1>1, <1>2
<1>4. \A m \in 1 .. c : g[m] # ErrV
  BY <1>2 DEF ToSet
<1>5. CASE r # ErrV
  <2>1. \A m \in DOMAIN h : h[m] # ErrV
    <3> SUFFICES ASSUME NEW m \in DOMAIN h PROVE h[m] # ErrV
      OBVIOUS
    <3>1. m \in 1 .. c + 1
      BY <1>3
    <3>2. CASE m = c + 1
      BY <1>3, <1>5, <3>2
    <3>3. CASE m # c + 1
      <4>1. m \in 1 .. c
        BY <3>1, <3>3
      <4> QED
        BY <1>3, <1>4, <4>1
    <3> QED
      BY <3>2, <3>3
  <2>2. ErrV \notin ToSet(h)
    BY <2>1 DEF ToSet
  <2> QED
    BY <1>1, <1>2, <1>3, <1>4, <1>5, <2>2 DEF ReceivedOf
<1>6. CASE r = ErrV
  <2>1. ErrV \in ToSet(h)
    <3>1. c + 1 \in DOMAIN h
      BY <1>3
    <3> QED
      BY <1>3, <1>6, <3>1 DEF ToSet
  <2>2. Front(h) = g
    BY <1>1, FrontOfAppend
  <2>3. ReceivedOf(h) = g
    BY <2>1, <2>2 DEF ReceivedOf
  <2> QED
    BY <1>1, <1>2, <1>3, <1>4, <1>6, <2>3
<1> QED
  BY <1>5, <1>6

\* What recv_line returns.
LEMMA LineResults ==
  ASSUME NEW l \in Seq(Nat)
  PROVE  /\ Lifted(String(l)) = String(l) /\ String(l) \in LineResult
         /\ String(l).text = l /\ String(l) # ErrV /\ Lifted(NilV) = ErrV
BY DEF Lifted, String, NilV, ErrV, LineResult

\* One byte is received.
LEMMA RecvByteKeeps ==
  ASSUME LinesInv, RecvByte
  PROVE  LinesInv'
<1>1. LinesTyped /\ SenderTurns /\ ErrLast /\ LinesReceived /\ LinePartial /\ Stream
  BY DEF LinesInv
<1>2. /\ Listening /\ wire # <<>> /\ wire' = Tail(wire)
      /\ IF Head(wire) = NL THEN RecvReturns(String(line))
         ELSE line' = Append(line, Head(wire)) /\ UNCHANGED got
      /\ UNCHANGED <<sock, sends, order>>
  BY DEF RecvByte
<1>3. /\ order \in LineSeq /\ wire \in ByteSeq /\ line \in Seq(Nat)
      /\ got \in Seq(LineResult \cup {ErrV}) /\ ErrV \notin ToSet(got)
  BY <1>1, <1>2 DEF LinesTyped, Listening
<1>4. sock # "broken"
  BY <1>1, <1>2 DEF Stream
<1>5. PICK q : SendsNext(q) /\ InFlight(wire, order, RecvsNext, q)
  BY <1>1, <1>4 DEF Stream
<1>6. /\ Valid(order, RecvsNext) /\ Head(wire) = ByteAt(order, RecvsNext)
      /\ Tail(wire) \in ByteSeq /\ InFlight(Tail(wire), order, After(order, RecvsNext), q)
  BY <1>2, <1>3, <1>5, RecvKeeps
<1>7. Received = got
  BY <1>2 DEF Received
<1>8. PICK c \in Nat : c = Len(got)
  BY <1>3
<1>9. PICK d \in Nat : d = Len(line)
  BY <1>3
<1>10. RecvsNext = <<c + 1, d + 1>>
  BY <1>7, <1>8, <1>9 DEF RecvsNext
<1>11. PICK L : L = order[c + 1]
  OBVIOUS
<1>12. c + 1 \in 1 .. Len(order) /\ d + 1 \in 1 .. Len(L) + 1
  BY <1>6, <1>10, <1>11 DEF Valid
<1>13. L \in Seq(Nat) /\ Len(L) \in Nat /\ Len(order) \in Nat
  BY <1>3, <1>11, <1>12, ElementOfSeq DEF LineSeq
<1>14. \A m \in 1 .. c : got[m].text = order[m]
  BY <1>1, <1>4, <1>7, <1>8 DEF LinesReceived
<1>15. d <= Len(L) /\ \A m \in 1 .. d : line[m] = L[m]
  <2>1. CASE d = 0
    BY <1>13, <2>1
  <2>2. CASE d # 0
    <3>1. line # <<>>
      BY <1>9, <2>2
    <3> QED
      BY <1>1, <1>7, <1>8, <1>9, <1>11, <3>1 DEF LinePartial, Begins
  <2> QED
    BY <2>1, <2>2
<1>16. SenderTurns' /\ SendsNext(q)'
  BY <1>1, <1>2, <1>5 DEF SenderTurns, SendsNext, MidLine, HasLine
<1>17. CASE d = Len(L)
  <2>1. Head(wire) = NL /\ After(order, RecvsNext) = <<c + 2, 1>>
    BY <1>6, <1>10, <1>11, <1>17 DEF ByteAt, After
  <2>2. got' = Append(got, String(line)) /\ line' = <<>>
    BY <1>2, <1>3, <2>1, LineResults DEF RecvReturns
  <2>3. String(line) \in LineResult /\ String(line).text = line /\ String(line) # ErrV
    BY <1>3, LineResults
  <2>4. got' \in Seq(LineResult \cup {ErrV}) /\ Received' = got'
    BY <1>3, <2>2, <2>3, OneMoreReceived, ReceivedIs
  <2>5. /\ Len(got') = c + 1 /\ got'[c + 1] = String(line)
        /\ \A m \in 1 .. c : got'[m] = got[m]
    BY <1>3, <1>8, <2>2, <2>3
  <2>6. line = L
    BY <1>3, <1>9, <1>13, <1>15, <1>17, SeqEqual
  <2>7. \A m \in 1 .. c + 1 : got'[m].text = order[m] /\ got'[m] # ErrV
    <3> SUFFICES ASSUME NEW m \in 1 .. c + 1 PROVE got'[m].text = order[m] /\ got'[m] # ErrV
      OBVIOUS
    <3>1. CASE m = c + 1
      BY <1>11, <2>3, <2>5, <2>6, <3>1
    <3>2. CASE m # c + 1
      <4>1. m \in 1 .. c
        BY <3>2
      <4>2. got[m] # ErrV
        BY <1>3, <1>8, <2>3, <4>1, OneMoreReceived
      <4> QED
        BY <1>14, <2>5, <4>1, <4>2
    <3> QED
      BY <3>1, <3>2
  <2>8. LinesTyped'
    BY <1>1, <1>2, <1>6, <2>2, <2>4 DEF LinesTyped
  <2>9. ErrLast'
    BY <2>5, <2>7 DEF ErrLast
  <2>10. LinesReceived'
    BY <1>2, <1>12, <2>4, <2>5, <2>7 DEF LinesReceived
  <2>11. LinePartial'
    BY <2>2 DEF LinePartial
  <2>12. RecvsNext' = <<c + 2, 1>>
    <3>1. Len(line') = 0
      BY <2>2
    <3> QED
      BY <2>4, <2>5, <3>1 DEF RecvsNext
  <2>13. Stream'
    BY <1>2, <1>4, <1>6, <1>16, <2>1, <2>12 DEF Stream
  <2> QED
    BY <1>16, <2>8, <2>9, <2>10, <2>11, <2>13 DEF LinesInv
<1>18. CASE d # Len(L)
  <2>1. d + 1 \in 1 .. Len(L)
    BY <1>13, <1>15, <1>18
  <2>2. /\ Head(wire) = L[d + 1] /\ L[d + 1] \in Nat
        /\ After(order, RecvsNext) = <<c + 1, d + 2>>
    <3>1. d + 1 # Len(L) + 1
      BY <1>13, <1>18
    <3>2. L[d + 1] \in Nat
      BY <1>13, <2>1, ElementOfSeq
    <3> QED
      BY <1>6, <1>10, <1>11, <3>1, <3>2 DEF ByteAt, After
  <2>3. Head(wire) # NL
    BY <2>2, StdIoAssumption DEF StdIoAssumption
  <2>4. line' = Append(line, L[d + 1]) /\ got' = got
    BY <1>2, <2>2, <2>3
  <2>5. /\ line' \in Seq(Nat) /\ Len(line') = d + 1
        /\ \A m \in 1 .. d + 1 : line'[m] = L[m]
    <3>1. line' \in Seq(Nat) /\ Len(line') = d + 1 /\ line'[d + 1] = L[d + 1]
      BY <1>3, <1>9, <2>2, <2>4
    <3>2. \A m \in 1 .. d : line'[m] = L[m]
      BY <1>3, <1>9, <1>15, <2>2, <2>4
    <3> QED
      BY <3>1, <3>2
  <2>6. Received' = Received
    BY <2>4, ReceivedIs
  <2>7. LinesTyped'
    BY <1>1, <1>2, <1>6, <2>4, <2>5 DEF LinesTyped
  <2>8. ErrLast'
    <3>1. \A m \in 1 .. Len(got) : got[m] # ErrV
      BY <1>3 DEF ToSet
    <3> QED
      BY <2>4, <3>1 DEF ErrLast
  <2>9. LinesReceived'
    BY <1>2, <1>7, <1>8, <1>12, <1>14, <2>6 DEF LinesReceived
  <2>10. LinePartial'
    BY <1>2, <1>7, <1>8, <1>11, <1>12, <1>13, <2>1, <2>5, <2>6 DEF LinePartial, Begins
  <2>11. RecvsNext' = <<c + 1, d + 2>>
    BY <1>7, <1>8, <2>5, <2>6 DEF RecvsNext
  <2>12. Stream'
    BY <1>2, <1>4, <1>6, <1>16, <2>2, <2>11 DEF Stream
  <2> QED
    BY <1>16, <2>7, <2>8, <2>9, <2>10, <2>12 DEF LinesInv
<1> QED
  BY <1>17, <1>18

\* A connection that was closed has only whole lines.
LEMMA ClosedWhole ==
  ASSUME LinesInv, wire = <<>>, sock = "closed"
  PROVE  line = <<>> /\ Len(Received) = Len(order)
<1>1. LinesTyped /\ SenderTurns /\ ErrLast /\ Stream
  BY DEF LinesInv
<1>2. PICK q : SendsNext(q) /\ InFlight(<<>>, order, RecvsNext, q)
  BY <1>1 DEF Stream
<1>3. RecvsNext \in Position
  BY <1>1, LinesBasics
<1>4. RecvsNext = q
  BY <1>2, <1>3, NoneInFlight
<1>5. q = <<Len(order) + 1, 1>>
  BY <1>1, <1>2 DEF SendsNext, SenderTurns
<1>6. Len(Received) + 1 = Len(order) + 1 /\ Len(line) + 1 = 1
  BY <1>4, <1>5 DEF RecvsNext
<1>7. Len(Received) \in Nat /\ Len(order) \in Nat /\ Len(line) \in Nat /\ line \in Seq(Nat)
  BY <1>1, LinesBasics DEF LinesTyped
<1> QED
  BY <1>6, <1>7

\* The connection is at its end.
LEMMA RecvEndKeeps ==
  ASSUME LinesInv, RecvEnd
  PROVE  LinesInv'
<1>1. LinesTyped /\ SenderTurns /\ ErrLast /\ LinesReceived /\ LinePartial /\ Stream
  BY DEF LinesInv
<1>2. /\ Listening /\ wire = <<>> /\ sock \in {"closed", "broken"}
      /\ RecvReturns(IF line = <<>> THEN NilV ELSE String(line))
      /\ UNCHANGED <<sock, wire, sends, order>>
  BY DEF RecvEnd, AtEnd
<1>3. /\ order \in LineSeq /\ line \in Seq(Nat) /\ Len(order) \in Nat
      /\ got \in Seq(LineResult \cup {ErrV}) /\ ErrV \notin ToSet(got)
  BY <1>1, <1>2 DEF LinesTyped, Listening, LineSeq
<1>4. Received = got
  BY <1>2 DEF Received
<1>5. PICK c \in Nat : c = Len(got)
  BY <1>3
<1>6. SenderTurns'
  BY <1>1, <1>2 DEF SenderTurns, MidLine, HasLine
<1>7. line' = <<>>
  BY <1>2 DEF RecvReturns
<1>8. LinePartial'
  BY <1>7 DEF LinePartial
<1>9. \A m \in 1 .. c : got[m] # ErrV
  BY <1>3, <1>5 DEF ToSet
<1>10. CASE line = <<>>
  <2>1. got' = Append(got, ErrV)
    BY <1>2, <1>3, <1>10, LineResults DEF RecvReturns
  <2>2. ErrV \in LineResult \cup {ErrV}
    OBVIOUS
  <2>3. got' \in Seq(LineResult \cup {ErrV}) /\ Received' = got
    BY <1>3, <2>1, <2>2, OneMoreReceived, ReceivedIs
  <2>4. Len(got') = c + 1 /\ \A m \in 1 .. c : got'[m] = got[m]
    BY <1>3, <1>5, <2>1
  <2>5. LinesTyped'
    BY <1>1, <1>2, <1>7, <2>3 DEF LinesTyped
  <2>6. ErrLast'
    <3>1. \A m \in 1 .. c + 1 : got'[m] = ErrV => m = c + 1
      BY <1>9, <2>4
    <3> QED
      BY <1>2, <1>7, <2>4, <3>1 DEF ErrLast
  <2>7. LinesReceived'
    BY <1>1, <1>2, <1>4, <1>7, <2>3 DEF LinesReceived
  <2>8. RecvsNext' = RecvsNext
    BY <1>4, <1>7, <1>10, <2>3 DEF RecvsNext
  <2>9. Stream'
    <3>1. CASE sock = "broken"
      BY <1>2, <3>1 DEF Stream
    <3>2. CASE sock # "broken"
      <4>1. PICK q : SendsNext(q) /\ InFlight(wire, order, RecvsNext, q)
        BY <1>1, <3>2 DEF Stream
      <4>2. SendsNext(q)'
        BY <1>2, <4>1 DEF SendsNext, MidLine
      <4> QED
        BY <1>2, <2>8, <3>2, <4>1, <4>2 DEF Stream
    <3> QED
      BY <3>1, <3>2
  <2> QED
    BY <1>6, <1>8, <2>5, <2>6, <2>7, <2>9 DEF LinesInv
<1>11. CASE line # <<>>
  <2>1. sock = "broken"
    BY <1>2, <1>11, ClosedWhole
  <2>2. got' = Append(got, String(line))
    BY <1>2, <1>3, <1>11, LineResults DEF RecvReturns
  <2>3. String(line) \in LineResult /\ String(line).text = line /\ String(line) # ErrV
    BY <1>3, LineResults
  <2>4. got' \in Seq(LineResult \cup {ErrV}) /\ Received' = got'
    BY <1>3, <2>2, <2>3, OneMoreReceived, ReceivedIs
  <2>5. /\ Len(got') = c + 1 /\ got'[c + 1] = String(line)
        /\ \A m \in 1 .. c : got'[m] = got[m]
    BY <1>3, <1>5, <2>2, <2>3
  <2>6. LinesTyped'
    BY <1>1, <1>2, <1>7, <2>4 DEF LinesTyped
  <2>7. ErrLast'
    <3>1. \A m \in 1 .. c + 1 : got'[m] # ErrV
      BY <1>9, <2>3, <2>5
    <3> QED
      BY <2>5, <3>1 DEF ErrLast
  <2>8. c + 1 <= Len(order) /\ Begins(line, order[c + 1])
    BY <1>1, <1>4, <1>5, <1>11 DEF LinePartial
  <2>9. \A m \in 1 .. c : got[m].text = order[m]
    BY <1>1, <1>4, <1>5, <1>11 DEF LinesReceived
  <2>10. LinesReceived'
    <3>1. Len(Received') <= Len(order')
      BY <1>2, <2>4, <2>5, <2>8
    <3>2. \A m \in 1 .. c : Received'[m].text = order'[m]
      BY <1>2, <2>4, <2>5, <2>9
    <3>3. Begins(Received'[c + 1].text, order'[c + 1])
      BY <1>2, <2>3, <2>4, <2>5, <2>8
    <3>4. sock' = "broken" /\ wire' = <<>> /\ Len(Received') = c + 1
      BY <1>2, <2>1, <2>4, <2>5
    <3> QED
      BY <1>7, <3>1, <3>2, <3>3, <3>4 DEF LinesReceived
  <2>11. Stream'
    BY <1>2, <2>1 DEF Stream
  <2> QED
    BY <1>6, <1>8, <2>6, <2>7, <2>10, <2>11 DEF LinesInv
<1> QED
  BY <1>10, <1>11

\* Every step of a connection keeps the lines.
LEMMA LinesStep ==
  ASSUME Locked, FdsInv, LinesInv, [IoNext]_ioVars
  PROVE  LinesInv'
<1>1. LinesTyped /\ SenderTurns
  BY DEF LinesInv
<1>2. sends \in [Sender -> SendState]
  BY <1>1 DEF LinesTyped
<1>3. ASSUME TryAddress PROVE LinesInv'
  <2>1. UNCHANGED <<wire, sends, order, line, got>> /\ sock = "none" /\ sock' \in {"none", "open"}
    <3>1. addrs # <<>> /\ addrs \in Seq(Outcomes)
      BY <1>3 DEF TryAddress, FdsInv
    <3>2. Head(addrs) \in {"no socket", "refused", "connects"}
      BY <3>1, HeadTailProperties DEF Outcomes
    <3> QED
      BY <1>3, <3>2 DEF TryAddress
  <2> QED
    BY <1>2, <2>1, LinesStay
<1>4. ASSUME NEW thr \in Sender, SendSome(thr) PROVE LinesInv'
  BY <1>4, SendSomeKeeps
<1>5. ASSUME NEW thr \in Sender, SendFails(thr) PROVE LinesInv'
  <2>1. UNCHANGED <<wire, order, line, got>> /\ sock = "broken" /\ sock' = "broken" /\ Return(thr, NilV)
    BY <1>5 DEF SendFails
  <2>2. sends' \in [Sender -> SendState]
    BY <1>1, <2>1, SendReturns
  <2> QED
    BY <2>1, <2>2, LinesStay
<1>6. ASSUME NEW thr \in Sender, SendKills(thr) PROVE LinesInv'
  <2>1. UNCHANGED <<wire, sends, order, line, got>> /\ sock = "broken" /\ sock' = "broken"
    BY <1>6 DEF SendKills
  <2> QED
    BY <1>2, <2>1, LinesStay
<1>7. ASSUME CloseConn PROVE LinesInv'
  <2>1. /\ UNCHANGED <<wire, sends, order, line, got>> /\ \A u \in Sender : ~HasLine(u)
        /\ sock \in {"open", "broken"} /\ sock' = IF sock = "open" THEN "closed" ELSE sock
    BY <1>7 DEF CloseConn
  <2>2. CASE sock = "open"
    <3>1. \A u \in Sender : ~MidLine(u)
      BY <1>1, <2>1, <2>2 DEF SenderTurns
    <3> QED
      BY <1>2, <2>1, <2>2, <3>1, LinesStay
  <2>3. CASE sock = "broken"
    BY <1>2, <2>1, <2>3, LinesStay
  <2> QED
    BY <2>1, <2>2, <2>3
<1>8. ASSUME Break PROVE LinesInv'
  BY <1>8, BreakKeeps
<1>9. ASSUME RecvByte PROVE LinesInv'
  BY <1>9, RecvByteKeeps
<1>10. ASSUME RecvEnd PROVE LinesInv'
  BY <1>10, RecvEndKeeps
<1>11. ASSUME UNCHANGED ioVars PROVE LinesInv'
  <2>1. UNCHANGED <<sock, wire, sends, order, line, got>>
    BY <1>11 DEF ioVars
  <2>2. (UNCHANGED <<sock, wire, sends, order, line, got>>) => (LinesInv' <=> LinesInv)
    BY ReceivedIs DEF LinesInv, LinesTyped, SenderTurns, ErrLast, LinesReceived, LinePartial,
                      Stream, SendsNext, RecvsNext, MidLine, HasLine
  <2> QED
    BY <2>1, <2>2
<1> QED
  BY <1>3, <1>4, <1>5, <1>6, <1>7, <1>8, <1>9, <1>10, <1>11 DEF IoNext

\* What the step keeps is enough.
LEMMA LinesInvWhole ==
  ASSUME LinesInv
  PROVE  LinesWhole
<1>1. LinesTyped /\ SenderTurns /\ ErrLast /\ LinesReceived
  BY DEF LinesInv
<1>2. Received \in Seq(LineResult) /\ Len(Received) \in Nat /\ order \in LineSeq
  BY <1>1, LinesBasics DEF LinesTyped
<1>3. ASSUME NEW m \in 1 .. Len(Received), Begins(Received[m].text, order[m])
      PROVE  IsPrefix(Received[m].text, order[m])
  <2>1. Received[m] \in LineResult
    BY <1>2, ElementOfSeq
  <2>2. PICK l \in Seq(Nat) : l = Received[m].text
    BY <2>1 DEF LineResult
  <2>3. m \in 1 .. Len(order)
    BY <1>1, <1>2 DEF LinesReceived, LineSeq
  <2>4. PICK L \in Seq(Nat) : L = order[m]
    BY <1>2, <2>3, ElementOfSeq DEF LineSeq
  <2> QED
    BY <1>3, <2>2, <2>4, BeginsPrefix
<1>4. ASSUME ~Listening, sock = "closed" PROVE Len(Received) = Len(order)
  <2>1. ErrV \in ToSet(got) /\ got \in Seq(LineResult \cup {ErrV})
    BY <1>1, <1>4 DEF Listening, LinesTyped
  <2>2. PICK m \in 1 .. Len(got) : got[m] = ErrV
    BY <2>1 DEF ToSet
  <2>3. wire = <<>>
    BY <1>1, <2>2 DEF ErrLast
  <2> QED
    BY <1>4, <2>3, ClosedWhole
<1> QED
  BY <1>1, <1>3, <1>4 DEF LinesWhole, LinesReceived

\* When the senders hold a mutex, the lines received are those sent, whole
\* and in the order they were begun, however send and recv cut up the bytes
\* and wherever the connection breaks, for any lines and number of senders.
THEOREM LinesArriveWhole ==
  ASSUME Locked
  PROVE  Spec => []LinesWhole
<1>1. Init => FdsInv /\ LinesInv
  <2>1. Init => FdsInv
    BY FdsInitInv DEF Init
  <2>2. Init => LinesInv
    BY LinesStart DEF Init, IoInit, NoConnection
  <2> QED
    BY <2>1, <2>2
<1>2. FdsInv /\ LinesInv /\ [Next]_vars => FdsInv' /\ LinesInv'
  <2>1. [Next]_vars => [IoNext]_ioVars
    BY DEF Next, vars, CallStep, StringStep, NumberStep, VariantStep, IoStep, HeapStep
  <2> QED
    BY <2>1, FdsStep, LinesStep
<1>3. LinesInv => LinesWhole
  BY LinesInvWhole
<1> QED
  BY <1>1, <1>2, <1>3, PTL DEF Spec

(***************************************************************************)
(* Threads that count references.                                          *)
(***************************************************************************)

\* What a thread may get at: the shared blocks that bodies reach, its own,
\* and for main the global.
Own(thr) == reach \cup {thr} \cup (IF thr = Main THEN {"global"} ELSE {})
Owners(blk) == {thr \in Thread : blk \in refs[thr]}

Counting(thr) == inside[thr].do \in {"retain", "release", "drop", "last"}

\* What a thread is in the middle of fits what it owns; what it has read of
\* a block out of reach of the others is still there.
OperationFits(thr) ==
  /\ inside[thr].do = "none" => inside[thr] = Idle
  /\ inside[thr].do # "none" => inside[thr].block \in Own(thr)
  /\ inside[thr].do \in {"drop", "overwrite", "last"} => thr = Main /\ inside[thr].block \in Shared
  /\ Counting(thr) /\ inside[thr].block \in reach => touched # {} \/ inside[thr].seen > 0
  /\ Counting(thr) /\ inside[thr].block \notin reach =>
       /\ inside[thr].seen = rc[inside[thr].block]
       /\ inside[thr].block \notin freed
       /\ inside[thr].do = "retain" => inside[thr].block \notin refs[thr]
       /\ inside[thr].do = "release" => inside[thr].block \in refs[thr]
       /\ inside[thr].do \in {"drop", "last"} => inside[thr].block \in home

\* No pointer to a released block is in a variable while main loads it.
MainFits ==
  /\ phase[Main] \in {"running", "leaving", "exited"}
  /\ inside[Main].do = "overwrite" => stale \subseteq {inside[Main].block}
  /\ phase[Main] = "running" /\ inside[Main].do # "overwrite" => stale = {}
  /\ inside[Main].do \in {"retain", "release", "drop", "overwrite"} => phase[Main] = "running"
  /\ inside[Main].do = "last" => phase[Main] = "leaving"

Confined ==
  /\ HeapTypeOK
  /\ queue \subseteq {"int"}
  /\ touched \subseteq reach
  /\ home \subseteq reach \cup {"global"}
  /\ \A thr \in Thread : refs[thr] \subseteq Own(thr) /\ OperationFits(thr)
  /\ \A blk \in Block \ reach : CountExact(blk)
  /\ \A blk \in reach : rc[blk] = 0 => blk \in freed

\* A block out of reach belongs to one thread.
LEMMA OneOwner ==
  ASSUME HeapTypeOK, NEW blk \in Block \ reach, NEW one \in Thread, NEW two \in Thread,
         blk \in Own(one), blk \in Own(two)
  PROVE  one = two
  BY ThreadHeapAssumption DEF ThreadHeapAssumption, Own, Shared, HeapTypeOK

LEMMA HomeCard ==
  ASSUME NEW blk
  PROVE  /\ blk \in home => Cardinality(home \cap {blk}) = 1
         /\ blk \notin home => Cardinality(home \cap {blk}) = 0
<1>1. blk \in home => home \cap {blk} = {blk}
  OBVIOUS
<1>2. blk \notin home => home \cap {blk} = {}
  OBVIOUS
<1> QED
  BY <1>1, <1>2, FS_EmptySet, FS_Singleton

LEMMA OwnersFinite ==
  ASSUME NEW blk
  PROVE  IsFiniteSet(Owners(blk)) /\ Cardinality(Owners(blk)) \in Nat
         /\ (Cardinality(Owners(blk)) = 0 <=> Owners(blk) = {})
  BY ThreadHeapAssumption, FS_Subset, FS_CardinalityType, FS_EmptySet DEF ThreadHeapAssumption, Owners

\* A block out of reach that somebody owns has not been freed.
LEMMA OwnedIsThere ==
  ASSUME Confined, NEW blk \in Block \ reach, blk \in home \/ \E thr \in Thread : blk \in refs[thr]
  PROVE  blk \notin freed
<1>1. rc[blk] = Cardinality(Owners(blk)) + Cardinality(home \cap {blk})
  BY DEF Confined, CountExact, Owners
<1>2. Owners(blk) # {} \/ blk \in home
  BY DEF Owners
<1>3. rc[blk] # 0
  BY <1>1, <1>2, OwnersFinite, HomeCard
<1> QED
  BY <1>3 DEF Confined, CountExact

\* Before the program starts there are the globals.
LEMMA ConfinedInit == HeapInit => Confined /\ MainFits
<1> SUFFICES ASSUME HeapInit
             PROVE  Confined /\ MainFits
  OBVIOUS
<1>1. reach \subseteq Shared /\ home \subseteq Shared /\ home = reach \cup {"global"} /\ Shared \subseteq Block
  BY DEF HeapInit, Shared, Block
<1>2. /\ rc \in [Block -> Nat]
      /\ \A blk \in Block : rc[blk] = IF blk \in home THEN 1 ELSE 0
      /\ freed = Block \ home
      /\ inside \in [Thread -> Inside]
      /\ \A thr \in Thread : inside[thr] = Idle /\ refs[thr] = {}
  BY DEF HeapInit, Inside, Idle, Shared, Block
<1>3. HeapTypeOK
  BY <1>1, <1>2 DEF HeapInit, HeapTypeOK
<1>4. ASSUME NEW blk \in Block
      PROVE  CountExact(blk)
  <2>1. Owners(blk) = {}
    BY <1>2 DEF Owners
  <2>2. Cardinality(Owners(blk)) = 0
    BY <2>1, FS_EmptySet
  <2> QED
    BY <1>2, <2>2, HomeCard DEF CountExact, Owners
<1>5. \A thr \in Thread : OperationFits(thr)
  BY <1>2 DEF OperationFits, Counting, Idle
<1>6. MainFits
  BY <1>2, ThreadHeapAssumption DEF MainFits, HeapInit, Idle, ThreadHeapAssumption
<1>7. \A blk \in reach : rc[blk] = 0 => blk \in freed
  BY <1>1, <1>2
<1> QED
  BY <1>1, <1>2, <1>3, <1>4, <1>5, <1>6, <1>7 DEF Confined, HeapInit

\* Nor is anything left to count where no thread is.
LEMMA ConfinedEnd == NoThreads => Confined /\ MainFits
<1> SUFFICES ASSUME NoThreads
             PROVE  Confined /\ MainFits
  OBVIOUS
<1>1. /\ rc \in [Block -> Nat] /\ \A blk \in Block : rc[blk] = 0
      /\ inside \in [Thread -> Inside]
      /\ \A thr \in Thread : inside[thr] = Idle /\ refs[thr] = {}
  BY DEF NoThreads, Inside, Idle, Shared, Block
<1>2. HeapTypeOK
  BY <1>1 DEF NoThreads, HeapTypeOK, Shared, Block
<1>3. ASSUME NEW blk \in Block
      PROVE  CountExact(blk)
  <2>1. Owners(blk) = {}
    BY <1>1 DEF Owners
  <2>2. Cardinality(Owners(blk)) = 0
    BY <2>1, FS_EmptySet
  <2> QED
    BY <1>1, <2>2, HomeCard DEF NoThreads, CountExact, Owners
<1>4. \A thr \in Thread : OperationFits(thr)
  BY <1>1 DEF OperationFits, Counting, Idle
<1>5. MainFits
  BY <1>1, ThreadHeapAssumption DEF MainFits, NoThreads, Idle, ThreadHeapAssumption
<1> QED
  BY <1>1, <1>2, <1>3, <1>4, <1>5 DEF Confined, NoThreads

\* Steps of the control leave the counts alone.
LEMMA ControlKeeps ==
  ASSUME Confined, UNCHANGED <<reach, rc, freed, home, refs, inside, touched>>,
         queue' \subseteq {"int"}, stale' \subseteq Shared,
         phase' \in [Thread -> {"unborn", "spawned", "running", "leaving", "exited"}]
  PROVE  Confined'
<1>1. \A thr \in Thread : Own(thr)' = Own(thr) /\ (OperationFits(thr)' <=> OperationFits(thr))
  BY DEF Own, OperationFits, Counting
<1>2. \A blk \in Block : CountExact(blk)' <=> CountExact(blk)
  BY DEF CountExact
<1>3. HeapTypeOK'
  BY DEF Confined, HeapTypeOK
<1> QED
  BY <1>1, <1>2, <1>3 DEF Confined

\* The load of a count, of a block the thread may get at.
LEMMA LoadKeeps ==
  ASSUME Confined, touched = {}, NEW thr \in Thread, NEW blk \in Own(thr) \cap Block,
         NEW what \in {"retain", "release", "drop", "last"},
         Read(thr, what, blk), UNCHANGED <<reach, rc, freed, home, stale, refs>>,
         queue' \subseteq {"int"},
         phase' \in [Thread -> {"unborn", "spawned", "running", "leaving", "exited"}],
         what \in {"drop", "last"} => thr = Main /\ blk \in home,
         blk \notin reach => /\ what = "retain" => blk \notin refs[thr] /\ blk \in home
                             /\ what = "release" => blk \in refs[thr]
  PROVE  Confined'
<1>1. blk \notin reach => blk \notin freed
  BY OwnedIsThere
<1>2. touched' \subseteq reach
  BY <1>1 DEF Read
<1>3. inside' = [inside EXCEPT ![thr] = [do |-> what, block |-> blk, seen |-> rc[blk]]]
  BY DEF Read
<1>4. inside' \in [Thread -> Inside]
  BY <1>3 DEF Confined, HeapTypeOK, Inside
<1>5. \A one \in Thread : Own(one)' = Own(one)
  BY DEF Own
<1>6. ASSUME NEW one \in Thread
      PROVE  OperationFits(one)'
  <2>1. CASE one = thr
    <3>1. inside'[one] = [do |-> what, block |-> blk, seen |-> rc[blk]]
      BY <1>3, <2>1 DEF Confined, HeapTypeOK
    <3>2. blk \in reach => touched' # {} \/ rc[blk] > 0
      <4>1. blk \in freed => touched' # {}
        BY DEF Read
      <4>2. rc[blk] \in Nat
        BY DEF Confined, HeapTypeOK
      <4> QED
        BY <4>1, <4>2 DEF Confined
    <3>3. blk \notin reach => rc'[blk] = rc[blk] /\ blk \notin freed' /\ refs' = refs /\ home' = home
      BY <1>1
    <3>4. what \in {"drop", "last"} => blk \in Shared
      BY DEF Confined, HeapTypeOK
    <3>5. blk \in Own(one)'
      BY <1>5, <2>1
    <3>6. /\ inside'[one].do = what /\ inside'[one].block = blk /\ inside'[one].seen = rc[blk]
          /\ reach' = reach /\ rc' = rc
      BY <3>1
    <3> QED
      BY <2>1, <3>2, <3>3, <3>4, <3>5, <3>6 DEF OperationFits, Counting
  <2>2. CASE one # thr
    <3>1. inside'[one] = inside[one]
      BY <1>3, <2>2 DEF Confined, HeapTypeOK
    <3>2. OperationFits(one)
      BY DEF Confined
    <3> QED
      BY <1>5, <3>1, <3>2 DEF OperationFits, Counting
  <2> QED
    BY <2>1, <2>2
<1>7. \A one \in Block : CountExact(one)' <=> CountExact(one)
  BY DEF CountExact
<1>8. HeapTypeOK'
  BY <1>2, <1>4 DEF Confined, HeapTypeOK, Block
<1> QED
  BY <1>2, <1>5, <1>6, <1>7, <1>8 DEF Confined

\* A store to the count of a block leaves every other one as it was.
LEMMA ElsewhereExact ==
  ASSUME HeapTypeOK, NEW blk, NEW one \in Block, one # blk, CountExact(one),
         NEW stored, rc' = [rc EXCEPT ![blk] = stored],
         freed' \cup {blk} = freed \cup {blk}, home' \cup {blk} = home \cup {blk},
         \A thr \in Thread : refs'[thr] \cup {blk} = refs[thr] \cup {blk}
  PROVE  CountExact(one)'
<1>1. rc'[one] = rc[one] /\ (one \in freed' <=> one \in freed)
  BY DEF HeapTypeOK
<1>2. {thr \in Thread : one \in refs'[thr]} = {thr \in Thread : one \in refs[thr]}
  <2>1. \A thr \in Thread : one \in refs'[thr] <=> one \in refs[thr]
    <3> TAKE thr \in Thread
    <3>1. refs'[thr] \cup {blk} = refs[thr] \cup {blk}
      OBVIOUS
    <3> QED
      BY <3>1
  <2> QED
    BY <2>1
<1>3. home' \cap {one} = home \cap {one}
  <2>1. one \in home' <=> one \in home
    OBVIOUS
  <2> QED
    BY <2>1
<1> QED
  BY <1>1, <1>2, <1>3 DEF CountExact

\* What the others are in the middle of is not disturbed by a store.
LEMMA OthersFit ==
  ASSUME Confined, touched = {}, NEW thr \in Thread, NEW blk \in Own(thr) \cap Block,
         NEW other \in Thread \ {thr},
         NEW stored, rc' = [rc EXCEPT ![blk] = stored], reach' = reach,
         freed' \cup {blk} = freed \cup {blk}, home' \cup {blk} = home \cup {blk},
         refs'[other] = refs[other], inside'[other] = inside[other]
  PROVE  OperationFits(other)'
<1>1. OperationFits(other) /\ Own(other)' = Own(other)
  BY DEF Confined, Own
<1>2. ASSUME Counting(other), inside[other].block \notin reach
      PROVE  inside[other].block # blk
  <2>1. inside[other].block \in Own(other) /\ inside[other].block \in Block
    BY <1>1, <1>2 DEF OperationFits, Counting, Confined, HeapTypeOK, Inside
  <2> QED
    BY <1>2, <2>1, OneOwner DEF Confined
<1> QED
  BY <1>1, <1>2 DEF OperationFits, Counting, Confined, HeapTypeOK

\* The store of a retain.
LEMMA RetainKeeps ==
  ASSUME Confined, MainFits, NEW thr \in Thread, FinishRetain(thr)
  PROVE  Confined' /\ MainFits'
<1>1. PICK blk \in Block : blk = inside[thr].block
  BY DEF Confined, HeapTypeOK, Inside
<1>2. /\ Counting(thr) /\ OperationFits(thr)
      /\ touched = {} /\ blk \in Own(thr) /\ inside[thr].seen \in Nat
  BY <1>1 DEF FinishRetain, Counting, Confined, OperationFits, ProcessRuns, HeapTypeOK, Inside
<1>3. /\ rc' = [rc EXCEPT ![blk] = inside[thr].seen + 1]
      /\ refs' = [refs EXCEPT ![thr] = @ \cup {blk}]
      /\ inside' = [inside EXCEPT ![thr] = Idle]
      /\ touched' = {blk} \cap freed
      /\ UNCHANGED <<reach, freed, home, stale, phase, queue>>
  BY <1>1 DEF FinishRetain
<1>4. \A one \in Thread : Own(one)' = Own(one)
  BY <1>3 DEF Own
<1>5. HeapTypeOK'
  <2>1. Idle \in Inside
    BY DEF Idle, Inside, Block, Shared
  <2> QED
    BY <1>2, <1>3, <2>1 DEF Confined, HeapTypeOK
<1>6. ASSUME NEW one \in Block \ reach
      PROVE  CountExact(one)'
  <2>1. CountExact(one)
    BY DEF Confined
  <2>2. CASE one # blk
    <3>1. \A any \in Thread : refs'[any] \cup {blk} = refs[any] \cup {blk}
      BY <1>3 DEF Confined, HeapTypeOK
    <3> QED
      BY <1>3, <2>1, <2>2, <3>1, ElsewhereExact DEF Confined
  <2>3. CASE one = blk
    <3>1. inside[thr].seen = rc[blk] /\ blk \notin refs[thr] /\ blk \notin freed
      BY <1>1, <1>2, <2>3 DEF OperationFits, Counting, FinishRetain
    <3>2. Owners(blk)' = Owners(blk) \cup {thr} /\ thr \notin Owners(blk)
      BY <1>3, <3>1 DEF Owners, Confined, HeapTypeOK
    <3>3. Cardinality(Owners(blk)') = Cardinality(Owners(blk)) + 1
      BY <3>2, OwnersFinite, FS_AddElement
    <3>4. rc[blk] = Cardinality(Owners(blk)) + Cardinality(home \cap {blk}) /\ rc[blk] \in Nat
      BY <2>1, <2>3 DEF CountExact, Owners, Confined, HeapTypeOK
    <3>5. rc'[blk] = rc[blk] + 1
      BY <1>3, <3>1 DEF Confined, HeapTypeOK
    <3>6. Cardinality(Owners(blk)) \in Nat /\ Cardinality(home \cap {blk}) \in Nat
      BY OwnersFinite, HomeCard
    <3>7. rc'[blk] = Cardinality(Owners(blk)') + Cardinality(home' \cap {blk})
      BY <1>3, <3>3, <3>4, <3>5, <3>6
    <3> QED
      BY <1>3, <2>3, <3>1, <3>4, <3>5, <3>7 DEF CountExact, Owners
  <2> QED
    BY <2>2, <2>3
<1>7. ASSUME NEW one \in Thread
      PROVE  refs'[one] \subseteq Own(one) /\ OperationFits(one)'
  <2>1. refs'[one] \subseteq Own(one)
    BY <1>2, <1>3 DEF Confined, HeapTypeOK
  <2>2. CASE one = thr
    <3>1. inside'[one] = Idle
      BY <1>3, <2>2 DEF Confined, HeapTypeOK
    <3> QED
      BY <2>1, <3>1 DEF OperationFits, Counting, Idle
  <2>3. CASE one # thr
    <3>1. refs'[one] = refs[one] /\ inside'[one] = inside[one]
      BY <1>3, <2>3 DEF Confined, HeapTypeOK
    <3> QED
      BY <1>2, <1>3, <2>1, <2>3, <3>1, OthersFit
  <2> QED
    BY <2>2, <2>3
<1>8. \A one \in reach : rc'[one] = 0 => one \in freed
  BY <1>2, <1>3 DEF Confined, HeapTypeOK
<1>9. touched' \subseteq reach
  BY <1>1, <1>2, <1>3 DEF OperationFits
<1>10. MainFits'
  <2>1. CASE thr = Main
    BY <1>3, <2>1 DEF MainFits, Confined, HeapTypeOK, Idle, FinishRetain
  <2>2. CASE thr # Main
    BY <1>3, <2>2, ThreadHeapAssumption DEF MainFits, Confined, HeapTypeOK, ThreadHeapAssumption
  <2> QED
    BY <2>1, <2>2
<1> QED
  BY <1>3, <1>4, <1>5, <1>6, <1>7, <1>8, <1>9, <1>10 DEF Confined

\* The store of a release, and what it frees.
LEMMA ReleaseKeeps ==
  ASSUME Confined, MainFits, NEW thr \in Thread, FinishRelease(thr)
  PROVE  Confined' /\ MainFits'
<1>1. PICK blk \in Block : blk = inside[thr].block
  BY DEF Confined, HeapTypeOK, Inside
<1>2. /\ Counting(thr) /\ OperationFits(thr)
      /\ touched = {} /\ blk \in Own(thr) /\ inside[thr].seen \in Nat
      /\ inside[thr].do \in {"drop", "last"} => thr = Main /\ blk \in Shared
  BY <1>1 DEF FinishRelease, Counting, Confined, OperationFits, ProcessRuns, HeapTypeOK, Inside
<1>3. inside[thr].seen > 0
  <2>1. CASE blk \in reach
    BY <1>1, <1>2, <2>1 DEF OperationFits
  <2>2. CASE blk \notin reach
    <3>1. inside[thr].seen = rc[blk] /\ blk \notin freed
      BY <1>1, <1>2, <2>2 DEF OperationFits
    <3>2. rc[blk] # 0
      BY <2>2, <3>1 DEF Confined, CountExact
    <3> QED
      BY <1>2, <3>1, <3>2
  <2> QED
    BY <2>1, <2>2
<1>4. /\ rc' = [rc EXCEPT ![blk] = inside[thr].seen - 1]
      /\ freed' = IF inside[thr].seen = 1 THEN freed \cup {blk} ELSE freed
      /\ touched' = {blk} \cap freed
      /\ inside' = [inside EXCEPT ![thr] = IF inside[thr].do = "drop"
                                           THEN [inside[thr] EXCEPT !.do = "overwrite"] ELSE Idle]
      /\ UNCHANGED <<reach, phase, queue>>
  BY <1>1 DEF FinishRelease
<1>5. \/ /\ inside[thr].do = "release"
         /\ refs' = [refs EXCEPT ![thr] = @ \ {blk}] /\ UNCHANGED <<home, stale>>
      \/ /\ inside[thr].do \in {"drop", "last"}
         /\ home' = home \ {blk} /\ stale' = stale \cup {blk} /\ refs' = refs
  BY <1>1 DEF FinishRelease
<1>6. /\ inside' \in [Thread -> Inside]
      /\ \/ inside'[thr] = Idle
         \/ inside[thr].do = "drop" /\ inside'[thr].do = "overwrite" /\ inside'[thr].block = blk
      /\ \A one \in Thread \ {thr} : inside'[one] = inside[one] /\ refs'[one] = refs[one]
  <2>1. Idle \in Inside
    BY DEF Idle, Inside, Block, Shared
  <2>2. [inside[thr] EXCEPT !.do = "overwrite"] \in Inside
    BY DEF Confined, HeapTypeOK, Inside
  <2>3. inside' \in [Thread -> Inside]
    BY <1>4, <2>1, <2>2 DEF Confined, HeapTypeOK
  <2>4. inside'[thr] = Idle \/ (inside[thr].do = "drop" /\ inside'[thr] = [inside[thr] EXCEPT !.do = "overwrite"])
    BY <1>4 DEF Confined, HeapTypeOK
  <2>5. inside[thr] \in Inside
    BY DEF Confined, HeapTypeOK
  <2>6. [inside[thr] EXCEPT !.do = "overwrite"].do = "overwrite"
        /\ [inside[thr] EXCEPT !.do = "overwrite"].block = blk
    BY <1>1, <2>5 DEF Inside
  <2> QED
    BY <1>4, <1>5, <2>3, <2>4, <2>6 DEF Confined, HeapTypeOK
<1>7. HeapTypeOK'
  <2>1. rc' \in [Block -> Nat] /\ freed' \subseteq Block /\ touched' \subseteq Block
    BY <1>2, <1>3, <1>4 DEF Confined, HeapTypeOK
  <2>2. home' \subseteq Shared /\ stale' \subseteq Shared /\ refs' \in [Thread -> SUBSET Block]
    BY <1>2, <1>5 DEF Confined, HeapTypeOK
  <2> QED
    BY <1>4, <1>6, <2>1, <2>2 DEF Confined, HeapTypeOK
<1>8. ASSUME NEW one \in Block \ reach
      PROVE  CountExact(one)'
  <2>1. CountExact(one)
    BY DEF Confined
  <2>2. CASE one # blk
    <3>1. \A any \in Thread : refs'[any] \cup {blk} = refs[any] \cup {blk}
      BY <1>5 DEF Confined, HeapTypeOK
    <3>2. freed' \cup {blk} = freed \cup {blk} /\ home' \cup {blk} = home \cup {blk}
      BY <1>4, <1>5
    <3> QED
      BY <1>4, <2>1, <2>2, <3>1, <3>2, ElsewhereExact DEF Confined
  <2>3. CASE one = blk
    <3>1. inside[thr].seen = rc[blk] /\ blk \notin freed
      BY <1>1, <1>2, <2>3 DEF OperationFits, Counting
    <3>2. rc[blk] = Cardinality(Owners(blk)) + Cardinality(home \cap {blk}) /\ rc[blk] \in Nat
      BY <2>1, <2>3 DEF CountExact, Owners, Confined, HeapTypeOK
    <3>3. rc'[blk] = rc[blk] - 1
      BY <1>4, <3>1 DEF Confined, HeapTypeOK
    <3>4. Cardinality(Owners(blk)) \in Nat /\ Cardinality(Owners(blk)') \in Nat
          /\ Cardinality(home \cap {blk}) \in Nat
      <4>1. Cardinality(Owners(blk)') \in Nat
        BY FS_Subset, FS_CardinalityType, ThreadHeapAssumption DEF ThreadHeapAssumption, Owners
      <4> QED
        BY <4>1, OwnersFinite, HomeCard
    <3>5. Cardinality(Owners(blk)') + Cardinality(home' \cap {blk})
            = Cardinality(Owners(blk)) + Cardinality(home \cap {blk}) - 1
      <4>1. CASE inside[thr].do = "release"
        <5>1. blk \in refs[thr] /\ refs' = [refs EXCEPT ![thr] = @ \ {blk}] /\ home' = home
          BY <1>1, <1>2, <1>5, <2>3, <4>1 DEF OperationFits
        <5>2. Owners(blk) = Owners(blk)' \cup {thr} /\ thr \notin Owners(blk)'
          BY <5>1 DEF Owners, Confined, HeapTypeOK
        <5>3. IsFiniteSet(Owners(blk)')
          BY FS_Subset, ThreadHeapAssumption DEF ThreadHeapAssumption, Owners
        <5>4. Cardinality(Owners(blk)) = Cardinality(Owners(blk)') + 1
          BY <5>2, <5>3, FS_AddElement
        <5> QED
          BY <3>4, <5>1, <5>4
      <4>2. CASE inside[thr].do \in {"drop", "last"}
        <5>1. blk \in home /\ home' = home \ {blk} /\ refs' = refs
          BY <1>1, <1>2, <1>5, <2>3, <4>2 DEF OperationFits
        <5>2. Owners(blk)' = Owners(blk)
          BY <5>1 DEF Owners
        <5>3. home' \cap {blk} = {}
          BY <5>1
        <5>4. Cardinality(home \cap {blk}) = 1 /\ Cardinality(home' \cap {blk}) = 0
          BY <5>1, <5>3, HomeCard, FS_EmptySet
        <5> QED
          BY <3>4, <5>2, <5>4
      <4> QED
        BY <1>5, <4>1, <4>2
    <3>6. blk \in freed' <=> rc'[blk] = 0
      BY <1>4, <3>1, <3>2, <3>3
    <3>7. rc'[blk] = Cardinality(Owners(blk)') + Cardinality(home' \cap {blk})
      BY <3>2, <3>3, <3>4, <3>5
    <3> QED
      BY <2>3, <3>6, <3>7 DEF CountExact, Owners
  <2> QED
    BY <2>2, <2>3
<1>9. ASSUME NEW one \in Thread
      PROVE  refs'[one] \subseteq Own(one) /\ OperationFits(one)' /\ Own(one)' = Own(one)
  <2>0. Own(one)' = Own(one)
    BY <1>4 DEF Own
  <2>1. refs'[one] \subseteq Own(one)
    BY <1>2, <1>5 DEF Confined, HeapTypeOK
  <2>2. CASE one = thr
    <3>1. CASE inside'[one] = Idle
      BY <2>0, <2>1, <3>1 DEF OperationFits, Counting, Idle
    <3>2. CASE inside[thr].do = "drop" /\ inside'[one].do = "overwrite" /\ inside'[one].block = blk
      BY <1>2, <2>0, <2>1, <2>2, <3>2 DEF OperationFits, Counting
    <3> QED
      BY <1>6, <2>2, <3>1, <3>2
  <2>3. CASE one # thr
    <3>1. freed' \cup {blk} = freed \cup {blk} /\ home' \cup {blk} = home \cup {blk} /\ reach' = reach
      BY <1>4, <1>5
    <3> QED
      BY <1>2, <1>4, <1>6, <2>0, <2>1, <2>3, <3>1, OthersFit
  <2> QED
    BY <2>2, <2>3
<1>10. \A one \in reach : rc'[one] = 0 => one \in freed'
  <2> TAKE one \in reach
  <2>1. CASE one = blk
    BY <1>2, <1>4, <2>1 DEF Confined, HeapTypeOK
  <2>2. CASE one # blk
    BY <1>4, <2>2 DEF Confined, HeapTypeOK
  <2> QED
    BY <2>1, <2>2
<1>11. touched' \subseteq reach
  BY <1>1, <1>2, <1>4 DEF OperationFits
<1>12. MainFits'
  <2>1. CASE thr = Main
    BY <1>1, <1>4, <1>5, <1>6, <2>1 DEF MainFits, Idle
  <2>2. CASE thr # Main
    <3>1. inside'[Main] = inside[Main] /\ stale' = stale
      BY <1>2, <1>5, <1>6, <2>2, ThreadHeapAssumption DEF ThreadHeapAssumption
    <3> QED
      BY <1>4, <3>1 DEF MainFits
  <2> QED
    BY <2>1, <2>2
<1>13. home' \subseteq reach \cup {"global"}
  BY <1>5 DEF Confined
<1> QED
  BY <1>4, <1>7, <1>8, <1>9, <1>10, <1>11, <1>12, <1>13 DEF Confined

\* A literal is counted once, for the thread that made it.
LEMMA AllocKeeps ==
  ASSUME Confined, MainFits, NEW thr \in Thread, Alloc(thr)
  PROVE  Confined' /\ MainFits'
<1>1. /\ thr \in Block /\ thr \notin reach /\ thr \notin home /\ thr \in Own(thr)
      /\ touched = {} /\ inside[thr] = Idle
  BY ThreadHeapAssumption DEF ThreadHeapAssumption, Block, Confined, HeapTypeOK, Own, Alloc, Runs, ProcessRuns
<1>2. Owners(thr) = {}
  <2>1. rc[thr] = 0 /\ rc[thr] = Cardinality(Owners(thr)) + Cardinality(home \cap {thr})
    BY <1>1 DEF Alloc, Confined, CountExact, Owners
  <2>2. Cardinality(home \cap {thr}) = 0 /\ Cardinality(Owners(thr)) \in Nat
    BY <1>1, HomeCard, OwnersFinite
  <2> QED
    BY <2>1, <2>2, OwnersFinite
<1>3. HeapTypeOK'
  BY <1>1 DEF Alloc, Confined, HeapTypeOK
<1>4. ASSUME NEW one \in Block \ reach
      PROVE  CountExact(one)'
  <2>1. CASE one # thr
    <3>1. \A any \in Thread : refs'[any] \cup {thr} = refs[any] \cup {thr}
      BY DEF Alloc, Confined, HeapTypeOK
    <3>2. freed' \cup {thr} = freed \cup {thr} /\ home' \cup {thr} = home \cup {thr}
      BY DEF Alloc
    <3> QED
      BY <2>1, <3>1, <3>2, ElsewhereExact DEF Confined, Alloc
  <2>2. CASE one = thr
    <3>1. Owners(thr)' = {thr}
      BY <1>2 DEF Owners, Alloc, Confined, HeapTypeOK
    <3>2. Cardinality(Owners(thr)') = 1
      BY <3>1, FS_Singleton
    <3>3. rc'[thr] = 1 /\ thr \notin freed' /\ home' = home
      BY <1>1 DEF Alloc, Confined, HeapTypeOK
    <3>4. Cardinality(home' \cap {thr}) = 0
      BY <1>1, <3>3, HomeCard
    <3> QED
      BY <2>2, <3>2, <3>3, <3>4 DEF CountExact, Owners
  <2> QED
    BY <2>1, <2>2
<1>5. ASSUME NEW one \in Thread
      PROVE  refs'[one] \subseteq Own(one) /\ OperationFits(one)' /\ Own(one)' = Own(one)
  <2>0. Own(one)' = Own(one)
    BY DEF Own, Alloc
  <2>1. refs'[one] \subseteq Own(one)
    BY <1>1 DEF Confined, HeapTypeOK, Alloc
  <2>2. CASE one = thr
    BY <1>1, <2>0, <2>1, <2>2 DEF OperationFits, Counting, Idle, Alloc
  <2>3. CASE one # thr
    <3>1. refs'[one] = refs[one] /\ inside'[one] = inside[one]
      BY <2>3 DEF Alloc, Confined, HeapTypeOK
    <3>2. freed' \cup {thr} = freed \cup {thr} /\ home' \cup {thr} = home \cup {thr} /\ reach' = reach
          /\ rc' = [rc EXCEPT ![thr] = 1]
      BY DEF Alloc
    <3> QED
      BY <1>1, <2>0, <2>1, <2>3, <3>1, <3>2, OthersFit
  <2> QED
    BY <2>2, <2>3
<1>6. \A one \in reach : rc'[one] = 0 => one \in freed'
  BY <1>1 DEF Alloc, Confined, HeapTypeOK
<1>7. MainFits'
  BY DEF MainFits, Alloc
<1> QED
  BY <1>3, <1>4, <1>5, <1>6, <1>7 DEF Confined, Alloc

\* What a step that only begins to count leaves of main's own.
LEMMA LoadMain ==
  ASSUME Confined, MainFits, NEW thr \in Thread, NEW blk,
         NEW what \in {"retain", "release", "drop", "last"},
         Read(thr, what, blk), UNCHANGED stale,
         thr = Main => /\ phase'[Main] = phase[Main] /\ inside[Main] = Idle
                       /\ phase[Main] = IF what = "last" THEN "leaving" ELSE "running",
         thr # Main => phase'[Main] = phase[Main]
  PROVE  MainFits'
<1>1. CASE thr = Main
  <2>1. inside'[Main].do = what
    BY <1>1 DEF Read, Confined, HeapTypeOK
  <2> QED
    BY <1>1, <2>1 DEF MainFits, Idle
<1>2. CASE thr # Main
  <2>1. inside'[Main] = inside[Main]
    BY <1>2, ThreadHeapAssumption DEF Read, Confined, HeapTypeOK, ThreadHeapAssumption
  <2> QED
    BY <1>2, <2>1 DEF MainFits
<1> QED
  BY <1>1, <1>2

\* Every step keeps what is out of reach exactly counted.
LEMMA ConfinedStep ==
  ASSUME Confined, MainFits, [HeapNext]_heapVars
  PROVE  Confined' /\ MainFits'
<1>0. Main \in Thread /\ Shared \cap Thread = {} /\ "int" \notin Block
  BY ThreadHeapAssumption DEF ThreadHeapAssumption, Shared, Block
<1>1. CASE UNCHANGED heapVars
  BY <1>1 DEF heapVars, Confined, MainFits, HeapTypeOK, Own, OperationFits, Counting, CountExact
<1>2. ASSUME NEW thr \in Thread, LoadGlobal(thr)
      PROVE  Confined' /\ MainFits'
  <2>1. "global" \in Own(thr) \cap Block /\ Runs(thr) /\ touched = {}
    BY <1>2 DEF LoadGlobal, Own, Block, Shared, Runs, ProcessRuns
  <2>2. "global" \notin reach => "global" \notin refs[thr] /\ "global" \in home
    <3>1. "global" \notin reach => thr = Main /\ stale = {}
      BY <1>2, <2>1 DEF LoadGlobal, MainFits, Runs, Idle
    <3> QED
      BY <1>2, <3>1 DEF LoadGlobal
  <2>3. Confined'
    BY <1>2, <2>1, <2>2, LoadKeeps DEF LoadGlobal, Confined, HeapTypeOK
  <2>4. MainFits'
    BY <1>2, <2>1, LoadMain DEF LoadGlobal, Runs
  <2> QED
    BY <2>3, <2>4
<1>3. ASSUME NEW thr \in Thread, NEW blk \in refs[thr], Runs(thr), Read(thr, "release", blk),
             UNCHANGED <<reach, rc, freed, home, stale, refs>>, queue' \subseteq {"int"},
             phase' \in [Thread -> {"unborn", "spawned", "running", "leaving", "exited"}],
             phase'[Main] = phase[Main]
      PROVE  Confined' /\ MainFits'
  <2>1. blk \in Own(thr) \cap Block /\ touched = {}
    BY <1>3 DEF Confined, HeapTypeOK, Runs, ProcessRuns
  <2>2. Confined'
    BY <1>3, <2>1, LoadKeeps
  <2>3. MainFits'
    BY <1>3, LoadMain DEF Runs
  <2> QED
    BY <2>2, <2>3
<1>4. ASSUME NEW thr \in Thread, ReleaseValue(thr)
      PROVE  Confined' /\ MainFits'
  BY <1>3, <1>4 DEF ReleaseValue, Confined, HeapTypeOK
<1>5. ASSUME NEW thr \in Thread, NEW val \in Block \cup {"int"}, Send(thr, val)
      PROVE  Confined' /\ MainFits'
  <2>1. queue' \subseteq {"int"}
    BY <1>5 DEF Send, Sendable, Confined
  <2>2. CASE val \in Block
    BY <1>0, <1>3, <1>5, <2>1, <2>2 DEF Send, Confined, HeapTypeOK
  <2>3. CASE val \notin Block
    BY <1>5, <2>1, <2>3, ControlKeeps DEF Send, Confined, HeapTypeOK, MainFits
  <2> QED
    BY <2>2, <2>3
<1>6. ASSUME NEW thr \in Thread, Recv(thr)
      PROVE  Confined' /\ MainFits'
  <2>1. refs' = refs
    <3>1. queue \cap Block = {}
      BY <1>0 DEF Confined
    <3>2. refs' = [refs EXCEPT ![thr] = refs[thr]]
      BY <1>6, <3>1 DEF Recv
    <3> QED
      BY <3>2 DEF Confined, HeapTypeOK
  <2> QED
    BY <1>6, <2>1, ControlKeeps DEF Recv, Confined, HeapTypeOK, MainFits
<1>7. ASSUME NEW blk \in Shared, DropVariable(blk) \/ ReleaseLast(blk)
      PROVE  Confined' /\ MainFits'
  <2>1. blk \in Own(Main) \cap Block /\ touched = {} /\ blk \in home
    BY <1>7 DEF DropVariable, ReleaseLast, Own, Block, Confined, Runs, ProcessRuns
  <2>2. PICK what \in {"drop", "last"} :
          /\ Read(Main, what, blk) /\ UNCHANGED <<reach, rc, freed, home, stale, refs, phase, queue>>
          /\ inside[Main] = Idle
          /\ phase[Main] = IF what = "last" THEN "leaving" ELSE "running"
    BY <1>7 DEF DropVariable, ReleaseLast, Runs
  <2>3. Confined'
    BY <1>0, <2>1, <2>2, LoadKeeps DEF Confined, HeapTypeOK
  <2>4. MainFits'
    BY <1>0, <2>2, LoadMain
  <2> QED
    BY <2>3, <2>4
<1>8. CASE Overwrite
  <2>1. /\ inside' = [inside EXCEPT ![Main] = Idle] /\ inside[Main].block \in Shared
        /\ UNCHANGED <<reach, rc, freed, home, refs, phase, queue, touched>>
        /\ stale' = stale \ {inside[Main].block}
    BY <1>0, <1>8 DEF Overwrite, Confined, OperationFits
  <2>2. inside' \in [Thread -> Inside] /\ inside'[Main] = Idle
    BY <1>0, <2>1 DEF Confined, HeapTypeOK, Idle, Inside, Block, Shared
  <2>3. HeapTypeOK'
    BY <2>1, <2>2 DEF Confined, HeapTypeOK
  <2>4. ASSUME NEW one \in Thread
        PROVE  OperationFits(one)' /\ Own(one)' = Own(one)
    <3>1. Own(one)' = Own(one)
      BY <2>1 DEF Own
    <3>2. CASE one = Main
      BY <2>2, <3>1, <3>2 DEF OperationFits, Counting, Idle
    <3>3. CASE one # Main
      <4>1. inside'[one] = inside[one]
        BY <2>1, <3>3 DEF Confined, HeapTypeOK
      <4> QED
        BY <2>1, <3>1, <4>1 DEF OperationFits, Counting, Confined
    <3> QED
      BY <3>2, <3>3
  <2>5. \A one \in Block : CountExact(one)' <=> CountExact(one)
    BY <2>1 DEF CountExact
  <2>6. MainFits'
    <3>1. stale' = {}
      <4>1. stale \subseteq {inside[Main].block}
        BY <1>8 DEF MainFits, Overwrite
      <4> QED
        BY <2>1, <4>1
    <3> QED
      BY <2>1, <2>2, <3>1 DEF MainFits, Idle
  <2> QED
    BY <2>1, <2>3, <2>4, <2>5, <2>6 DEF Confined
<1>9. CASE EndMain
  <2>1. phase' \in [Thread -> {"unborn", "spawned", "running", "leaving", "exited"}] /\ phase'[Main] = "leaving"
    BY <1>0, <1>9 DEF EndMain, Confined, HeapTypeOK
  <2>2. Confined'
    BY <1>9, <2>1, ControlKeeps DEF EndMain, Confined, HeapTypeOK
  <2> QED
    BY <1>9, <2>1, <2>2 DEF EndMain, MainFits, Runs, Idle
<1>10. ASSUME NEW thr \in Thread, Spawn(thr) \/ ThreadExit(thr)
       PROVE  Confined' /\ MainFits'
  <2>1. phase' \in [Thread -> {"unborn", "spawned", "running", "leaving", "exited"}]
    BY <1>10 DEF Spawn, ThreadExit, Confined, HeapTypeOK
  <2>2. Confined'
    BY <1>10, <2>1, ControlKeeps DEF Spawn, ThreadExit, Confined, HeapTypeOK
  <2>3. phase'[Main] = phase[Main] \/ (phase'[Main] = "exited" /\ inside[Main] = Idle)
    BY <1>0, <1>10 DEF Spawn, ThreadExit, Confined, HeapTypeOK, Runs
  <2> QED
    BY <1>10, <2>2, <2>3 DEF Spawn, ThreadExit, MainFits, Idle
<1>11. ASSUME NEW thr \in Thread, Begin(thr) \/ LeaveBody(thr)
       PROVE  Confined' /\ MainFits'
  <2>1. /\ phase' \in [Thread -> {"unborn", "spawned", "running", "leaving", "exited"}]
        /\ touched = {} /\ thr # Main /\ phase'[Main] = phase[Main]
        /\ UNCHANGED <<reach, rc, freed, home, stale, refs, queue>>
    BY <1>0, <1>11 DEF Begin, LeaveBody, Runs, Confined, HeapTypeOK, ProcessRuns, MainFits
  <2>2. CASE "env" \in reach
    <3>1. PICK what \in {"retain", "release"} : Read(thr, what, "env")
      BY <1>11, <2>2 DEF Begin, LeaveBody
    <3>2. "env" \in Own(thr) \cap Block
      BY <2>2 DEF Own, Block, Shared
    <3>3. Confined'
      BY <2>1, <2>2, <3>1, <3>2, LoadKeeps DEF Confined
    <3> QED
      BY <2>1, <3>1, <3>3, LoadMain
  <2>3. CASE "env" \notin reach
    BY <1>11, <2>1, <2>3, ControlKeeps DEF Begin, LeaveBody, Confined, HeapTypeOK, MainFits
  <2> QED
    BY <2>2, <2>3
<1> QED
  BY <1>1, <1>2, <1>4, <1>5, <1>6, <1>7, <1>8, <1>9, <1>10, <1>11, RetainKeeps, ReleaseKeeps, AllocKeeps DEF HeapNext

\* What 2026-07-21-std-thread-design.md:60-70 promises, for any number of
\* threads and every interleaving of their loads and stores: blocks that no
\* spawned body gets at through a global or its env are counted exactly, and
\* nobody uses one of them after it was freed.
THEOREM ConfinedCounts == Spec => []CountsConfined
<1>1. Init => Confined /\ MainFits
  BY ConfinedInit, ConfinedEnd DEF Init
<1>2. Confined /\ MainFits /\ [Next]_vars => Confined' /\ MainFits'
  <2>1. [Next]_vars => [HeapNext]_heapVars
    BY DEF Next, vars, CallStep, StringStep, NumberStep, VariantStep, IoStep, HeapStep
  <2> QED
    BY <2>1, ConfinedStep
<1>3. Confined => CountsConfined
  BY DEF Confined, CountsConfined
<1> QED
  BY <1>1, <1>2, <1>3, PTL DEF Spec

(***************************************************************************)
(* Tagged unions.                                                          *)
(***************************************************************************)

Names(ch) == {p[1] : p \in Pairs(ch)}

\* An entry the compiler makes for a variant of a choice.
Entry(ch, e) == ch \in DOMAIN AllChoices /\ \E v \in Names(ch) : e = Numbered(ch)[v]
IsEntry(e)   == \E ch \in DOMAIN AllChoices : Entry(ch, e)

\* The table holds entries under their own names, and Err's always.
TableInv ==
  /\ declared \in DOMAIN AllChoices
  /\ \A v \in Variant : variants[v] = None \/ (IsEntry(variants[v]) /\ variants[v].name = v)
  /\ IsEntry(variants["Err"])

ValueIs(x) == x \in {Nil, Str} \/ \E e : IsEntry(e) /\ x = [tag |-> "enum", v |-> e]

\* What was compiled: arms of different variants.
CodeIs(c) ==
  c # None =>
    /\ c.arms \in Seq(Info) /\ Len(c.arms) <= MaxArms /\ c.otherwise \in BOOLEAN
    /\ \A m \in 1 .. Len(c.arms) : IsEntry(c.arms[m])
    /\ \A m, n \in 1 .. Len(c.arms) : c.arms[m].name = c.arms[n].name => m = n

\* The arms before the k-th do not match.
PassedBy(k) == \A m \in 1 .. Len(code.arms) : m < k => code.arms[m].id # value.v.id

Running ==
  /\ at \in Nat
  /\ at # 0 =>
       /\ outcome = Nothing
       /\ code # None /\ at \in 1 .. Len(code.arms) /\ value.tag = "enum"
       /\ PassedBy(at)

\* The arm that ran is the first with the variant_id of the value.
Ran ==
  outcome.op = "match" /\ value.tag = "enum" =>
    /\ code # None
    /\ \/ /\ outcome.arm \in 1 .. Len(code.arms)
          /\ code.arms[outcome.arm].id = value.v.id
          /\ outcome.reads = code.arms[outcome.arm].n
       \/ /\ outcome.arm = 0 /\ outcome.reads = 0
          /\ PassedBy(Len(code.arms) + 1)

VariantInv ==
  /\ TableInv
  /\ ValueIs(value) /\ failed \in {"yes", "no", "other"}
  /\ CodeIs(code)
  /\ Running
  /\ outcome \in Decided
  /\ Ran

\* The place of a variant in its choice.
PlaceOf(ch, v, k) ==
  /\ k \in 1 .. Len(AllChoices[ch].variants)
  /\ AllChoices[ch].variants[k][1] = v
  /\ Numbered(ch)[v] = [choice |-> AllChoices[ch].choice, name |-> v,
                        id |-> k - 1, n |-> AllChoices[ch].variants[k][2]]

\* Every variant has a place, which gives its variant_id.
LEMMA PlaceThere ==
  ASSUME NEW ch \in DOMAIN AllChoices, NEW v \in Names(ch)
  PROVE  \E k : PlaceOf(ch, v, k)
<1>1. PICK w : w = AllChoices[ch].variants
  OBVIOUS
<1>2. w \in Seq(Pairs(ch)) /\ Pairs(ch) = {w[k] : k \in DOMAIN w}
  BY <1>1, VariantsAssumption DEF VariantsAssumption, Pairs, ToSet
<1>3. DOMAIN w = 1 .. Len(w)
  BY <1>2
<1>4. \E k \in DOMAIN w : w[k][1] = v
  BY <1>2 DEF Names
<1>5. PICK k : k = CHOOSE j \in DOMAIN w : w[j][1] = v
  OBVIOUS
<1>6. k \in DOMAIN w /\ w[k][1] = v
  BY <1>4, <1>5
<1>7. Numbered(ch)[v] = [choice |-> AllChoices[ch].choice, name |-> v, id |-> k - 1, n |-> w[k][2]]
  BY <1>1, <1>5 DEF Numbered, Names, Id
<1> QED
  BY <1>1, <1>3, <1>6, <1>7 DEF PlaceOf

\* The first choice is Result, and each choice has its place in the list.
LEMMA ChoicesAre ==
  /\ AllChoices \in Seq({Builtin} \cup ToSet(Decls))
  /\ DOMAIN AllChoices = 1 .. Len(AllChoices) /\ Len(AllChoices) \in Nat
  /\ 1 \in DOMAIN AllChoices /\ AllChoices[1] = Builtin
  /\ "Err" \in Names(1) /\ "Err" \in Variant
<1>1. Decls \in Seq(ToSet(Decls))
  BY VariantsAssumption DEF VariantsAssumption
<1>2. PICK S : S = {Builtin} \cup ToSet(Decls)
  OBVIOUS
<1>3. <<Builtin>> \in Seq(S) /\ Len(<<Builtin>>) = 1 /\ <<Builtin>>[1] = Builtin
  BY <1>2
<1>4. Decls \in Seq(S)
  BY <1>1, <1>2
<1>5. AllChoices \in Seq(S) /\ Len(AllChoices) = 1 + Len(Decls) /\ AllChoices[1] = Builtin
  BY <1>3, <1>4 DEF AllChoices
<1>6. DOMAIN AllChoices = 1 .. Len(AllChoices) /\ Len(AllChoices) \in Nat /\ 1 \in DOMAIN AllChoices
  BY <1>4, <1>5
<1>7. Builtin.variants = <<<<"Ok", 1>>, <<"Err", 2>>>>
  BY DEF Builtin
<1>8. <<"Err", 2>> \in Pairs(1)
  BY <1>5, <1>7 DEF Pairs, ToSet
<1>9. "Err" \in Names(1)
  BY <1>8 DEF Names
<1> QED
  BY <1>2, <1>5, <1>6, <1>9 DEF Names, Variant

\* What an entry says of its variant.
LEMMA EntryIs ==
  ASSUME NEW ch \in DOMAIN AllChoices, NEW v \in Names(ch)
  PROVE  /\ Numbered(ch)[v] \in Info
         /\ Numbered(ch)[v].name = v
         /\ Numbered(ch)[v].choice = AllChoices[ch].choice
         /\ v \in Variant
<1>1. PICK k : PlaceOf(ch, v, k)
  BY PlaceThere
<1>2. PICK w : w = AllChoices[ch].variants
  OBVIOUS
<1>3. w \in Seq(Pairs(ch))
  BY <1>2, VariantsAssumption DEF VariantsAssumption
<1>4. k \in 1 .. Len(w) /\ Len(w) \in Nat
  BY <1>1, <1>2, <1>3 DEF PlaceOf
<1>5. w[k] \in Pairs(ch)
  BY <1>3, <1>4, ElementOfSeq
<1>6. w[k][2] \in Field
  BY <1>5, VariantsAssumption DEF VariantsAssumption
<1>7. v \in Variant
  BY DEF Variant, Names
<1>8. k - 1 \in Nat
  BY <1>4
<1>9. Numbered(ch)[v] = [choice |-> AllChoices[ch].choice, name |-> v, id |-> k - 1, n |-> w[k][2]]
  BY <1>1, <1>2 DEF PlaceOf
<1>10. AllChoices[ch].choice \in Choice
  BY DEF Choice
<1> QED
  BY <1>6, <1>7, <1>8, <1>9, <1>10 DEF Info

\* Within a choice the variant_id and the name say the same.
LEMMA IdsApart ==
  ASSUME NEW x, IsEntry(x), NEW y, IsEntry(y), x.choice = y.choice
  PROVE  (x.id = y.id \/ x.name = y.name) => x = y
<1>1. PICK ch \in DOMAIN AllChoices : \E v \in Names(ch) : x = Numbered(ch)[v]
  BY DEF IsEntry, Entry
<1>2. PICK v \in Names(ch) : x = Numbered(ch)[v]
  BY <1>1
<1>3. PICK dh \in DOMAIN AllChoices : \E u \in Names(dh) : y = Numbered(dh)[u]
  BY DEF IsEntry, Entry
<1>4. PICK u \in Names(dh) : y = Numbered(dh)[u]
  BY <1>3
<1>5. x.name = v /\ x.choice = AllChoices[ch].choice /\ y.name = u /\ y.choice = AllChoices[dh].choice
  BY <1>2, <1>4, EntryIs
<1>6. dh = ch
  BY <1>5, VariantsAssumption DEF VariantsAssumption
<1>7. CASE x.name = y.name
  BY <1>2, <1>4, <1>5, <1>6, <1>7
<1>8. CASE x.id = y.id
  <2>1. PICK k : PlaceOf(ch, v, k)
    BY PlaceThere
  <2>2. PICK j : PlaceOf(ch, u, j)
    BY <1>6, PlaceThere
  <2>3. x.id = k - 1 /\ y.id = j - 1
    BY <1>2, <1>4, <1>6, <2>1, <2>2 DEF PlaceOf
  <2>4. k \in Int /\ j \in Int
    <3>1. AllChoices[ch].variants \in Seq(Pairs(ch))
      BY VariantsAssumption DEF VariantsAssumption
    <3>2. Len(AllChoices[ch].variants) \in Nat
      BY <3>1
    <3> QED
      BY <2>1, <2>2, <3>2 DEF PlaceOf
  <2>5. k = j
    <3>1. k - 1 = j - 1
      BY <1>8, <2>3
    <3> QED
      BY <2>4, <3>1
  <2>6. v = u
    BY <2>1, <2>2, <2>5 DEF PlaceOf
  <2> QED
    BY <1>2, <1>4, <1>6, <2>6
<1> QED
  BY <1>7, <1>8

\* The entries are typed.
LEMMA EntriesTyped ==
  ASSUME NEW x, IsEntry(x)
  PROVE  x \in Info /\ x.name \in Variant
BY EntryIs DEF IsEntry, Entry

\* Registering a choice keeps the table.
LEMMA RegisterKeeps ==
  ASSUME NEW table, NEW ch \in DOMAIN AllChoices, NEW to, to = Register(table, ch),
         \A v \in Variant : table[v] = None \/ (IsEntry(table[v]) /\ table[v].name = v),
         ch = 1 \/ IsEntry(table["Err"])
  PROVE  /\ \A v \in Variant : to[v] = None \/ (IsEntry(to[v]) /\ to[v].name = v)
         /\ IsEntry(to["Err"])
<1>1. \A v \in Variant : to[v] = IF v \in Names(ch) THEN Numbered(ch)[v] ELSE table[v]
  <2>1. DOMAIN Numbered(ch) = Names(ch)
    BY DEF Numbered, Names
  <2> QED
    BY <2>1 DEF Register
<1>2. \A v \in Names(ch) : IsEntry(Numbered(ch)[v]) /\ Numbered(ch)[v].name = v
  BY EntryIs DEF IsEntry, Entry
<1>3. \A v \in Variant : to[v] = None \/ (IsEntry(to[v]) /\ to[v].name = v)
  BY <1>1, <1>2
<1>4. IsEntry(to["Err"])
  <2>1. CASE "Err" \in Names(ch)
    BY <1>1, <1>2, <2>1, ChoicesAre
  <2>2. CASE "Err" \notin Names(ch)
    <3>1. ch # 1
      BY <2>2, ChoicesAre
    <3>2. to["Err"] = table["Err"]
      BY <1>1, <2>2, ChoicesAre
    <3> QED
      BY <3>1, <3>2
  <2> QED
    BY <2>1, <2>2
<1> QED
  BY <1>3, <1>4

\* The table of the built-in Result, and no match.
LEMMA VariantInitInv ==
  ASSUME declared = 1, variants = Register([v \in Variant |-> None], 1), value = Nil,
         failed \in {"yes", "no", "other"}, at = 0,
         \/ code = None /\ outcome = Nothing
         \/ code = [arms |-> <<>>, otherwise |-> FALSE] /\ outcome = Aborted
  PROVE  VariantInv
<1>1. TableInv
  <2>1. 1 \in DOMAIN AllChoices
    BY ChoicesAre
  <2>2. PICK table : table = [v \in Variant |-> None]
    OBVIOUS
  <2>3. \A v \in Variant : table[v] = None
    BY <2>2
  <2>4. variants = Register(table, 1)
    BY <2>2
  <2>5. /\ \A v \in Variant : variants[v] = None \/ (IsEntry(variants[v]) /\ variants[v].name = v)
        /\ IsEntry(variants["Err"])
    BY <2>1, <2>3, <2>4, RegisterKeeps
  <2> QED
    BY <2>1, <2>5 DEF TableInv
<1>2. CodeIs(code)
  <2>1. CASE code = None
    BY <2>1 DEF CodeIs
  <2>2. CASE code = [arms |-> <<>>, otherwise |-> FALSE]
    <3>1. code.arms = <<>> /\ code.otherwise = FALSE
      BY <2>2
    <3>2. <<>> \in Seq(Info) /\ Len(<<>>) = 0 /\ 1 .. 0 = {}
      OBVIOUS
    <3>3. 0 <= MaxArms
      BY VariantsAssumption DEF VariantsAssumption
    <3> QED
      BY <3>1, <3>2, <3>3 DEF CodeIs
  <2> QED
    BY <2>1, <2>2
<1>3. outcome \in Decided /\ outcome.op # "match"
  BY DEF Decided, Nothing, Aborted
<1> QED
  BY <1>1, <1>2, <1>3 DEF VariantInv, ValueIs, Running, Ran

\* A step that decides no match and leaves table and match alone.
LEMMA VariantRest ==
  ASSUME VariantInv, UNCHANGED <<declared, variants, code, at>>, at = 0,
         ValueIs(value'), failed' \in {"yes", "no", "other"},
         outcome' \in Decided, outcome'.op # "match"
  PROVE  VariantInv'
<1>1. TableInv'
  BY DEF VariantInv, TableInv
<1> QED
  BY <1>1 DEF VariantInv, Running, Ran

\* gen_choice.
LEMMA GenChoiceKeeps ==
  ASSUME VariantInv, GenChoice
  PROVE  VariantInv'
<1>1. /\ at = 0 /\ declared < Len(AllChoices) /\ declared' = declared + 1
      /\ variants' = Register(variants, declared + 1)
      /\ UNCHANGED <<value, failed, code, at, outcome>>
  BY DEF GenChoice, Between
<1>2. declared + 1 \in DOMAIN AllChoices
  BY <1>1, ChoicesAre DEF VariantInv, TableInv
<1>3. PICK ch \in DOMAIN AllChoices : ch = declared + 1
  BY <1>2
<1>4. /\ \A v \in Variant : variants[v] = None \/ (IsEntry(variants[v]) /\ variants[v].name = v)
      /\ IsEntry(variants["Err"])
  BY DEF VariantInv, TableInv
<1>5. PICK to : to = Register(variants, ch)
  OBVIOUS
<1>6. /\ \A v \in Variant : to[v] = None \/ (IsEntry(to[v]) /\ to[v].name = v)
      /\ IsEntry(to["Err"])
  BY <1>4, <1>5, RegisterKeeps
<1>7. TableInv'
  BY <1>1, <1>2, <1>3, <1>5, <1>6 DEF TableInv
<1> QED
  BY <1>1, <1>7 DEF VariantInv, Running, Ran, PassedBy

\* The compilation of a match.
LEMMA CompileMatchKeeps ==
  ASSUME VariantInv, NEW names \in Arms, NEW otherwise \in BOOLEAN,
         CompileMatch(names, otherwise)
  PROVE  VariantInv'
<1>1. /\ at = 0 /\ \A k \in DOMAIN names : variants[names[k]] # None
      /\ code' = [arms |-> [k \in DOMAIN names |-> variants[names[k]]], otherwise |-> otherwise]
      /\ outcome' = Nothing
      /\ UNCHANGED <<declared, variants, value, failed, at>>
  BY DEF CompileMatch, Between
<1>2. PICK len \in 0 .. MaxArms : names \in [1 .. len -> Variant]
  BY DEF Arms
<1>3. \A m, n \in DOMAIN names : names[m] = names[n] => m = n
  BY DEF Arms, IsInjective
<1>4. len \in Nat /\ len <= MaxArms /\ DOMAIN names = 1 .. len
  BY <1>2, VariantsAssumption DEF VariantsAssumption
<1>5. PICK w : w = [k \in 1 .. len |-> variants[names[k]]]
  OBVIOUS
<1>6. code'.arms = w /\ code'.otherwise = otherwise
  BY <1>1, <1>4, <1>5
<1>7. \A k \in 1 .. len : IsEntry(w[k]) /\ w[k].name = names[k]
  BY <1>1, <1>2, <1>4, <1>5 DEF VariantInv, TableInv
<1>8. \A k \in 1 .. len : w[k] \in Info
  BY <1>7, EntriesTyped
<1>9. w \in Seq(Info) /\ Len(w) = len
  BY <1>4, <1>5, <1>8
<1>10. CodeIs(code')
  BY <1>3, <1>4, <1>6, <1>7, <1>9 DEF CodeIs
<1>11. outcome' \in Decided /\ outcome'.op # "match"
  BY <1>1 DEF Decided, Nothing
<1>12. TableInv'
  BY <1>1 DEF VariantInv, TableInv
<1> QED
  BY <1>1, <1>10, <1>11, <1>12 DEF VariantInv, Running, Ran

\* A match that no arm takes.
LEMMA NoMatchKeeps ==
  ASSUME VariantInv, code # None, NoMatch,
         UNCHANGED <<declared, variants, value, failed, code>>,
         value.tag = "enum" => PassedBy(Len(code.arms) + 1)
  PROVE  VariantInv'
<1>1. /\ at' = 0
      /\ \/ outcome' = Aborted
         \/ outcome' = [op |-> "match", arm |-> 0, reads |-> 0]
  BY DEF NoMatch
<1>2. outcome' \in Decided
  <2>1. 0 \in 0 .. MaxArms /\ 0 \in Field
    BY VariantsAssumption DEF VariantsAssumption, Field
  <2> QED
    BY <1>1, <2>1 DEF Decided
<1>3. Ran'
  <2>1. CASE outcome' = Aborted
    BY <2>1 DEF Aborted, Ran
  <2>2. CASE outcome' = [op |-> "match", arm |-> 0, reads |-> 0]
    BY <2>2 DEF Ran, PassedBy
  <2> QED
    BY <1>1, <2>1, <2>2
<1>4. Running'
  BY <1>1 DEF Running
<1>5. TableInv'
  BY DEF VariantInv, TableInv
<1> QED
  BY <1>2, <1>3, <1>4, <1>5 DEF VariantInv

\* The test of the tag.
LEMMA DispatchKeeps ==
  ASSUME VariantInv, Dispatch
  PROVE  VariantInv'
<1>1. at = 0 /\ code # None /\ UNCHANGED <<declared, variants, value, failed, code>>
  BY DEF Dispatch, Between
<1>2. code.arms \in Seq(Info) /\ Len(code.arms) \in Nat
  BY <1>1 DEF VariantInv, CodeIs
<1>3. CASE value.tag = "enum" /\ code.arms # <<>>
  <2>1. at' = 1 /\ outcome' = Nothing
    BY <1>3 DEF Dispatch
  <2>2. 1 \in 1 .. Len(code.arms)
    BY <1>2, <1>3
  <2>3. PassedBy(1)
    BY <1>2 DEF PassedBy
  <2>4. Running'
    BY <1>1, <1>3, <2>1, <2>2, <2>3 DEF Running, PassedBy
  <2>5. outcome' \in Decided /\ outcome'.op # "match"
    BY <2>1 DEF Decided, Nothing
  <2>6. TableInv'
    BY <1>1 DEF VariantInv, TableInv
  <2> QED
    BY <1>1, <2>4, <2>5, <2>6 DEF VariantInv, Ran
<1>4. CASE ~(value.tag = "enum" /\ code.arms # <<>>)
  <2>1. NoMatch
    BY <1>4 DEF Dispatch
  <2>2. value.tag = "enum" => PassedBy(Len(code.arms) + 1)
    BY <1>4 DEF PassedBy
  <2> QED
    BY <1>1, <2>1, <2>2, NoMatchKeeps
<1> QED
  BY <1>3, <1>4

\* The comparison of an arm.
LEMMA TestArmKeeps ==
  ASSUME VariantInv, TestArm
  PROVE  VariantInv'
<1>1. at # 0 /\ UNCHANGED <<declared, variants, value, failed, code>>
  BY DEF TestArm
<1>2. /\ outcome = Nothing
      /\ code # None /\ at \in 1 .. Len(code.arms) /\ value.tag = "enum"
      /\ PassedBy(at)
  BY <1>1 DEF VariantInv, Running
<1>3. /\ code.arms \in Seq(Info) /\ Len(code.arms) \in Nat /\ Len(code.arms) <= MaxArms
      /\ at \in Nat
  BY <1>2 DEF VariantInv, CodeIs, Running
<1>4. code.arms[at] \in Info
  BY <1>2, <1>3, ElementOfSeq
<1>5. TableInv'
  BY <1>1 DEF VariantInv, TableInv
<1>6. CASE Matches(code.arms[at])
  <2>1. outcome' = [op |-> "match", arm |-> at, reads |-> code.arms[at].n] /\ at' = 0
    BY <1>6 DEF TestArm
  <2>2. code.arms[at].id = value.v.id
    BY <1>6 DEF Matches
  <2>3. code.arms[at].n \in Field /\ at \in 0 .. MaxArms
    BY <1>2, <1>3, <1>4, VariantsAssumption DEF Info, VariantsAssumption
  <2>4. outcome' \in Decided
    BY <2>1, <2>3 DEF Decided
  <2>5. outcome'.arm = at /\ outcome'.reads = code.arms[at].n
    BY <2>1
  <2>6. Ran'
    BY <1>1, <1>2, <2>2, <2>5 DEF Ran
  <2>7. Running'
    BY <2>1 DEF Running
  <2> QED
    BY <1>1, <1>5, <2>4, <2>6, <2>7 DEF VariantInv
<1>7. CASE ~Matches(code.arms[at]) /\ MoreArms
  <2>1. at' = at + 1 /\ UNCHANGED outcome
    BY <1>7 DEF TestArm
  <2>2. at < Len(code.arms) /\ code.arms[at].id # value.v.id
    BY <1>7 DEF MoreArms, Matches
  <2>3. at + 1 \in 1 .. Len(code.arms) /\ at + 1 \in Nat /\ at + 1 # 0
    BY <1>3, <2>2
  <2>4. PassedBy(at + 1)
    <3> SUFFICES ASSUME NEW m \in 1 .. Len(code.arms), m < at + 1
                 PROVE  code.arms[m].id # value.v.id
      BY DEF PassedBy
    <3>1. m < at \/ m = at
      BY <1>3
    <3> QED
      BY <1>2, <2>2, <3>1 DEF PassedBy
  <2>5. Running'
    BY <1>1, <1>2, <2>1, <2>3, <2>4 DEF Running, PassedBy
  <2>6. outcome'.op # "match" /\ outcome' \in Decided
    BY <1>2, <2>1 DEF Nothing, Decided
  <2> QED
    BY <1>1, <1>5, <2>5, <2>6 DEF VariantInv, Ran
<1>8. CASE ~Matches(code.arms[at]) /\ ~MoreArms
  <2>1. NoMatch
    BY <1>8 DEF TestArm
  <2>2. PassedBy(Len(code.arms) + 1)
    <3> SUFFICES ASSUME NEW m \in 1 .. Len(code.arms)
                 PROVE  code.arms[m].id # value.v.id
      BY DEF PassedBy
    <3>1. m < at \/ m = at
      BY <1>2, <1>3, <1>8 DEF MoreArms
    <3> QED
      BY <1>2, <1>8, <3>1 DEF PassedBy, Matches
  <2> QED
    BY <1>1, <1>2, <2>1, <2>2, NoMatchKeeps
<1> QED
  BY <1>6, <1>7, <1>8

\* Every step on variants keeps the invariant.
LEMMA VariantStepKeeps ==
  ASSUME VariantInv, [VariantNext]_variantVars
  PROVE  VariantInv'
<1>1. CASE GenChoice
  BY <1>1, GenChoiceKeeps
<1>2. ASSUME NEW v \in Variant, BuildVariant(v) PROVE VariantInv'
  <2>1. /\ at = 0 /\ variants[v] # None /\ value' = [tag |-> "enum", v |-> variants[v]]
        /\ failed' = "other" /\ outcome' = Nothing
        /\ UNCHANGED <<declared, variants, code, at>>
    BY <1>2 DEF BuildVariant, Between
  <2>2. IsEntry(variants[v])
    BY <2>1 DEF VariantInv, TableInv
  <2>3. ValueIs(value')
    BY <2>1, <2>2 DEF ValueIs
  <2>4. outcome' \in Decided /\ outcome'.op # "match"
    BY <2>1 DEF Decided, Nothing
  <2> QED
    BY <2>1, <2>3, <2>4, VariantRest
<1>3. CASE OtherValue
  <2>1. /\ at = 0 /\ value' \in {Nil, Str} /\ failed' = "other" /\ outcome' = Nothing
        /\ UNCHANGED <<declared, variants, code, at>>
    BY <1>3 DEF OtherValue, Between
  <2>2. outcome' \in Decided /\ outcome'.op # "match"
    BY <2>1 DEF Decided, Nothing
  <2>3. ValueIs(value')
    BY <2>1 DEF ValueIs
  <2> QED
    BY <2>1, <2>2, <2>3, VariantRest
<1>4. CASE StdIoCall
  <2>1. /\ at = 0 /\ outcome' = Nothing /\ UNCHANGED <<declared, variants, code, at>>
        /\ value' \in {Str, [tag |-> "enum", v |-> variants["Err"]]}
        /\ failed' \in {"yes", "no"}
    BY <1>4 DEF StdIoCall, LiftNilToErr, Between
  <2>2. outcome' \in Decided /\ outcome'.op # "match"
    BY <2>1 DEF Decided, Nothing
  <2>3. ValueIs(value')
    BY <2>1 DEF ValueIs, VariantInv, TableInv
  <2> QED
    BY <2>1, <2>2, <2>3, VariantRest
<1>5. ASSUME NEW names \in Arms, NEW otherwise \in BOOLEAN, CompileMatch(names, otherwise)
      PROVE  VariantInv'
  BY <1>5, CompileMatchKeeps
<1>6. CASE Dispatch
  BY <1>6, DispatchKeeps
<1>7. CASE TestArm
  BY <1>7, TestArmKeeps
<1>8. CASE IsErr
  <2>1. /\ at = 0 /\ UNCHANGED <<declared, variants, value, failed, code, at>>
        /\ outcome' = [op |-> "is_err", res |-> LooksLikeErr] /\ LooksLikeErr \in BOOLEAN
    BY <1>8 DEF IsErr, Between, LooksLikeErr
  <2>2. outcome' \in Decided /\ outcome'.op # "match"
    BY <2>1 DEF Decided
  <2>3. ValueIs(value') /\ failed' \in {"yes", "no", "other"}
    BY <2>1 DEF VariantInv
  <2> QED
    BY <2>1, <2>2, <2>3, VariantRest
<1>9. ASSUME NEW idx \in 0 .. 1, ErrField(idx) PROVE VariantInv'
  <2>1. /\ at = 0 /\ UNCHANGED <<declared, variants, value, failed, code, at>>
        /\ outcome' = [op |-> "err_field", reads |-> IF LooksLikeErr THEN idx + 1 ELSE 0]
    BY <1>9 DEF ErrField, Between
  <2>2. (IF LooksLikeErr THEN idx + 1 ELSE 0) \in Field
    BY DEF Field
  <2>3. outcome' \in Decided /\ outcome'.op # "match"
    BY <2>1, <2>2 DEF Decided
  <2>4. ValueIs(value') /\ failed' \in {"yes", "no", "other"}
    BY <2>1 DEF VariantInv
  <2> QED
    BY <2>1, <2>3, <2>4, VariantRest
<1>10. CASE UNCHANGED variantVars
  <2>1. UNCHANGED <<declared, variants, value, failed, code, at, outcome>>
    BY <1>10 DEF variantVars
  <2>2. TableInv'
    BY <2>1 DEF VariantInv, TableInv
  <2>3. Running' /\ Ran'
    BY <2>1 DEF VariantInv, Running, Ran, PassedBy
  <2> QED
    BY <2>1, <2>2, <2>3 DEF VariantInv
<1> QED
  BY <1>1, <1>2, <1>3, <1>4, <1>5, <1>6, <1>7, <1>8, <1>9, <1>10 DEF VariantNext

\* The place of the one arm of a name, 0 without one.
LEMMA ArmIs ==
  ASSUME NEW w, Len(w) \in Nat, NEW x, NEW k \in 0 .. Len(w),
         \A m \in 1 .. Len(w) : w[m] = x <=> m = k
  PROVE  ArmOf(w, x) = k
<1>1. PICK I : I = {m \in 1 .. Len(w) : w[m] = x}
  OBVIOUS
<1>2. ArmOf(w, x) = IF I # {} THEN Min(I) ELSE 0
  BY <1>1 DEF ArmOf, SelectInSeq
<1>3. CASE k = 0
  BY <1>1, <1>2, <1>3
<1>4. CASE k # 0
  <2>1. I = {k}
    BY <1>1, <1>4
  <2>2. Min({k}) = k
    BY DEF Min
  <2> QED
    BY <1>2, <2>1, <2>2
<1> QED
  BY <1>3, <1>4

\* The invariant says what the property asks.
LEMMA VariantInvDispatches == VariantInv => DispatchInChoice
<1> SUFFICES ASSUME VariantInv PROVE DispatchInChoice
  OBVIOUS
<1>1. VariantTypeOK
  <2>1. \A v \in Variant : variants[v] \in Info \cup {None}
    BY EntriesTyped DEF VariantInv, TableInv
  <2>2. value \in Enum \cup {Nil, Str}
    BY EntriesTyped DEF VariantInv, ValueIs, Enum
  <2>3. at \in 0 .. MaxArms
    <3>1. CASE at = 0
      BY <3>1, VariantsAssumption DEF VariantsAssumption
    <3>2. CASE at # 0
      <4>1. code # None /\ at \in 1 .. Len(code.arms) /\ at \in Nat
        BY <3>2 DEF VariantInv, Running
      <4>2. Len(code.arms) <= MaxArms /\ Len(code.arms) \in Nat
        BY <4>1 DEF VariantInv, CodeIs
      <4> QED
        BY <4>1, <4>2, VariantsAssumption DEF VariantsAssumption
    <3> QED
      BY <3>1, <3>2
  <2>4. code # None => /\ code.arms \in Seq(Info)
                       /\ Len(code.arms) <= MaxArms
                       /\ code.otherwise \in BOOLEAN
    BY DEF VariantInv, CodeIs
  <2> QED
    BY <2>1, <2>2, <2>3, <2>4 DEF VariantInv, TableInv, VariantTypeOK
<1>2. ASSUME MatchDecided, value.tag = "enum",
             \A m \in DOMAIN code.arms : code.arms[m].choice = value.v.choice
      PROVE  outcome.arm = ArmOf(ArmNames, value.v.name) /\ outcome.reads <= value.v.n
  <2>1. code # None
    BY <1>2 DEF MatchDecided, VariantInv, Ran
  <2>2. PICK w : w = code.arms
    OBVIOUS
  <2>3. /\ w \in Seq(Info) /\ Len(w) \in Nat /\ DOMAIN w = 1 .. Len(w)
        /\ \A m \in 1 .. Len(w) : IsEntry(w[m])
        /\ \A m, n \in 1 .. Len(w) : w[m].name = w[n].name => m = n
    BY <2>1, <2>2 DEF VariantInv, CodeIs
  <2>4. PICK e : IsEntry(e) /\ value = [tag |-> "enum", v |-> e]
    <3>1. value # Nil /\ value # Str
      BY <1>2 DEF Nil, Str
    <3> QED
      BY <3>1 DEF VariantInv, ValueIs
  <2>5. value.v = e
    BY <2>4
  <2>6. \A m \in 1 .. Len(w) : (w[m].id = e.id \/ w[m].name = e.name) => w[m] = e
    BY <1>2, <2>2, <2>3, <2>4, <2>5, IdsApart
  <2>7. PICK names : names = ArmNames
    OBVIOUS
  <2>8. names = [m \in 1 .. Len(w) |-> w[m].name]
    BY <2>2, <2>3, <2>7 DEF ArmNames
  <2>9. Len(names) = Len(w) /\ \A m \in 1 .. Len(w) : names[m] = w[m].name
    BY <2>3, <2>8
  <2>10. CASE /\ outcome.arm \in 1 .. Len(w)
              /\ w[outcome.arm].id = e.id
              /\ outcome.reads = w[outcome.arm].n
    <3>1. w[outcome.arm] = e
      BY <2>6, <2>10
    <3>2. \A m \in 1 .. Len(w) : names[m] = e.name <=> m = outcome.arm
      BY <2>3, <2>9, <2>10, <3>1
    <3>3. ArmOf(names, e.name) = outcome.arm
      <4>1. PICK k : k = outcome.arm
        OBVIOUS
      <4>2. k \in 0 .. Len(names)
        BY <2>3, <2>9, <2>10, <4>1
      <4> QED
        BY <2>3, <2>9, <3>2, <4>1, <4>2, ArmIs
    <3>4. e.n \in Nat
      BY <2>4, EntriesTyped DEF Info, Field
    <3>5. outcome.reads <= e.n
      BY <2>10, <3>1, <3>4
    <3> QED
      BY <2>5, <2>7, <3>3, <3>5
  <2>11. CASE /\ outcome.arm = 0 /\ outcome.reads = 0
              /\ PassedBy(Len(w) + 1)
    <3>1. \A m \in 1 .. Len(w) : w[m].id # e.id
      BY <2>2, <2>3, <2>5, <2>11 DEF PassedBy
    <3>2. \A m \in 1 .. Len(w) : names[m] = e.name <=> m = 0
      BY <2>6, <2>9, <3>1
    <3>3. ArmOf(names, e.name) = 0
      <4>1. 0 \in 0 .. Len(names)
        BY <2>3, <2>9
      <4> QED
        BY <2>3, <2>9, <3>2, <4>1, ArmIs
    <3>4. e.n \in Nat
      BY <2>4, EntriesTyped DEF Info, Field
    <3>5. outcome.reads <= e.n
      BY <2>11, <3>4
    <3> QED
      BY <2>5, <2>7, <2>11, <3>3, <3>5
  <2> QED
    BY <1>2, <2>2, <2>5, <2>10, <2>11 DEF MatchDecided, VariantInv, Ran
<1> QED
  BY <1>1, <1>2 DEF DispatchInChoice

\* A match whose arms are variants of the value's own choice runs the arm of
\* the value's variant and loads no field it does not have, for any choices,
\* declared at any moment between the compilation of the match and its run.
THEOREM DispatchesInChoice == Spec => []DispatchInChoice
<1>1. Init => VariantInv
  <2>1. VariantInit => VariantInv
    BY VariantInitInv DEF VariantInit
  <2>2. NoVariant => VariantInv
    BY VariantInitInv DEF NoVariant
  <2> QED
    BY <2>1, <2>2 DEF Init
<1>2. VariantInv /\ [Next]_vars => VariantInv'
  <2>1. [Next]_vars => [VariantNext]_variantVars
    BY DEF Next, vars, CallStep, StringStep, NumberStep, VariantStep, IoStep, HeapStep
  <2> QED
    BY <2>1, VariantStepKeeps
<1> QED
  BY <1>1, <1>2, VariantInvDispatches, PTL DEF Spec

(***************************************************************************)
(* Powers of two.                                                          *)
(***************************************************************************)

\* A set of naturals that has a member has a least one.
LEMMA LeastNat ==
  ASSUME NEW S \in SUBSET Nat, S # {}
  PROVE  \E m \in S : \A k \in S : m <= k
<1> DEFINE T == {0 .. n : n \in S}
<1>1. T \subseteq FiniteSubsetsOf(Nat) /\ T # {}
  <2>1. \A n \in S : IsFiniteSet(0 .. n) /\ 0 .. n \in SUBSET Nat
    BY FS_Interval
  <2> QED
    BY <2>1 DEF FiniteSubsetsOf
<1>2. PICK x \in T : \A y \in T : ~(<<y, x>> \in StrictSubsetOrdering(Nat))
  BY <1>1, FS_StrictSubsetOrderingWellFounded, WFMin
<1>3. PICK m \in S : x = 0 .. m
  OBVIOUS
<1>4. ASSUME NEW k \in S, k < m
      PROVE  FALSE
  <2>1. 0 .. k \subseteq 0 .. m /\ m \in 0 .. m /\ m \notin 0 .. k
    BY <1>4
  <2>2. <<0 .. k, 0 .. m>> \in StrictSubsetOrdering(Nat)
    BY <2>1 DEF StrictSubsetOrdering
  <2> QED
    BY <1>2, <1>3, <2>2
<1> QED
  BY <1>4

\* The number of subsets is a power of two.
LEMMA PowerOfCard ==
  ASSUME NEW n \in Nat
  PROVE  /\ IsFiniteSet(SUBSET (1 .. n))
         /\ Cardinality(SUBSET (1 .. n)) = 2 ^ n
         /\ Cardinality(SUBSET (1 .. n)) \in Nat
<1>1. IsFiniteSet(1 .. n) /\ Cardinality(1 .. n) = n
  BY FS_Interval
<1>2. IsFiniteSet(SUBSET (1 .. n)) /\ Cardinality(SUBSET (1 .. n)) = 2 ^ Cardinality(1 .. n)
  BY <1>1, FS_SUBSET
<1>3. Cardinality(SUBSET (1 .. n)) = 2 ^ n
  BY <1>1, <1>2, Zenon
<1> QED
  BY <1>2, <1>3, FS_CardinalityType

\* The subsets of 1 .. n + 1 are those of 1 .. n and those with n + 1 added.
LEMMA PowerDoubles ==
  ASSUME NEW n \in Nat
  PROVE  2 ^ n \in Nat /\ 2 ^ (n + 1) = 2 * 2 ^ n
<1> DEFINE S == SUBSET (1 .. n)
           T == {X \cup {n + 1} : X \in S}
           f == [X \in S |-> X \cup {n + 1}]
<1>1. IsFiniteSet(S) /\ Cardinality(S) = 2 ^ n /\ Cardinality(S) \in Nat
  BY PowerOfCard
<1>2. f \in Bijection(S, T)
  <2>1. \A X, Y \in S : f[X] = f[Y] => X = Y
    <3> SUFFICES ASSUME NEW X \in S, NEW Y \in S, f[X] = f[Y]
                 PROVE  X = Y
      OBVIOUS
    <3>1. n + 1 \notin X /\ n + 1 \notin Y
      OBVIOUS
    <3> QED
      BY <3>1
  <2>2. f \in [S -> T] /\ \A Y \in T : \E X \in S : f[X] = Y
    OBVIOUS
  <2> QED
    BY <2>1, <2>2, Fun_IsBij
<1>3. IsFiniteSet(T) /\ Cardinality(T) = Cardinality(S)
  <2>1. ExistsBijection(S, T)
    BY <1>2, Fun_ExistsBij
  <2> QED
    BY <1>1, <2>1, FS_Bijection
<1>4. SUBSET (1 .. n + 1) = S \cup T
  <2>1. ASSUME NEW Z \in SUBSET (1 .. n + 1)
        PROVE  Z \in S \cup T
    <3>1. CASE n + 1 \notin Z
      BY <3>1
    <3>2. CASE n + 1 \in Z
      <4>1. Z \ {n + 1} \in S
        OBVIOUS
      <4>2. Z = (Z \ {n + 1}) \cup {n + 1}
        BY <3>2
      <4> QED
        BY <4>1, <4>2
    <3> QED
      BY <3>1, <3>2
  <2>2. ASSUME NEW Z \in S \cup T
        PROVE  Z \in SUBSET (1 .. n + 1)
    <3>1. (1 .. n) \cup {n + 1} \subseteq 1 .. n + 1
      OBVIOUS
    <3> QED
      BY <3>1
  <2> QED
    BY <2>1, <2>2
<1>5. S \cap T = {}
  OBVIOUS
<1> HIDE DEF S, T, f
<1>6. Cardinality(S \cup T) = Cardinality(S) + Cardinality(T)
  <2>1. Cardinality(S \cup T) = Cardinality(S) + Cardinality(T) - Cardinality(S \cap T)
    BY <1>1, <1>3, FS_Union
  <2>2. Cardinality(S \cap T) = 0
    BY <1>5, FS_EmptySet
  <2> QED
    BY <1>1, <1>3, <2>1, <2>2
<1>7. Cardinality(SUBSET (1 .. n + 1)) = 2 ^ (n + 1)
  <2>1. n + 1 \in Nat
    OBVIOUS
  <2> QED
    BY <2>1, PowerOfCard, Zenon
<1>8. 2 ^ (n + 1) = Cardinality(S) + Cardinality(S)
  BY <1>3, <1>4, <1>6, <1>7, Zenon
<1>9. 2 ^ (n + 1) = 2 ^ n + 2 ^ n /\ 2 ^ n \in Nat
  BY <1>1, <1>8, Zenon
<1> QED
  BY <1>9

\* So there is no power of two below one.
LEMMA PowerPositive ==
  ASSUME NEW n \in Nat
  PROVE  2 ^ n \in Nat \ {0}
<1> DEFINE S == {k \in Nat : 2 ^ k = 0}
<1>1. ASSUME S # {} PROVE FALSE
  <2>1. PICK k \in S : \A j \in S : k <= j
    BY <1>1, LeastNat
  <2>2. k # 0
    <3>1. 2 ^ 0 # 0
      OBVIOUS
    <3> QED
      BY <2>1, <3>1, Zenon
  <2>3. k - 1 \in Nat /\ (k - 1) + 1 = k
    BY <2>2
  <2>4. 2 ^ (k - 1) \in Nat /\ 2 ^ ((k - 1) + 1) = 2 * 2 ^ (k - 1)
    BY <2>3, PowerDoubles
  <2>5. 2 ^ k = 2 * 2 ^ (k - 1)
    BY <2>3, <2>4, Zenon
  <2>6. 2 ^ (k - 1) = 0
    BY <2>1, <2>4, <2>5
  <2> QED
    BY <2>1, <2>3, <2>6
<1>2. 2 ^ n # 0
  BY <1>1
<1> QED
  BY <1>2, PowerDoubles

\* The factors of powers of two.
LEMMA PowerAdds ==
  ASSUME NEW m \in Nat, NEW n \in Nat
  PROVE  2 ^ (m + n) = 2 ^ m * 2 ^ n
<1> DEFINE S == {k \in Nat : 2 ^ (m + k) # 2 ^ m * 2 ^ k}
<1>1. ASSUME S # {} PROVE FALSE
  <2>1. PICK k \in S : \A j \in S : k <= j
    BY <1>1, LeastNat
  <2>2. PICK g : g = 2 ^ m
    OBVIOUS
  <2>3. g \in Nat
    BY <2>2, PowerPositive
  <2>4. k # 0
    <3>1. 2 ^ 0 = 1 /\ m + 0 = m
      OBVIOUS
    <3>2. 2 ^ (m + 0) = g /\ g * 2 ^ 0 = g
      BY <2>2, <2>3, <3>1
    <3> QED
      BY <2>1, <2>2, <3>2
  <2>5. PICK j : j = k - 1
    OBVIOUS
  <2>6. j \in Nat /\ k = j + 1 /\ m + k = (m + j) + 1 /\ m + j \in Nat /\ j \notin S
    BY <2>1, <2>4, <2>5
  <2>7. 2 ^ (m + j) = g * 2 ^ j
    BY <2>2, <2>6
  <2>8. 2 ^ ((m + j) + 1) = 2 * 2 ^ (m + j) /\ 2 ^ (j + 1) = 2 * 2 ^ j /\ 2 ^ j \in Nat
    BY <2>6, PowerDoubles
  <2>9. PICK c : c = 2 ^ j
    OBVIOUS
  <2>10. 2 ^ (m + k) = 2 * (g * c) /\ 2 ^ k = 2 * c /\ c \in Nat
    BY <2>6, <2>7, <2>8, <2>9, Zenon
  <2>11. 2 * (g * c) = g * (2 * c)
    BY <2>3, <2>10
  <2>12. 2 ^ (m + k) = g * 2 ^ k
    BY <2>10, <2>11, Zenon
  <2> QED
    BY <2>1, <2>2, <2>12
<1> QED
  BY <1>1

\* A smaller power of two divides a larger one.
LEMMA PowerDivides ==
  ASSUME NEW m \in Nat, NEW n \in Nat, m <= n
  PROVE  /\ 2 ^ (n - m) \in Nat \ {0}
         /\ 2 ^ n = 2 ^ m * 2 ^ (n - m)
         /\ 2 ^ m <= 2 ^ n
<1>1. n - m \in Nat /\ m + (n - m) = n
  OBVIOUS
<1>2. 2 ^ (n - m) \in Nat \ {0} /\ 2 ^ m \in Nat
  BY <1>1, PowerPositive
<1>3. 2 ^ (m + (n - m)) = 2 ^ m * 2 ^ (n - m)
  BY <1>1, PowerAdds
<1>4. PICK g, c : g = 2 ^ m /\ c = 2 ^ (n - m)
  OBVIOUS
<1>5. g \in Nat /\ c \in Nat \ {0}
  BY <1>2, <1>4
<1>6. 2 ^ n = g * c
  BY <1>1, <1>3, <1>4, Zenon
<1>7. g <= g * c
  BY <1>5
<1> QED
  BY <1>1, <1>2, <1>4, <1>6, <1>7

(***************************************************************************)
(* Rounding to multiples of u.                                             *)
(***************************************************************************)

\* Division with remainder, by what it means.
LEMMA Divides ==
  ASSUME NEW m \in Nat, NEW u \in Nat \ {0}
  PROVE  \E q, r \in Nat : /\ q = m \div u /\ r = m % u
                           /\ r < u /\ m = u * q + r
<1>1. PICK q, r : q = m \div u /\ r = m % u
  OBVIOUS
<1>2. q \in Nat
  BY <1>1
<1>3. r \in 0 .. u - 1
  BY <1>1
<1>4. m = u * q + r
  BY <1>1, <1>2, <1>3
<1> QED
  BY <1>1, <1>2, <1>3, <1>4

LEMMA DividesOnce ==
  ASSUME NEW u \in Nat \ {0}, NEW q \in Nat, NEW r \in Nat, r < u
  PROVE  (u * q + r) \div u = q /\ (u * q + r) % u = r
  OBVIOUS

\* A multiple stays what it is.
LEMMA NearestExact ==
  ASSUME NEW u \in Nat \ {0}, NEW c \in Nat
  PROVE  Nearest(u * c, u) = u * c
<1>1. u * c + 0 = u * c
  OBVIOUS
<1>2. (u * c) \div u = c /\ (u * c) % u = 0
  BY <1>1, DividesOnce
<1> QED
  BY <1>2 DEF Nearest

\* Rounding keeps the order.
LEMMA NearestMonotone ==
  ASSUME NEW u \in Nat \ {0}, NEW m \in Nat, NEW n \in Nat, m <= n
  PROVE  /\ Nearest(m, u) \in Nat
         /\ \E c \in Nat : Nearest(m, u) = u * c
         /\ Nearest(m, u) <= Nearest(n, u)
<1>1. PICK q, r \in Nat : q = m \div u /\ r = m % u /\ r < u /\ m = u * q + r
  BY Divides
<1>2. PICK p, w \in Nat : p = n \div u /\ w = n % u /\ w < u /\ n = u * p + w
  BY Divides
<1>3. PICK c, d : /\ c = IF 2 * r > u \/ (2 * r = u /\ q % 2 = 1) THEN q + 1 ELSE q
                  /\ d = IF 2 * w > u \/ (2 * w = u /\ p % 2 = 1) THEN p + 1 ELSE p
  OBVIOUS
<1>4. Nearest(m, u) = u * c /\ Nearest(n, u) = u * d
  BY <1>1, <1>2, <1>3 DEF Nearest
<1>5. c \in Nat /\ d \in Nat
  BY <1>1, <1>2, <1>3
<1>6. q <= p
  <2> SUFFICES ASSUME p + 1 <= q
               PROVE  FALSE
    BY <1>1, <1>2
  <2>1. u * (p + 1) <= u * q
    BY <1>1, <1>2
  <2> QED
    BY <1>1, <1>2, <2>1
<1>7. c <= d
  <2>1. CASE q < p
    BY <1>1, <1>2, <1>3, <2>1
  <2>2. CASE q = p
    <3>1. r <= w
      BY <1>1, <1>2, <2>2
    <3> QED
      BY <1>1, <1>2, <1>3, <2>2, <3>1
  <2> QED
    BY <1>1, <1>2, <1>6, <2>1, <2>2
<1>8. u * c \in Nat /\ u * c <= u * d
  BY <1>5, <1>7
<1> QED
  BY <1>4, <1>5, <1>8

\* So it does not cross a multiple.
LEMMA NearestBounded ==
  ASSUME NEW u \in Nat \ {0}, NEW m \in Nat, NEW c \in Nat
  PROVE  /\ m <= u * c => Nearest(m, u) <= u * c
         /\ u * c <= m => u * c <= Nearest(m, u)
<1>1. u * c \in Nat /\ Nearest(u * c, u) = u * c
  BY NearestExact
<1> QED
  BY <1>1, NearestMonotone


(***************************************************************************)
(* sitofp.                                                                 *)
(***************************************************************************)

\* m has P + k bits, or fewer when k is 0.
Bits(m, k) ==
  /\ k \in Nat
  /\ m < 2 ^ (Precision + k)
  /\ \A j \in 0 .. k - 1 : m >= 2 ^ (Precision + j)

Half == 2 ^ (Width - 1)

LEMMA Halves ==
  /\ Width - 1 \in Nat \ {0} /\ Width \in Nat /\ Precision \in Nat \ {0}
  /\ Half \in Nat \ {0} /\ 2 ^ Width = 2 * Half
  /\ MinInt = -Half /\ MaxInt = Half - 1 /\ Infinity = 4 * Half
  /\ IntSet = -Half .. Half - 1
<1>1. Width - 1 \in Nat \ {0} /\ Width \in Nat /\ Precision \in Nat \ {0}
  BY NumbersAssumption DEF NumbersAssumption
<1>2. Half \in Nat \ {0}
  BY <1>1, PowerPositive DEF Half
<1>3. (Width - 1) + 1 = Width
  BY <1>1
<1>4. 2 ^ ((Width - 1) + 1) = 2 * Half /\ 2 ^ (Width + 1) = 2 * 2 ^ Width
  BY <1>1, PowerDoubles DEF Half
<1>5. 2 ^ Width = 2 * Half
  BY <1>3, <1>4, Zenon
<1>6. Infinity = 2 * (2 * Half)
  BY <1>4, <1>5, Zenon DEF Infinity
<1> QED
  BY <1>1, <1>2, <1>5, <1>6 DEF MinInt, MaxInt, IntSet, Half

\* Every magnitude has as many bits as it has.
LEMMA BitsExist ==
  ASSUME NEW m \in 0 .. Half
  PROVE  \E k \in 0 .. Width - 1 : Bits(m, k)
<1> DEFINE S == {k \in Nat : m < 2 ^ (Precision + k)}
<1>0. /\ Width - 1 \in Nat /\ Precision \in Nat \ {0} /\ Half \in Nat \ {0}
  BY Halves
<1>1. Width - 1 \in S
  <2>1. 2 ^ (Precision + (Width - 1)) = 2 ^ Precision * 2 ^ (Width - 1)
    BY <1>0, PowerAdds
  <2>2. Precision - 1 \in Nat /\ (Precision - 1) + 1 = Precision
    BY <1>0
  <2>3. 2 ^ (Precision - 1) \in Nat \ {0} /\ 2 ^ ((Precision - 1) + 1) = 2 * 2 ^ (Precision - 1)
    BY <2>2, PowerDoubles, PowerPositive
  <2>4. PICK g, c : g = 2 ^ (Precision - 1) /\ c = Half
    OBVIOUS
  <2>5. 2 ^ (Precision + (Width - 1)) = (2 * g) * c
    BY <2>1, <2>2, <2>3, <2>4, Zenon DEF Half
  <2>6. g \in Nat \ {0} /\ c \in Nat \ {0} /\ m <= c /\ m \in Nat
    BY <1>0, <2>3, <2>4
  <2>7. c <= g * c
    BY <2>6
  <2>8. m < (2 * g) * c
    BY <2>6, <2>7
  <2> QED
    BY <1>0, <2>5, <2>8
<1>2. PICK k \in S : \A j \in S : k <= j
  BY <1>1, LeastNat
<1>3. k \in 0 .. Width - 1
  BY <1>0, <1>1, <1>2
<1>4. ASSUME NEW j \in 0 .. k - 1
      PROVE  m >= 2 ^ (Precision + j)
  <2>1. j \in Nat /\ j \notin S /\ Precision + j \in Nat
    BY <1>0, <1>2, <1>3
  <2>2. 2 ^ (Precision + j) \in Nat
    BY <2>1, PowerPositive
  <2> QED
    BY <2>1, <2>2
<1> QED
  BY <1>2, <1>3, <1>4 DEF Bits

\* A smaller magnitude has no more bits.
LEMMA BitsOrder ==
  ASSUME NEW m \in Nat, NEW n \in Nat, m <= n, NEW k, NEW l, Bits(m, k), Bits(n, l)
  PROVE  k <= l
<1> SUFFICES ASSUME l < k
             PROVE  FALSE
  BY DEF Bits
<1>1. l \in 0 .. k - 1 /\ Precision + l \in Nat
  BY Halves DEF Bits
<1>2. m >= 2 ^ (Precision + l) /\ n < 2 ^ (Precision + l) /\ 2 ^ (Precision + l) \in Nat
  BY <1>1, PowerPositive DEF Bits
<1> QED
  BY <1>2

\* The rounded magnitude.
LEMMA RoundIs ==
  ASSUME NEW x \in -Half .. Half
  PROVE  \E k \in 0 .. Width - 1 :
           /\ Abs(x) \in 0 .. Half
           /\ Bits(Abs(x), k)
           /\ RoundToF64(x) = Sign(x) * Nearest(Abs(x), 2 ^ k)
<1>1. Abs(x) \in 0 .. Half
  BY Halves DEF Abs
<1>2. PICK k \in 0 .. Width - 1 : Bits(Abs(x), k)
  BY <1>1, BitsExist
<1> DEFINE F(e) == /\ Abs(x) < 2 ^ (Precision + e)
                   /\ \A j \in 0 .. e - 1 : Abs(x) >= 2 ^ (Precision + j)
<1>3. k \in 0 .. Width /\ F(k)
  BY <1>2, Halves DEF Bits
<1>4. ASSUME NEW e \in 0 .. Width, F(e)
      PROVE  e = k
  <2>1. Bits(Abs(x), e)
    BY <1>4 DEF Bits
  <2>2. Abs(x) \in Nat /\ Abs(x) <= Abs(x)
    BY <1>1
  <2>3. e <= k
    BY <1>2, <2>1, <2>2, BitsOrder
  <2>4. k <= e
    BY <1>2, <2>1, <2>2, BitsOrder
  <2> QED
    BY <2>3, <2>4
<1>5. (CHOOSE e \in 0 .. Width : F(e)) = k
  <2>1. \E e \in 0 .. Width : F(e)
    BY <1>3
  <2> HIDE DEF F
  <2>2. (CHOOSE e \in 0 .. Width : F(e)) \in 0 .. Width /\ F(CHOOSE e \in 0 .. Width : F(e))
    BY <2>1
  <2> QED
    BY <1>4, <2>2
<1>6. Exponent(Abs(x)) = k
  BY <1>5 DEF Exponent
<1> QED
  BY <1>1, <1>2, <1>6, Zenon DEF RoundToF64


\* m with k bits beyond Precision lies between two powers of two, the upper
\* one a multiple of the unit it is rounded to, and the lower one of any
\* unit up to twice as large.
LEMMA BitsBound ==
  ASSUME NEW m \in Nat, NEW k, Bits(m, k)
  PROVE  /\ k \in Nat /\ 2 ^ k \in Nat \ {0}
         /\ \E c \in Nat : 2 ^ (Precision + k) = 2 ^ k * c /\ m <= 2 ^ k * c
         /\ 2 ^ (Precision + k) \in Nat
         /\ Nearest(m, 2 ^ k) <= 2 ^ (Precision + k)
<1>1. k \in Nat /\ m < 2 ^ (Precision + k) /\ Precision \in Nat
  BY Halves DEF Bits
<1>2. 2 ^ k \in Nat \ {0} /\ 2 ^ (Precision + k) \in Nat /\ 2 ^ Precision \in Nat
  <2>1. Precision + k \in Nat
    BY <1>1
  <2> QED
    BY <1>1, <2>1, PowerPositive
<1>3. PICK u, c : u = 2 ^ k /\ c = 2 ^ Precision
  OBVIOUS
<1>4. 2 ^ (Precision + k) = u * c
  <2>1. 2 ^ (Precision + k) = c * u
    BY <1>1, <1>3, PowerAdds, Zenon
  <2>2. c * u = u * c
    BY <1>2, <1>3
  <2> QED
    BY <2>1, <2>2, Zenon
<1>5. u \in Nat \ {0} /\ c \in Nat /\ m <= u * c
  BY <1>1, <1>2, <1>3, <1>4
<1>6. Nearest(m, u) <= u * c
  BY <1>5, NearestBounded
<1> QED
  BY <1>1, <1>2, <1>3, <1>4, <1>5, <1>6

LEMMA BitsBelow ==
  ASSUME NEW m \in Nat, NEW k, Bits(m, k), k # 0
  PROVE  \E c \in Nat : /\ 2 ^ (Precision + (k - 1)) = 2 ^ k * c
                        /\ 2 ^ k * c <= m
<1>1. k \in Nat /\ k - 1 \in 0 .. k - 1 /\ Precision - 1 \in Nat
  BY Halves DEF Bits
<1>2. Precision + (k - 1) = (Precision - 1) + k /\ Precision + (k - 1) \in Nat
  BY <1>1, Halves
<1>3. PICK u, c : u = 2 ^ k /\ c = 2 ^ (Precision - 1)
  OBVIOUS
<1>4. u \in Nat /\ c \in Nat
  BY <1>1, <1>3, PowerPositive
<1>5. 2 ^ ((Precision - 1) + k) = c * u
  BY <1>1, <1>3, PowerAdds, Zenon
<1>6. 2 ^ (Precision + (k - 1)) = u * c
  <2>1. c * u = u * c
    BY <1>4
  <2> QED
    BY <1>2, <1>5, <2>1, Zenon
<1>7. m >= 2 ^ (Precision + (k - 1))
  BY <1>1 DEF Bits
<1>8. u * c <= m
  BY <1>4, <1>6, <1>7
<1> QED
  BY <1>3, <1>4, <1>6, <1>8

\* Rounding to the bits a magnitude has keeps the order ...
LEMMA MagnitudesOrder ==
  ASSUME NEW m \in Nat, NEW n \in Nat, m <= n, NEW k, NEW l, Bits(m, k), Bits(n, l)
  PROVE  Nearest(m, 2 ^ k) <= Nearest(n, 2 ^ l)
<1>1. k <= l /\ k \in Nat /\ l \in Nat
  BY BitsOrder DEF Bits
<1>2. PICK u, v : u = 2 ^ k /\ v = 2 ^ l
  OBVIOUS
<1>3. u \in Nat \ {0} /\ v \in Nat \ {0}
  BY <1>1, <1>2, PowerPositive
<1>4. CASE k = l
  BY <1>2, <1>3, <1>4, NearestMonotone
<1>5. CASE k < l
  <2>1. PICK d : d = 2 ^ (Precision + k)
    OBVIOUS
  <2>2. Nearest(m, u) <= d /\ d \in Nat
    BY <1>2, <2>1, BitsBound
  <2>3. PICK c \in Nat : 2 ^ (Precision + (l - 1)) = v * c /\ v * c <= n
    <3>1. l # 0
      BY <1>1, <1>5
    <3>2. \E c \in Nat : 2 ^ (Precision + (l - 1)) = 2 ^ l * c /\ 2 ^ l * c <= n
      BY <3>1, BitsBelow
    <3> QED
      BY <1>2, <3>2
  <2>4. d <= v * c
    <3>1. Precision + k \in Nat /\ Precision + (l - 1) \in Nat /\ Precision + k <= Precision + (l - 1)
      BY <1>1, <1>5, Halves
    <3>2. 2 ^ (Precision + k) <= 2 ^ (Precision + (l - 1))
      BY <3>1, PowerDivides
    <3> QED
      BY <2>1, <2>3, <3>2
  <2>5. v * c <= Nearest(n, v)
    BY <1>3, <2>3, NearestBounded
  <2>6. Nearest(m, u) \in Nat /\ Nearest(n, v) \in Nat /\ v * c \in Nat
    <3>1. n <= n
      OBVIOUS
    <3>2. Nearest(m, u) \in Nat
      BY <1>3, NearestMonotone
    <3>3. Nearest(n, v) \in Nat
      BY <1>3, <3>1, NearestMonotone
    <3> QED
      BY <1>3, <2>3, <3>2, <3>3
  <2> QED
    BY <1>2, <2>2, <2>4, <2>5, <2>6
<1> QED
  BY <1>1, <1>4, <1>5

\* ... and done once is done for good.
LEMMA MagnitudesStay ==
  ASSUME NEW m \in Nat, NEW k, NEW l, NEW y, y = Nearest(m, 2 ^ k), Bits(m, k), Bits(y, l)
  PROVE  Nearest(y, 2 ^ l) = y
<1>1. k \in Nat /\ l \in Nat
  BY DEF Bits
<1>2. PICK u, v : u = 2 ^ k /\ v = 2 ^ l
  OBVIOUS
<1>3. u \in Nat \ {0} /\ v \in Nat \ {0}
  BY <1>1, <1>2, PowerPositive
<1>4. PICK c \in Nat : y = u * c
  <2>1. m <= m
    OBVIOUS
  <2> QED
    BY <1>2, <1>3, <2>1, NearestMonotone
<1>5. y \in Nat
  BY <1>3, <1>4
<1>6. PICK d : d = 2 ^ (Precision + k)
  OBVIOUS
<1>7. y <= d /\ d \in Nat
  BY <1>6, BitsBound
<1>8. l <= k + 1
  <2> SUFFICES ASSUME k + 1 < l
               PROVE  FALSE
    BY <1>1
  <2>1. k + 1 \in 0 .. l - 1 /\ Precision + k \in Nat /\ Precision + (k + 1) = (Precision + k) + 1
    BY <1>1, Halves
  <2>2. y >= 2 ^ (Precision + (k + 1))
    BY <2>1 DEF Bits
  <2>3. 2 ^ ((Precision + k) + 1) = 2 * d /\ d # 0
    BY <1>6, <2>1, PowerDoubles, PowerPositive
  <2>4. 2 ^ (Precision + (k + 1)) = 2 * d
    BY <2>1, <2>3, Zenon
  <2> QED
    BY <1>5, <1>7, <2>2, <2>3, <2>4
<1>9. CASE l <= k
  <2>1. PICK e : e = 2 ^ (k - l)
    OBVIOUS
  <2>2. e \in Nat /\ u = v * e
    BY <1>1, <1>2, <1>9, <2>1, PowerDivides
  <2>3. e * c \in Nat /\ y = v * (e * c)
    BY <1>3, <1>4, <2>2
  <2>4. Nearest(v * (e * c), v) = v * (e * c)
    BY <1>3, <2>3, NearestExact
  <2> QED
    BY <1>2, <2>3, <2>4
<1>10. CASE l = k + 1
  <2>1. l # 0 /\ l - 1 = k
    BY <1>1, <1>10
  <2>2. PICK e \in Nat : 2 ^ (Precision + (l - 1)) = v * e /\ v * e <= y
    BY <1>2, <1>5, <2>1, BitsBelow
  <2>3. d = v * e
    BY <1>6, <2>1, <2>2, Zenon
  <2>4. y = v * e
    BY <1>5, <1>7, <2>2, <2>3
  <2>5. Nearest(v * e, v) = v * e
    BY <1>3, NearestExact
  <2> QED
    BY <1>2, <2>4, <2>5
<1> QED
  BY <1>1, <1>8, <1>9, <1>10


\* sitofp rounds the magnitude.
LEMMA MagnitudeOf ==
  ASSUME NEW x \in -Half .. Half
  PROVE  \E k, y : /\ Abs(x) \in 0 .. Half
                   /\ Bits(Abs(x), k)
                   /\ y = Nearest(Abs(x), 2 ^ k)
                   /\ y \in 0 .. Half
                   /\ RoundToF64(x) = Sign(x) * y
<1>1. PICK k \in 0 .. Width - 1 : /\ Abs(x) \in 0 .. Half
                                  /\ Bits(Abs(x), k)
                                  /\ RoundToF64(x) = Sign(x) * Nearest(Abs(x), 2 ^ k)
  BY RoundIs
<1>2. PICK m : m = Abs(x)
  OBVIOUS
<1>3. PICK u, c : u = 2 ^ k /\ c = 2 ^ ((Width - 1) - k)
  OBVIOUS
<1>4. u \in Nat \ {0} /\ c \in Nat /\ Half = u * c
  <2>1. k \in Nat /\ Width - 1 \in Nat /\ k <= Width - 1
    BY Halves
  <2>2. 2 ^ k \in Nat \ {0}
    BY <2>1, PowerPositive
  <2>3. c \in Nat /\ Half = u * c
    BY <1>3, <2>1, PowerDivides DEF Half
  <2> QED
    BY <1>3, <2>2, <2>3
<1>5. m \in Nat /\ m <= u * c /\ m <= m
  BY <1>1, <1>2, <1>4
<1>6. Nearest(m, u) <= u * c
  BY <1>4, <1>5, NearestBounded
<1>7. Nearest(m, u) \in Nat
  BY <1>4, <1>5, NearestMonotone
<1>8. Nearest(m, u) \in 0 .. Half
  BY <1>4, <1>6, <1>7, Halves
<1> QED
  BY <1>1, <1>2, <1>3, <1>8

\* sitofp keeps the range of the ints and changes no number twice.
LEMMA RoundSound ==
  ASSUME NEW x \in -Half .. Half
  PROVE  /\ RoundToF64(x) \in -Half .. Half
         /\ RoundToF64(RoundToF64(x)) = RoundToF64(x)
<1>1. PICK k, y : /\ Abs(x) \in 0 .. Half
                  /\ Bits(Abs(x), k)
                  /\ y = Nearest(Abs(x), 2 ^ k)
                  /\ y \in 0 .. Half
                  /\ RoundToF64(x) = Sign(x) * y
  BY MagnitudeOf
<1>2. PICK z : z = RoundToF64(x)
  OBVIOUS
<1>3. z \in -Half .. Half /\ Abs(z) = y /\ z = Sign(x) * y
  BY <1>1, <1>2, Halves DEF Sign, Abs
<1>4. PICK l, w : /\ Bits(Abs(z), l)
                  /\ w = Nearest(Abs(z), 2 ^ l)
                  /\ RoundToF64(z) = Sign(z) * w
  BY <1>3, MagnitudeOf
<1>5. Bits(y, l) /\ w = Nearest(y, 2 ^ l) /\ Abs(x) \in Nat
  BY <1>1, <1>3, <1>4
<1>6. w = y
  BY <1>1, <1>5, MagnitudesStay
<1>7. Sign(z) * y = Sign(x) * y
  BY <1>1, <1>3 DEF Sign
<1>8. RoundToF64(z) = z
  BY <1>3, <1>4, <1>6, <1>7
<1> QED
  BY <1>2, <1>3, <1>8

\* sitofp never swaps two numbers.
LEMMA RoundMonotone ==
  ASSUME NEW x \in -Half .. Half, NEW y \in -Half .. Half, x <= y
  PROVE  RoundToF64(x) <= RoundToF64(y)
<1>1. PICK k, p : /\ Abs(x) \in 0 .. Half
                  /\ Bits(Abs(x), k)
                  /\ p = Nearest(Abs(x), 2 ^ k)
                  /\ p \in 0 .. Half
                  /\ RoundToF64(x) = Sign(x) * p
  BY MagnitudeOf
<1>2. PICK l, q : /\ Abs(y) \in 0 .. Half
                  /\ Bits(Abs(y), l)
                  /\ q = Nearest(Abs(y), 2 ^ l)
                  /\ q \in 0 .. Half
                  /\ RoundToF64(y) = Sign(y) * q
  BY MagnitudeOf
<1>3. PICK m, n : m = Abs(x) /\ n = Abs(y)
  OBVIOUS
<1>4. m \in Nat /\ n \in Nat /\ p \in Nat /\ q \in Nat /\ Half \in Nat
  BY <1>1, <1>2, <1>3, Halves
<1>5. m <= n => p <= q
  BY <1>1, <1>2, <1>3, <1>4, MagnitudesOrder
<1>6. n <= m => q <= p
  BY <1>1, <1>2, <1>3, <1>4, MagnitudesOrder
<1>7. CASE x >= 0
  <2>1. m = x /\ n = y /\ RoundToF64(x) = p /\ RoundToF64(y) = q
    BY <1>1, <1>2, <1>3, <1>4, <1>7 DEF Abs, Sign
  <2> QED
    BY <1>4, <1>5, <2>1
<1>8. CASE x < 0 /\ y >= 0
  <2>1. RoundToF64(x) = -p /\ RoundToF64(y) = q
    BY <1>1, <1>2, <1>4, <1>8 DEF Sign
  <2> QED
    BY <1>4, <2>1
<1>9. CASE x < 0 /\ y < 0
  <2>1. m = -x /\ n = -y /\ RoundToF64(x) = -p /\ RoundToF64(y) = -q
    BY <1>1, <1>2, <1>3, <1>4, <1>9 DEF Abs, Sign
  <2> QED
    BY <1>4, <1>6, <2>1
<1> QED
  BY <1>4, <1>7, <1>8, <1>9


(***************************************************************************)
(* Comparisons.                                                            *)
(***************************************************************************)

\* A float is on the same side of an int as of what the int is promoted to.
LEMMA FloatsApart ==
  ASSUME NEW p \in FloatSet
  PROVE  /\ p \in Int /\ p # 2 * Infinity
         /\ \A x \in IntSet : /\ RoundToF64(x) < p => x < p
                              /\ p < RoundToF64(x) => p < x
<1>0. /\ IntSet \subseteq -Half .. Half /\ Half \in Nat \ {0} /\ Infinity = 4 * Half
  BY Halves
<1>1. CASE p \in {Infinity, -Infinity}
  <2>1. \A x \in IntSet : RoundToF64(x) \in -Half .. Half /\ x \in -Half .. Half
    BY <1>0, RoundSound
  <2> QED
    BY <1>0, <1>1, <2>1
<1>2. ASSUME NEW z \in IntSet, p = RoundToF64(z)
      PROVE  /\ p \in Int /\ p # 2 * Infinity
             /\ \A x \in IntSet : /\ RoundToF64(x) < p => x < p
                                  /\ p < RoundToF64(x) => p < x
  <2>1. p \in -Half .. Half /\ RoundToF64(p) = p
    BY <1>0, <1>2, RoundSound
  <2>2. ASSUME NEW x \in IntSet
        PROVE  /\ RoundToF64(x) < p => x < p
               /\ p < RoundToF64(x) => p < x
    <3>1. x \in -Half .. Half /\ RoundToF64(x) \in Int
      BY <1>0, RoundSound
    <3>2. p <= x => RoundToF64(p) <= RoundToF64(x)
      BY <2>1, <3>1, RoundMonotone
    <3>3. x <= p => RoundToF64(x) <= RoundToF64(p)
      BY <2>1, <3>1, RoundMonotone
    <3> QED
      BY <1>0, <2>1, <3>1, <3>2, <3>3
  <2> QED
    BY <1>0, <2>1, <2>2
<1> QED
  BY <1>1, <1>2 DEF FloatSet

\* What a number is compared as.
AsF64(v) == ToF64(v).p

LEMMA NumberIs ==
  ASSUME NEW v \in Values, Numeric(v)
  PROVE  \/ v.tag = "int" /\ v = IntV(v.p) /\ v.p \in IntSet
         \/ v.tag = "float" /\ v = Float(v.p) /\ v.p \in FloatSet /\ v # NaN
         \/ v = NaN /\ v.tag = "float"
<1>1. CASE v \in [tag : {"int"}, p : IntSet]
  BY <1>1 DEF IntV
<1>2. CASE v \in [tag : {"float"}, p : FloatSet]
  <2>1. v.p # 2 * Infinity
    BY <1>2, FloatsApart
  <2> QED
    BY <1>2, <2>1 DEF Float, NaN
<1>3. CASE v = NaN
  BY <1>3 DEF NaN, Float
<1>4. CASE v \in [tag : {"other"}, p : Other]
  BY <1>4 DEF Numeric
<1> QED
  BY <1>1, <1>2, <1>3, <1>4 DEF Values

\* Promotion makes no NaN and no number out of one.
LEMMA PromotedIs ==
  ASSUME NEW v \in Values, Numeric(v)
  PROVE  /\ ToF64(v) = NaN <=> v = NaN
         /\ v # NaN => AsF64(v) \in Int /\ v.p \in Int
         /\ ToF64(v).tag = "float"
<1>1. CASE v.tag = "int" /\ v = IntV(v.p) /\ v.p \in IntSet
  <2>1. RoundToF64(v.p) \in FloatSet
    BY <1>1 DEF FloatSet
  <2>2. RoundToF64(v.p) \in Int /\ RoundToF64(v.p) # 2 * Infinity
    BY <2>1, FloatsApart
  <2>3. v.p \in Int
    BY <1>1, Halves
  <2>4. ToF64(v) = Float(RoundToF64(v.p))
    BY <1>1 DEF ToF64
  <2>5. v # NaN
    BY <1>1 DEF NaN, Float
  <2> QED
    BY <2>2, <2>3, <2>4, <2>5 DEF NaN, Float, AsF64
<1>2. CASE v.tag = "float" /\ v = Float(v.p) /\ v.p \in FloatSet /\ v # NaN
  <2>1. v.p \in Int
    BY <1>2, FloatsApart
  <2> QED
    BY <1>2, <2>1 DEF ToF64, AsF64
<1>3. CASE v = NaN /\ v.tag = "float"
  BY <1>3 DEF ToF64
<1> QED
  BY <1>1, <1>2, <1>3, NumberIs

\* The numbers two values are compared as.
ComparedAs(x, y, f, g) ==
  /\ \A o \in Order : Is(o, x, y) <=> x # NaN /\ y # NaN /\ Holds(o, f, g)
  /\ Eq(x, y) <=> x # NaN /\ y # NaN /\ f = g

LEMMA Compared ==
  ASSUME NEW x \in Values, NEW y \in Values, Numeric(x), Numeric(y)
  PROVE  ComparedAs(x, y, IF BothInt(x, y) THEN x.p ELSE AsF64(x),
                          IF BothInt(x, y) THEN y.p ELSE AsF64(y))
<1>1. Bool(TRUE) # Bool(FALSE) /\ Abort # Bool(TRUE)
  BY DEF Bool, Abort
<1>2. CASE BothInt(x, y)
  <2>1. x # NaN /\ y # NaN
    BY <1>2 DEF BothInt, NaN, Float
  <2>2. ASSUME NEW o \in Order
        PROVE  Is(o, x, y) <=> Holds(o, x.p, y.p)
    BY <1>1, <1>2 DEF Is, IsTrue, CmpFn, Bool
  <2>3. Eq(x, y) <=> x.p = y.p
    BY <1>1, <1>2 DEF Eq, IsTrue, EqFn, BothInt, Bool
  <2> QED
    BY <1>2, <2>1, <2>2, <2>3 DEF ComparedAs
<1>3. CASE ~BothInt(x, y)
  <2>1. ToF64(x) = NaN <=> x = NaN
    BY PromotedIs
  <2>2. ToF64(y) = NaN <=> y = NaN
    BY PromotedIs
  <2>3. ASSUME NEW o \in Order
        PROVE  Is(o, x, y) <=> x # NaN /\ y # NaN /\ Holds(o, AsF64(x), AsF64(y))
    <3>1. CmpFn(o, x, y) = Bool(FloatHolds(o, ToF64(x), ToF64(y)))
      BY <1>3 DEF CmpFn
    <3>2. FloatHolds(o, ToF64(x), ToF64(y)) <=> x # NaN /\ y # NaN /\ Holds(o, AsF64(x), AsF64(y))
      BY <2>1, <2>2 DEF FloatHolds, AsF64
    <3> QED
      BY <1>1, <3>1, <3>2 DEF Is, IsTrue, Bool
  <2>4. Eq(x, y) <=> OeqFloat(ToF64(x), ToF64(y))
    <3>1. CASE x.tag = y.tag
      <4>1. x.tag = "float" /\ y.tag = "float"
        BY <1>3, <3>1 DEF BothInt, Numeric
      <4>2. ToF64(x) = x /\ ToF64(y) = y
        BY <4>1 DEF ToF64
      <4> QED
        BY <1>1, <3>1, <4>1, <4>2 DEF Eq, IsTrue, EqFn, Bool
    <3>2. CASE x.tag # y.tag
      BY <1>1, <3>2 DEF Eq, IsTrue, EqFn, Bool
    <3> QED
      BY <3>1, <3>2
  <2>5. OeqFloat(ToF64(x), ToF64(y)) <=> x # NaN /\ y # NaN /\ AsF64(x) = AsF64(y)
    BY <2>1, <2>2 DEF OeqFloat, AsF64
  <2> QED
    BY <1>3, <2>3, <2>4, <2>5 DEF ComparedAs
<1> QED
  BY <1>2, <1>3


\* Less as promoted is less.
LEMMA PromotionOrders ==
  ASSUME NEW x \in Values, NEW y \in Values, Numeric(x), Numeric(y), x # NaN, y # NaN,
         AsF64(x) < AsF64(y), ~BothInt(x, y)
  PROVE  x.p < y.p
<1>1. CASE x.tag = "int" /\ x.p \in IntSet
  <2>1. y.tag = "float" /\ y.p \in FloatSet
    BY <1>1, NumberIs DEF BothInt
  <2>2. AsF64(x) = RoundToF64(x.p) /\ AsF64(y) = y.p
    BY <1>1, <2>1 DEF AsF64, ToF64, Float
  <2> QED
    BY <1>1, <2>1, <2>2, FloatsApart
<1>2. CASE x.tag = "float" /\ x.p \in FloatSet
  <2>1. AsF64(x) = x.p
    BY <1>2 DEF AsF64, ToF64
  <2>2. CASE y.tag = "int" /\ y.p \in IntSet
    <3>1. AsF64(y) = RoundToF64(y.p)
      BY <2>2 DEF AsF64, ToF64, Float
    <3> QED
      BY <1>2, <2>1, <2>2, <3>1, FloatsApart
  <2>3. CASE y.tag = "float"
    BY <2>1, <2>3 DEF AsF64, ToF64
  <2> QED
    BY <2>2, <2>3, NumberIs
<1> QED
  BY <1>1, <1>2, NumberIs

\* How many of three hold.
LEMMA OneOfThree ==
  ASSUME NEW p \in BOOLEAN, NEW q \in BOOLEAN, NEW r \in BOOLEAN
  PROVE  /\ (p /\ ~q /\ ~r) \/ (~p /\ q /\ ~r) \/ (~p /\ ~q /\ r) =>
              Cardinality({x \in {1, 2, 3} : <<p, q, r>>[x]}) = 1
         /\ ~p /\ ~q /\ ~r => Cardinality({x \in {1, 2, 3} : <<p, q, r>>[x]}) = 0
<1>1. PICK T : T = {x \in {1, 2, 3} : <<p, q, r>>[x]}
  OBVIOUS
<1>2. /\ p /\ ~q /\ ~r => T = {1}
      /\ ~p /\ q /\ ~r => T = {2}
      /\ ~p /\ ~q /\ r => T = {3}
      /\ ~p /\ ~q /\ ~r => T = {}
  BY <1>1
<1>3. Cardinality({1}) = 1 /\ Cardinality({2}) = 1 /\ Cardinality({3}) = 1 /\ Cardinality({}) = 0
  BY FS_Singleton, FS_EmptySet
<1> QED
  BY <1>1, <1>2, <1>3

LEMMA Ordered ==
  ASSUME a \in Values, b \in Values
  PROVE  Trichotomy
<1> SUFFICES ASSUME Numeric(a), Numeric(b)
             PROVE  /\ Cardinality({x \in {1, 2, 3} : <<Is("trails", a, b), Eq(a, b), Is("beats", a, b)>>[x]}) =
                         (IF NaN \in {a, b} THEN 0 ELSE 1)
                    /\ Is("atmost", a, b) = (Is("trails", a, b) \/ Eq(a, b))
                    /\ Is("atleast", a, b) = (Is("beats", a, b) \/ Eq(a, b))
                    /\ Is("beats", a, b) = Is("trails", b, a)
                    /\ Eq(a, b) = Eq(b, a)
                    /\ Is("trails", a, b) => Exact(a) < Exact(b)
                    /\ BothInt(a, b) => (Is("trails", a, b) <=> Exact(a) < Exact(b))
  BY DEF Trichotomy
<1>1. PICK f, g : /\ f = IF BothInt(a, b) THEN a.p ELSE AsF64(a)
                  /\ g = IF BothInt(a, b) THEN b.p ELSE AsF64(b)
  OBVIOUS
<1>2. ComparedAs(a, b, f, g) /\ ComparedAs(b, a, g, f)
  <2>1. BothInt(b, a) <=> BothInt(a, b)
    BY DEF BothInt
  <2>2. ComparedAs(a, b, f, g)
    BY <1>1, Compared
  <2>3. ComparedAs(b, a, IF BothInt(b, a) THEN b.p ELSE AsF64(b),
                         IF BothInt(b, a) THEN a.p ELSE AsF64(a))
    BY Compared
  <2> QED
    BY <1>1, <2>1, <2>2, <2>3
<1>3. a # NaN => f \in Int
  BY <1>1, PromotedIs
<1>4. b # NaN => g \in Int
  BY <1>1, PromotedIs
<1>5. PICK lt, eq, gt, le, ge, tl, qe :
        /\ lt = Is("trails", a, b) /\ eq = Eq(a, b) /\ gt = Is("beats", a, b)
        /\ le = Is("atmost", a, b) /\ ge = Is("atleast", a, b)
        /\ tl = Is("trails", b, a) /\ qe = Eq(b, a)
  OBVIOUS
<1>6. /\ lt \in BOOLEAN /\ eq \in BOOLEAN /\ gt \in BOOLEAN /\ le \in BOOLEAN
      /\ ge \in BOOLEAN /\ tl \in BOOLEAN /\ qe \in BOOLEAN
  BY <1>5 DEF Is, Eq, IsTrue
<1>7. PICK n \in BOOLEAN : n <=> a # NaN /\ b # NaN
  OBVIOUS
<1>8. /\ lt <=> n /\ f < g
      /\ gt <=> n /\ f > g
      /\ le <=> n /\ f <= g
      /\ ge <=> n /\ f >= g
      /\ eq <=> n /\ f = g
      /\ tl <=> n /\ g < f
      /\ qe <=> n /\ g = f
  BY <1>2, <1>5, <1>7 DEF ComparedAs, Order, Holds
<1>9. n => f \in Int /\ g \in Int
  BY <1>3, <1>4, <1>7
<1>10. /\ n => (lt /\ ~eq /\ ~gt) \/ (~lt /\ eq /\ ~gt) \/ (~lt /\ ~eq /\ gt)
       /\ ~n => ~lt /\ ~eq /\ ~gt
       /\ le <=> lt \/ eq
       /\ ge <=> gt \/ eq
       /\ gt <=> tl
       /\ eq <=> qe
  BY <1>8, <1>9
<1>14. le = (lt \/ eq) /\ ge = (gt \/ eq) /\ gt = tl /\ eq = qe
  BY <1>6, <1>10, Zenon
<1>11. Cardinality({x \in {1, 2, 3} : <<lt, eq, gt>>[x]}) = IF NaN \in {a, b} THEN 0 ELSE 1
  BY <1>6, <1>7, <1>10, OneOfThree
<1>12. lt => Exact(a) < Exact(b)
  <2> SUFFICES ASSUME lt
               PROVE  a.p < b.p
    BY DEF Exact
  <2>1. CASE BothInt(a, b)
    BY <1>1, <1>8, <2>1
  <2>2. CASE ~BothInt(a, b)
    BY <1>1, <1>7, <1>8, <2>2, PromotionOrders
  <2> QED
    BY <2>1, <2>2
<1>13. BothInt(a, b) => (lt <=> Exact(a) < Exact(b))
  <2>1. BothInt(a, b) => n
    BY <1>7 DEF BothInt, NaN, Float
  <2> QED
    BY <1>1, <1>8, <2>1 DEF Exact
<1> QED
  BY <1>5, <1>11, <1>12, <1>13, <1>14


(***************************************************************************)
(* Arithmetic.                                                             *)
(***************************************************************************)

\* verb_neg of an int: only the least one is its own negation.
LEMMA NegatedInt ==
  ASSUME NEW y \in IntSet
  PROVE  /\ NegFn(IntV(y)) = {IntV(IF y = MinInt THEN MinInt ELSE -y)}
         /\ (IF y = MinInt THEN MinInt ELSE -y) \in IntSet
<1>1. Half \in Nat \ {0} /\ 2 ^ Width = 2 * Half /\ MinInt = -Half /\ y \in -Half .. Half - 1
      /\ IntSet = -Half .. Half - 1
  BY Halves
<1>2. Wrap(-y) = ((Half - y) % (2 * Half)) - Half
  BY <1>1 DEF Wrap
<1>3. (Half - y) % (2 * Half) = IF y = -Half THEN 0 ELSE Half - y
  <2>1. PICK u : u = 2 * Half
    OBVIOUS
  <2>2. u \in Nat \ {0}
    BY <1>1, <2>1
  <2>3. CASE y = -Half
    <3>1. (u * 1 + 0) % u = 0 /\ u * 1 + 0 = Half - y
      BY <1>1, <2>1, <2>2, <2>3, DividesOnce
    <3> QED
      BY <2>1, <2>3, <3>1
  <2>4. CASE y # -Half
    <3>1. PICK d : d = Half - y
      OBVIOUS
    <3>2. d \in Nat /\ d < u /\ u * 0 + d = d
      BY <1>1, <2>1, <2>4, <3>1
    <3>3. (u * 0 + d) % u = d
      BY <2>2, <3>2, DividesOnce
    <3> QED
      BY <2>1, <2>4, <3>1, <3>2, <3>3
  <2> QED
    BY <2>3, <2>4
<1>4. Wrap(-y) = IF y = MinInt THEN MinInt ELSE -y
  BY <1>1, <1>2, <1>3
<1>5. NegFn(IntV(y)) = {IntV(Wrap(-y))}
  <2>1. PICK v : v = IntV(y)
    OBVIOUS
  <2>2. v.tag = "int" /\ v.p = y /\ v # NaN
    BY <2>1 DEF IntV, NaN, Float
  <2>3. NegFn(v) = {IntV(Wrap(-v.p))}
    BY <2>2 DEF NegFn
  <2> QED
    BY <2>1, <2>2, <2>3
<1> QED
  BY <1>1, <1>4, <1>5

\* Quotient and remainder of two magnitudes, with their signs.
LEMMA QuotientIs ==
  ASSUME NEW x \in IntSet, NEW y \in IntSet, y # 0
  PROVE  \E q, r \in Nat :
           /\ r < Abs(y) /\ Abs(x) = Abs(y) * q + r
           /\ Quotient(x, y) = Sign(x) * Sign(y) * q
           /\ Remainder(x, y) = Sign(x) * r
           /\ Quotient(x, y) * y = x - Sign(x) * r
<1>1. x \in Int /\ y \in Int
  BY Halves
<1>2. PICK m, u : m = Abs(x) /\ u = Abs(y)
  OBVIOUS
<1>3. m \in Nat /\ u \in Nat \ {0} /\ x = Sign(x) * m /\ y = Sign(y) * u
  BY <1>1, <1>2 DEF Abs, Sign
<1>4. PICK q, r \in Nat : q = m \div u /\ r = m % u /\ r < u /\ m = u * q + r
  BY <1>3, Divides
<1>5. Quotient(x, y) = Sign(x) * Sign(y) * q
  BY <1>2, <1>4 DEF Quotient
<1>6. PICK e, f : e = Sign(x) /\ f = Sign(y)
  OBVIOUS
<1>7. e \in {1, -1} /\ f \in {1, -1}
  BY <1>6 DEF Sign
<1>8. (e * f * q) * (f * u) = e * (u * q)
  BY <1>3, <1>7
<1>9. e * (u * q) = e * m - e * r
  BY <1>3, <1>4, <1>7
<1>10. Quotient(x, y) * y = x - e * r
  BY <1>3, <1>5, <1>6, <1>8, <1>9
<1>11. Remainder(x, y) = e * r
  <2>1. y * Quotient(x, y) = Quotient(x, y) * y
    BY <1>1, <1>3, <1>4, <1>5, <1>6, <1>7
  <2> QED
    BY <1>1, <1>4, <1>7, <1>10, <2>1 DEF Remainder
<1> QED
  BY <1>2, <1>4, <1>5, <1>6, <1>10, <1>11

\* They are ints, but for the one quotient that is too large.
LEMMA QuotientInt ==
  ASSUME NEW x \in IntSet, NEW y \in IntSet, y # 0, ~(x = MinInt /\ y = -1)
  PROVE  /\ Quotient(x, y) \in IntSet /\ Remainder(x, y) \in IntSet
         /\ Quotient(x, y) * y \in IntSet
         /\ Quotient(x, y) * y + Remainder(x, y) = x
         /\ Abs(Remainder(x, y)) < Abs(y)
         /\ Remainder(x, y) = 0 \/ Sign(Remainder(x, y)) = Sign(x)
<1>0. /\ Half \in Nat \ {0} /\ MinInt = -Half /\ IntSet = -Half .. Half - 1
      /\ x \in -Half .. Half - 1 /\ y \in -Half .. Half - 1
  BY Halves
<1>1. PICK q, r \in Nat :
        /\ r < Abs(y) /\ Abs(x) = Abs(y) * q + r
        /\ Quotient(x, y) = Sign(x) * Sign(y) * q
        /\ Remainder(x, y) = Sign(x) * r
        /\ Quotient(x, y) * y = x - Sign(x) * r
  BY QuotientIs
<1>2. PICK m, u : m = Abs(x) /\ u = Abs(y)
  OBVIOUS
<1>3. m \in 0 .. Half /\ u \in Nat \ {0} /\ r < u /\ m = u * q + r
  BY <1>0, <1>1, <1>2 DEF Abs
<1>4. u * q \in Nat /\ r <= m
  BY <1>3
<1>5. q <= u * q
  BY <1>3
<1>6. q <= Half
  BY <1>0, <1>3, <1>4, <1>5
<1>7. q = Half => m = Half /\ u = 1
  <2> SUFFICES ASSUME q = Half
               PROVE  m = Half /\ u = 1
    OBVIOUS
  <2>1. m = Half
    BY <1>0, <1>3, <1>4, <1>5
  <2>2. ASSUME u >= 2 PROVE FALSE
    <3>1. 2 * q <= u * q
      BY <1>3, <2>2
    <3> QED
      BY <1>0, <1>3, <1>4, <2>1, <3>1
  <2> QED
    BY <1>3, <2>1, <2>2
<1>8. Quotient(x, y) \in IntSet
  <2>1. CASE q < Half
    BY <1>0, <1>1, <2>1 DEF Sign
  <2>2. CASE q = Half
    <3>1. x = -Half /\ y = 1
      BY <1>0, <1>2, <1>7, <2>2 DEF Abs
    <3> QED
      BY <1>0, <1>1, <2>2, <3>1 DEF Sign
  <2> QED
    BY <1>0, <1>6, <2>1, <2>2
<1>9. r <= Abs(x)
  BY <1>2, <1>4
<1>10. Remainder(x, y) \in IntSet /\ Quotient(x, y) * y \in IntSet
  BY <1>0, <1>1, <1>9 DEF Sign, Abs
<1>11. Quotient(x, y) * y + Remainder(x, y) = x
  BY <1>0, <1>1 DEF Sign
<1>12. Abs(Remainder(x, y)) < Abs(y)
  BY <1>0, <1>1 DEF Sign, Abs
<1>13. Remainder(x, y) = 0 \/ Sign(Remainder(x, y)) = Sign(x)
  BY <1>0, <1>1 DEF Sign
<1> QED
  BY <1>8, <1>10, <1>11, <1>12, <1>13

\* The laws of the int helpers, of two ints.
LEMMA IntsAgree ==
  ASSUME a \in Values, b \in Values, BothInt(a, b)
  PROVE  LET x == a.p  y == b.p
             Two(o, p, q) == {r \in IntOp(o, p, q) : r.tag = "int"}
             neg(p) == CHOOSE r \in NegFn(IntV(p)) : TRUE
         IN  /\ y # 0 /\ ~(x = MinInt /\ y = -1) =>
                  \A q \in Two("div", x, y), r \in Two("mod", x, y) :
                    /\ \E t \in Two("times", q.p, y) : Two("add", t.p, r.p) = {a}
                    /\ Abs(r.p) < Abs(y)
                    /\ r.p = 0 \/ Sign(r.p) = Sign(x)
             /\ \A d \in Two("sub", x, y), e \in Two("add", x, neg(y).p) : d = e
             /\ neg(neg(x).p) = a
<1> DEFINE Two(o, p, q) == {r \in IntOp(o, p, q) : r.tag = "int"}
           neg(p) == CHOOSE r \in NegFn(IntV(p)) : TRUE
<1>1. PICK x, y \in IntSet : a = IntV(x) /\ b = IntV(y) /\ a.p = x /\ b.p = y
  <2>1. Numeric(a) /\ Numeric(b) /\ a.tag = "int" /\ b.tag = "int"
    BY DEF BothInt, Numeric
  <2> QED
    BY <2>1, NumberIs DEF NaN, Float
<1>2. \A z : IntV(z).tag = "int" /\ IntV(z).p = z /\ Abort.tag = "abort"
  BY DEF IntV, Abort
<1>3. ASSUME NEW z \in IntSet
      PROVE  neg(z) = IntV(IF z = MinInt THEN MinInt ELSE -z)
  BY NegatedInt
<1>4. \A z \in IntSet : {r \in Checked(z) : r.tag = "int"} = {IntV(z)}
  BY <1>2 DEF Checked
<1>5. ASSUME y # 0, ~(x = MinInt /\ y = -1),
             NEW q \in Two("div", x, y), NEW r \in Two("mod", x, y)
      PROVE  /\ \E t \in Two("times", q.p, y) : Two("add", t.p, r.p) = {a}
             /\ Abs(r.p) < Abs(y)
             /\ r.p = 0 \/ Sign(r.p) = Sign(x)
  <2>1. q = IntV(Quotient(x, y)) /\ r = IntV(Remainder(x, y))
    BY <1>5 DEF IntOp, Srem
  <2>2. PICK n, m : n = Quotient(x, y) /\ m = Remainder(x, y)
    OBVIOUS
  <2>3. q.p = n /\ r.p = m
    BY <1>2, <2>1, <2>2
  <2>4. /\ n * y \in IntSet /\ n * y + m = x
        /\ Abs(m) < Abs(y) /\ (m = 0 \/ Sign(m) = Sign(x))
    BY <1>5, <2>2, QuotientInt
  <2>5. Two("times", n, y) = {IntV(n * y)}
    BY <1>4, <2>4 DEF IntOp
  <2>6. Two("add", n * y, m) = {IntV(x)}
    BY <1>4, <2>4 DEF IntOp
  <2> QED
    BY <1>1, <1>2, <2>3, <2>4, <2>5, <2>6
<1>6. ASSUME NEW d \in Two("sub", x, y), NEW e \in Two("add", x, neg(y).p)
      PROVE  d = e
  <2>1. PICK z : z = neg(y).p
    OBVIOUS
  <2>2. z = IF y = MinInt THEN MinInt ELSE -y
    BY <1>2, <1>3, <2>1
  <2>3. d = IntV(x - y) /\ x - y \in IntSet
    BY <1>2 DEF IntOp, Checked
  <2>4. e = IntV(x + z) /\ x + z \in IntSet
    BY <1>2, <2>1 DEF IntOp, Checked
  <2>5. x \in Int /\ y \in Int /\ Half \in Nat \ {0} /\ MinInt = -Half /\ IntSet = -Half .. Half - 1
    BY Halves
  <2>6. x - y = x + z
    BY <2>2, <2>3, <2>4, <2>5
  <2> QED
    BY <2>3, <2>4, <2>6
<1>7. neg(neg(x).p) = a
  <2>1. PICK z : z = neg(x).p
    OBVIOUS
  <2>2. z = (IF x = MinInt THEN MinInt ELSE -x) /\ z \in IntSet
    BY <1>2, <1>3, <2>1, NegatedInt
  <2>3. neg(z) = IntV(IF z = MinInt THEN MinInt ELSE -z)
    BY <1>3, <2>2
  <2>4. x \in Int /\ Half \in Nat \ {0} /\ MinInt = -Half /\ IntSet = -Half .. Half - 1
    BY Halves
  <2>5. (IF z = MinInt THEN MinInt ELSE -z) = x
    BY <2>2, <2>4
  <2> QED
    BY <1>1, <2>1, <2>3, <2>5
<1> QED
  BY <1>1, <1>5, <1>6, <1>7


\* The greatest int has more bits than a float, and is rounded up.
LEMMA RoundMaxInt == RoundToF64(Half - 1) = Half
<1>0. /\ Width \in Nat /\ Width - 1 \in Nat /\ Precision \in Nat \ {0} /\ Half \in Nat \ {0}
      /\ Precision < Width - 1
  BY Halves, NumbersAssumption DEF NumbersAssumption
<1>1. PICK k, y : /\ Abs(Half - 1) \in 0 .. Half
                  /\ Bits(Abs(Half - 1), k)
                  /\ y = Nearest(Abs(Half - 1), 2 ^ k)
                  /\ y \in 0 .. Half
                  /\ RoundToF64(Half - 1) = Sign(Half - 1) * y
  BY <1>0, MagnitudeOf
<1>2. PICK n, e : n = Half - 1 /\ e = (Width - 1) - Precision
  OBVIOUS
<1>3. /\ n \in Nat /\ n <= n /\ Abs(n) = n /\ Sign(n) = 1
      /\ e \in Nat \ {0} /\ Precision + e = Width - 1
  BY <1>0, <1>2 DEF Abs, Sign
<1>4. Bits(n, e)
  <2>1. 2 ^ (Precision + e) = Half
    BY <1>3, Zenon DEF Half
  <2>2. ASSUME NEW j \in 0 .. e - 1
        PROVE  n >= 2 ^ (Precision + j)
    <3>1. Width - 2 \in Nat /\ (Width - 2) + 1 = Width - 1 /\ Precision + j \in Nat
          /\ Precision + j <= Width - 2
      BY <1>0, <1>2, <1>3
    <3>2. 2 ^ (Precision + j) <= 2 ^ (Width - 2) /\ 2 ^ (Precision + j) \in Nat
      BY <3>1, PowerDivides, PowerPositive
    <3>3. 2 ^ ((Width - 2) + 1) = 2 * 2 ^ (Width - 2) /\ 2 ^ (Width - 2) \in Nat \ {0}
      BY <3>1, PowerDoubles, PowerPositive
    <3>4. Half = 2 * 2 ^ (Width - 2)
      BY <3>1, <3>3, Zenon DEF Half
    <3> QED
      BY <1>2, <3>2, <3>3, <3>4
  <2> QED
    BY <1>0, <1>2, <1>3, <2>1, <2>2 DEF Bits
<1>5. k = e
  <2>1. Bits(n, k)
    BY <1>1, <1>2, <1>3
  <2>2. k <= e
    BY <1>3, <1>4, <2>1, BitsOrder
  <2>3. e <= k
    BY <1>3, <1>4, <2>1, BitsOrder
  <2> QED
    BY <1>3, <2>1, <2>2, <2>3 DEF Bits
<1>6. PICK u, h, c, d : u = 2 ^ e /\ h = 2 ^ (e - 1) /\ c = 2 ^ Precision /\ d = 2 ^ (Precision - 1)
  OBVIOUS
<1>7. u = 2 * h /\ h \in Nat \ {0}
  <2>1. e - 1 \in Nat /\ (e - 1) + 1 = e
    BY <1>3
  <2>2. 2 ^ ((e - 1) + 1) = 2 * 2 ^ (e - 1) /\ 2 ^ (e - 1) \in Nat \ {0}
    BY <2>1, PowerDoubles, PowerPositive
  <2> QED
    BY <1>6, <2>1, <2>2, Zenon
<1>8. c = 2 * d /\ d \in Nat \ {0}
  <2>1. Precision - 1 \in Nat /\ (Precision - 1) + 1 = Precision
    BY <1>0
  <2>2. 2 ^ ((Precision - 1) + 1) = 2 * 2 ^ (Precision - 1) /\ 2 ^ (Precision - 1) \in Nat \ {0}
    BY <2>1, PowerDoubles, PowerPositive
  <2> QED
    BY <1>6, <2>1, <2>2, Zenon
<1>9. Half = u * c
  <2>1. 2 ^ (Precision + e) = c * u
    BY <1>0, <1>3, <1>6, PowerAdds, Zenon
  <2>2. c * u = u * c
    BY <1>7, <1>8
  <2> QED
    BY <1>3, <2>1, <2>2, Zenon DEF Half
<1>10. n = u * (c - 1) + (u - 1)
  BY <1>2, <1>7, <1>8, <1>9
<1>11. n \div u = c - 1 /\ n % u = u - 1
  <2>1. u \in Nat \ {0} /\ c - 1 \in Nat /\ u - 1 \in Nat /\ u - 1 < u
    BY <1>7, <1>8
  <2> QED
    BY <1>10, <2>1, DividesOnce
<1>12. Nearest(n, u) = u * c
  <2>1. 2 * (u - 1) > u \/ 2 * (u - 1) = u
    BY <1>7
  <2>2. (c - 1) % 2 = 1
    <3>1. c - 1 = 2 * (d - 1) + 1 /\ d - 1 \in Nat
      BY <1>8
    <3>2. (2 * (d - 1) + 1) % 2 = 1
      BY <3>1, DividesOnce
    <3> QED
      BY <3>1, <3>2
  <2>3. (c - 1) + 1 = c
    BY <1>8
  <2> QED
    BY <1>11, <2>1, <2>2, <2>3 DEF Nearest
<1> QED
  BY <1>0, <1>1, <1>2, <1>3, <1>5, <1>6, <1>9, <1>12

\* verb_neg of a float is a float.
LEMMA NegatedFloat ==
  ASSUME NEW p \in FloatSet
  PROVE  -p \in FloatSet
<1>0. /\ Half \in Nat \ {0} /\ IntSet = -Half .. Half - 1 /\ Infinity = 4 * Half
  BY Halves
<1>1. CASE p \in {Infinity, -Infinity}
  BY <1>0, <1>1 DEF FloatSet
<1>2. ASSUME NEW z \in IntSet, p = RoundToF64(z)
      PROVE  -p \in FloatSet
  <2>1. PICK k, y : /\ Abs(z) \in 0 .. Half
                    /\ Bits(Abs(z), k)
                    /\ y = Nearest(Abs(z), 2 ^ k)
                    /\ y \in 0 .. Half
                    /\ RoundToF64(z) = Sign(z) * y
    <3>1. z \in -Half .. Half
      BY <1>0
    <3> QED
      BY <3>1, MagnitudeOf
  <2>2. z \in Int /\ z \in -Half .. Half /\ -z \in -Half .. Half /\ Abs(-z) = Abs(z) /\ y \in Nat
    BY <1>0, <2>1 DEF Abs
  <2>3. RoundToF64(-z) = Sign(-z) * y
    <3>1. PICK l, w : /\ Bits(Abs(-z), l)
                      /\ w = Nearest(Abs(-z), 2 ^ l)
                      /\ RoundToF64(-z) = Sign(-z) * w
      BY <2>2, MagnitudeOf
    <3>2. PICK m : m = Abs(z)
      OBVIOUS
    <3>3. m \in Nat /\ m <= m /\ Bits(m, k) /\ Bits(m, l)
      BY <2>1, <2>2, <3>1, <3>2
    <3>4. k <= l
      BY <3>3, BitsOrder
    <3>5. l <= k
      BY <3>3, BitsOrder
    <3>6. k = l
      BY <3>3, <3>4, <3>5 DEF Bits
    <3> QED
      BY <2>1, <2>2, <3>1, <3>6
  <2>4. CASE z = 0
    <3>1. 2 ^ k \in Nat \ {0}
      BY <2>1, PowerPositive DEF Bits
    <3>2. PICK u : u = 2 ^ k
      OBVIOUS
    <3>3. Nearest(u * 0, u) = u * 0 /\ u * 0 = 0 /\ Abs(z) = 0
      BY <2>4, <3>1, <3>2, NearestExact DEF Abs
    <3>4. y = 0
      BY <2>1, <3>2, <3>3
    <3>5. p = 0
      BY <1>2, <2>1, <3>4 DEF Sign
    <3> QED
      BY <1>2, <3>5 DEF FloatSet
  <2>5. CASE z # 0 /\ z # -Half
    <3>1. -z \in IntSet
      BY <1>0, <2>5
    <3>2. Sign(z) * y = -(Sign(-z) * y)
      BY <2>2, <2>5 DEF Sign
    <3>3. -p = Sign(-z) * y
      BY <1>2, <2>1, <2>2, <3>2 DEF Sign
    <3>4. \E w \in IntSet : -p = RoundToF64(w)
      BY <2>3, <3>1, <3>3
    <3> QED
      BY <3>4 DEF FloatSet
  <2>6. CASE z = -Half
    <3>1. RoundToF64(Half - 1) = Half /\ Half - 1 \in IntSet
      BY <1>0, RoundMaxInt
    <3>2. Half - 1 \in -Half .. Half /\ Half \in -Half .. Half /\ Half - 1 <= Half
      BY <1>0
    <3>3. RoundToF64(Half - 1) <= RoundToF64(Half)
      BY <3>2, RoundMonotone
    <3>4. RoundToF64(Half) = y
      BY <1>0, <2>3, <2>2, <2>6 DEF Sign
    <3>5. y = Half
      BY <1>0, <2>1, <3>1, <3>3, <3>4
    <3>6. -p = Half
      BY <1>0, <1>2, <2>1, <2>6, <3>5 DEF Sign
    <3>7. \E w \in IntSet : -p = RoundToF64(w)
      BY <3>1, <3>6
    <3> QED
      BY <3>7 DEF FloatSet
  <2> QED
    BY <2>4, <2>5, <2>6
<1> QED
  BY <1>1, <1>2 DEF FloatSet

\* What a helper may return.
Result(r) ==
  /\ r.tag \in {"int", "float", "bool", "abort"}
  /\ r.tag = "int" => r.p \in IntSet
  /\ r.tag = "float" => r \in AnyFloat

LEMMA ArithResult ==
  ASSUME NEW o \in Arith, NEW x \in Values, NEW y \in Values, NEW r \in ArithFn(o, x, y)
  PROVE  Result(r)
<1>1. Result(Abort)
  BY DEF Abort, Result
<1>2. \A z \in IntSet : Result(IntV(z))
  BY DEF IntV, Result
<1>3. \A z : \A e \in Checked(z) : Result(e)
  BY <1>1, <1>2 DEF Checked
<1>4. \A e \in Undefined : Result(e)
  BY <1>1 DEF Undefined, Result
<1>5. \A e \in AnyFloat : Result(e)
  BY DEF AnyFloat, NaN, Float, Result
<1>6. CASE BothInt(x, y)
  <2>1. PICK m, n \in IntSet : m = x.p /\ n = y.p
    <3>1. Numeric(x) /\ Numeric(y) /\ x.tag = "int" /\ y.tag = "int"
      BY <1>6 DEF BothInt, Numeric
    <3> QED
      BY <3>1, NumberIs DEF NaN, Float
  <2>2. r \in IntOp(o, m, n)
    BY <1>6, <2>1 DEF ArithFn
  <2>3. CASE o \in {"add", "sub", "times"}
    BY <1>3, <2>2, <2>3 DEF IntOp
  <2>4. CASE o = "div"
    BY <1>1, <1>2, <1>4, <2>2, <2>4, QuotientInt DEF IntOp
  <2>5. CASE o = "mod"
    BY <1>1, <1>2, <1>4, <2>2, <2>5, QuotientInt DEF IntOp, Srem
  <2> QED
    BY <2>3, <2>4, <2>5 DEF Arith
<1>7. CASE ~BothInt(x, y)
  BY <1>1, <1>5, <1>7 DEF ArithFn, FloatOp
<1> QED
  BY <1>6, <1>7

LEMMA NegResult ==
  ASSUME NEW x \in Values, NEW r \in NegFn(x)
  PROVE  Result(r)
<1>1. CASE x.tag = "int"
  <2>1. Numeric(x)
    BY <1>1 DEF Numeric
  <2>2. x = IntV(x.p) /\ x.p \in IntSet
    BY <1>1, <2>1, NumberIs DEF NaN, Float
  <2>3. \A z \in IntSet : Result(IntV(z))
    BY DEF IntV, Result
  <2> QED
    BY <2>2, <2>3, NegatedInt
<1>2. CASE x.tag # "int" /\ x = NaN
  <2>1. r = NaN
    BY <1>2 DEF NegFn, NaN, Float
  <2> QED
    BY <2>1 DEF Result, AnyFloat, NaN, Float
<1>3. CASE x.tag = "float" /\ x # NaN
  <2>1. x.p \in FloatSet
    BY <1>3, NumberIs DEF Numeric
  <2>2. r = Float(-x.p)
    BY <1>3 DEF NegFn
  <2> QED
    BY <2>1, <2>2, NegatedFloat DEF Result, AnyFloat, Float
<1>4. CASE x.tag = "other"
  <2>1. x # NaN
    BY <1>4 DEF NaN, Float
  <2>2. r = Abort
    BY <1>4, <2>1 DEF NegFn
  <2> QED
    BY <2>2 DEF Result, Abort
<1> QED
  BY <1>1, <1>2, <1>3, <1>4 DEF Values, NaN, Float

\* The type invariant is inductive.
LEMMA NumStep ==
  ASSUME NumTypeOK, [NumNext]_numVars
  PROVE  NumTypeOK'
<1>1. CASE UNCHANGED numVars
  BY <1>1 DEF NumTypeOK, numVars
<1>2. ASSUME NEW o, NEW r, Call(o, r), Result(r),
             o \in Arith \cup Order \cup {"none", "neg", "equals"},
             o \in Order \cup {"equals"} => r.tag \in {"bool", "abort"}
      PROVE  NumTypeOK'
  <2>1. op' = o /\ res' = r /\ a' = a /\ b' = b
    BY <1>2 DEF Call
  <2> QED
    BY <1>2, <2>1 DEF NumTypeOK, Result
<1>3. ASSUME NEW o \in Arith, NEW r \in ArithFn(o, a, b), Call(o, r)
      PROVE  NumTypeOK'
  <2>1. Result(r)
    BY <1>3, ArithResult DEF NumTypeOK
  <2>2. o \notin Order \cup {"equals"}
    BY DEF Arith, Order
  <2> QED
    BY <1>2, <1>3, <2>1, <2>2
<1>4. ASSUME NEW r \in NegFn(a), Call("neg", r)
      PROVE  NumTypeOK'
  <2>1. Result(r)
    BY <1>4, NegResult DEF NumTypeOK
  <2>2. "neg" \notin Order \cup {"equals"}
    BY DEF Order
  <2> QED
    BY <1>2, <1>4, <2>1, <2>2
<1>5. \A x \in BOOLEAN : Result(Bool(x)) /\ Bool(x).tag = "bool"
  BY DEF Result, Bool
<1>6. Result(Abort) /\ Abort.tag = "abort"
  BY DEF Result, Abort
<1>7. ASSUME NEW o \in Order, Call(o, CmpFn(o, a, b))
      PROVE  NumTypeOK'
  <2>1. CmpFn(o, a, b) = Abort \/ \E x \in BOOLEAN : CmpFn(o, a, b) = Bool(x)
    BY DEF CmpFn, Bool
  <2> QED
    BY <1>2, <1>5, <1>6, <1>7, <2>1
<1>8. ASSUME Call("equals", EqFn(a, b))
      PROVE  NumTypeOK'
  <2>1. \E x \in BOOLEAN : EqFn(a, b) = Bool(x)
    BY DEF EqFn, Bool
  <2> QED
    BY <1>2, <1>5, <1>8, <2>1
<1> QED
  BY <1>1, <1>3, <1>4, <1>7, <1>8 DEF NumNext

\* So the laws hold wherever the types do.
LEMMA LawsFollow ==
  ASSUME NumTypeOK
  PROVE  Trichotomy /\ IntLaws
<1>1. a \in Values /\ b \in Values
  BY DEF NumTypeOK
<1>2. Trichotomy
  BY <1>1, Ordered
<1>3. IntLaws
  BY <1>1, IntsAgree DEF IntLaws
<1> QED
  BY <1>2, <1>3

\* Numbers at rest and at work.
LEMMA NumInitOK == NumInit \/ NoNumber => NumTypeOK
<1>0. /\ Half \in Nat \ {0} /\ IntSet = -Half .. Half - 1
  BY Halves
<1>1. 0 \in IntSet
  BY <1>0
<1>2. NumInit => NumTypeOK
  BY DEF NumInit, NumTypeOK, Bool, Order
<1>3. NoNumber => NumTypeOK
  <2>1. IntV(0) \in Values
    BY <1>1 DEF IntV, Values
  <2> QED
    BY <1>1, <2>1 DEF NoNumber, NumTypeOK, IntV, Order
<1> QED
  BY <1>2, <1>3

LEMMA NumInvariance == Spec => []NumTypeOK
<1>1. Init => NumTypeOK
  BY NumInitOK DEF Init
<1>2. NumTypeOK /\ [Next]_vars => NumTypeOK'
  <2>1. [Next]_vars => [NumNext]_numVars
    BY DEF Next, vars, CallStep, StringStep, NumberStep, VariantStep, IoStep, HeapStep
  <2> QED
    BY <2>1, NumStep
<1> QED
  BY <1>1, <1>2, PTL DEF Spec

\* The comparison helpers order the numbers of any two widths: one of less,
\* equal and greater holds of two numbers that are no NaN, whichever is an
\* int and whichever a float, and rounding an int never swaps the order.
THEOREM NumbersOrdered == Spec => []Trichotomy
<1>1. NumTypeOK => Trichotomy
  BY LawsFollow
<1> QED
  BY <1>1, NumInvariance, PTL

\* The int helpers agree with each other on every pair of ints, and return
\* ints: quotient and remainder make up the dividend, subtracting is adding
\* what verb_neg makes of the operand, and negating twice is nothing.
THEOREM IntsObeyLaws == Spec => []IntLaws
<1>1. NumTypeOK => IntLaws
  BY LawsFollow
<1> QED
  BY <1>1, NumInvariance, PTL

(***************************************************************************)
(* The string helpers.                                                     *)
(***************************************************************************)

(* A string is a sequence of bytes of bounded length.                      *)
LEMMA StringIs ==
  ASSUME NEW n \in Nat, NEW t
  PROVE  t \in Strings(n) <=> t \in Seq(Byte) /\ Len(t) <= n
<1>1. ASSUME t \in Strings(n) PROVE t \in Seq(Byte) /\ Len(t) <= n
  <2>1. PICK k \in 0 .. n : t \in [1 .. k -> Byte]
    BY <1>1 DEF Strings
  <2> QED
    BY <2>1
<1>2. ASSUME t \in Seq(Byte), Len(t) <= n PROVE t \in Strings(n)
  <2>1. Len(t) \in 0 .. n /\ t \in [1 .. Len(t) -> Byte]
    BY <1>2
  <2> QED
    BY <2>1 DEF Strings
<1> QED
  BY <1>1, <1>2

(* Some bytes of a string are a string.                                    *)
LEMMA BytesAre ==
  ASSUME NEW t \in Seq(Byte), NEW p \in Nat, NEW q \in p .. Len(t)
  PROVE  /\ Bytes(t, p, q) \in Seq(Byte)
         /\ Len(Bytes(t, p, q)) = q - p /\ q - p \in Nat
         /\ \A k \in 1 .. q - p : Bytes(t, p, q)[k] = t[p + k]
<1>1. q - p \in Nat /\ \A k \in 1 .. q - p : p + k \in DOMAIN t
  OBVIOUS
<1>2. Bytes(t, p, q) = [k \in 1 .. q - p |-> t[p + k]]
  BY <1>1 DEF Bytes
<1>3. \A k \in 1 .. q - p : t[p + k] \in Byte
  BY <1>1
<1> QED
  BY <1>1, <1>2, <1>3

(* Strings of the same bytes are the same.                                 *)
LEMMA SameBytes ==
  ASSUME NEW t \in Seq(Byte), NEW v \in Seq(Byte), NEW n \in Nat, Len(t) = n, Len(v) = n,
         \A k \in 1 .. n : t[k] = v[k]
  PROVE  t = v
OBVIOUS

(* All bytes of a string, and bytes that follow one another.               *)
LEMMA BytesJoin ==
  ASSUME NEW t \in Seq(Byte)
  PROVE  /\ Bytes(t, 0, Len(t)) = t
         /\ \A p \in Nat : \A q \in p .. Len(t) : \A r \in q .. Len(t) :
              Bytes(t, p, q) \o Bytes(t, q, r) = Bytes(t, p, r)
<1>1. Bytes(t, 0, Len(t)) = t
  <2>1. PICK c : c = Bytes(t, 0, Len(t))
    OBVIOUS
  <2>2. PICK n \in Nat : n = Len(t)
    OBVIOUS
  <2>3. n \in 0 .. Len(t) /\ 0 \in Nat /\ n - 0 = n
    BY <2>2
  <2>4. c \in Seq(Byte) /\ Len(c) = n /\ \A k \in 1 .. n : c[k] = t[0 + k]
    BY <2>1, <2>2, <2>3, BytesAre
  <2>5. \A k \in 1 .. n : c[k] = t[k]
    BY <2>4
  <2> QED
    BY <2>1, <2>2, <2>4, <2>5, SameBytes
<1>2. ASSUME NEW p \in Nat, NEW q \in p .. Len(t), NEW r \in q .. Len(t)
      PROVE  Bytes(t, p, q) \o Bytes(t, q, r) = Bytes(t, p, r)
  <2>1. PICK c, d, e : c = Bytes(t, p, q) /\ d = Bytes(t, q, r) /\ e = Bytes(t, p, r)
    OBVIOUS
  <2>2. q \in Nat /\ r \in p .. Len(t)
    OBVIOUS
  <2>3. /\ c \in Seq(Byte) /\ Len(c) = q - p
        /\ \A k \in 1 .. q - p : c[k] = t[p + k]
    BY <2>1, BytesAre
  <2>4. /\ d \in Seq(Byte) /\ Len(d) = r - q
        /\ \A k \in 1 .. r - q : d[k] = t[q + k]
    BY <2>1, <2>2, BytesAre
  <2>5. /\ e \in Seq(Byte) /\ Len(e) = r - p
        /\ \A k \in 1 .. r - p : e[k] = t[p + k]
    BY <2>1, <2>2, BytesAre
  <2>6. PICK f : f = c \o d
    OBVIOUS
  <2>7. /\ f \in Seq(Byte) /\ Len(f) = r - p
        /\ \A k \in 1 .. q - p : f[k] = c[k]
        /\ \A k \in 1 .. r - q : f[q - p + k] = d[k]
    <3>1. q - p \in Nat /\ r - q \in Nat
      BY <2>2
    <3>2. /\ f \in Seq(Byte) /\ Len(f) = Len(c) + Len(d)
          /\ \A k \in 1 .. Len(c) + Len(d) :
               f[k] = IF k <= Len(c) THEN c[k] ELSE d[k - Len(c)]
      BY <2>3, <2>4, <2>6, ConcatProperties
    <3>3. \A k \in 1 .. q - p : f[k] = c[k]
      <4>1. \A k \in 1 .. q - p : k \in 1 .. Len(c) + Len(d) /\ k <= Len(c)
        BY <2>3, <2>4, <3>1
      <4> QED
        BY <3>2, <4>1
    <3>4. \A k \in 1 .. r - q : f[q - p + k] = d[k]
      <4> SUFFICES ASSUME NEW k \in 1 .. r - q PROVE f[q - p + k] = d[k]
        OBVIOUS
      <4>1. PICK m : m = q - p + k
        OBVIOUS
      <4>2. m \in 1 .. Len(c) + Len(d) /\ ~(m <= Len(c)) /\ m - Len(c) = k
        BY <2>3, <2>4, <3>1, <4>1
      <4> QED
        BY <3>2, <4>1, <4>2
    <3>5. Len(f) = r - p
      BY <2>2, <2>3, <2>4, <3>2
    <3> QED
      BY <3>2, <3>3, <3>4, <3>5
  <2>8. ASSUME NEW k \in 1 .. r - p PROVE f[k] = e[k]
    <3>1. CASE k <= q - p
      BY <2>3, <2>5, <2>7, <3>1
    <3>2. CASE k > q - p
      <4>1. PICK m : m = k - (q - p)
        OBVIOUS
      <4>2. m \in 1 .. r - q /\ q - p + m = k /\ q + m = p + k
        BY <3>2, <4>1
      <4> QED
        BY <2>4, <2>5, <2>7, <4>2
    <3> QED
      BY <3>1, <3>2
  <2>9. r - p \in Nat
    BY <2>2
  <2> QED
    BY <2>1, <2>5, <2>6, <2>7, <2>8, <2>9, SameBytes
<1> QED
  BY <1>1, <1>2

(* The bytes of some bytes.                                                *)
LEMMA BytesWithin ==
  ASSUME NEW t \in Seq(Byte), NEW p \in Nat, NEW r \in p .. Len(t),
         NEW j \in Nat, NEW m \in Nat, j + m <= r - p
  PROVE  Bytes(Bytes(t, p, r), j, j + m) = Bytes(t, p + j, p + j + m)
<1>0. PICK c : c = Bytes(t, p, r)
  OBVIOUS
<1>1. /\ c \in Seq(Byte) /\ Len(c) = r - p
      /\ \A k \in 1 .. r - p : c[k] = t[p + k]
  BY <1>0, BytesAre
<1>2. PICK d, e : d = Bytes(c, j, j + m) /\ e = Bytes(t, p + j, p + j + m)
  OBVIOUS
<1>3. /\ j + m \in j .. Len(c) /\ p + j \in Nat /\ p + j + m \in p + j .. Len(t)
      /\ j + m - j = m /\ p + j + m - (p + j) = m
  <2>1. PICK n, l \in Nat : n = Len(t) /\ l = Len(c) /\ l = r - p /\ r \in p .. n /\ n \in Nat
    BY <1>1
  <2>2. /\ j + m \in j .. l /\ p + j \in Nat /\ p + j + m \in p + j .. n
        /\ j + m - j = m /\ p + j + m - (p + j) = m
    BY <2>1
  <2> QED
    BY <2>1, <2>2
<1>4. d \in Seq(Byte) /\ Len(d) = m /\ \A k \in 1 .. m : d[k] = c[j + k]
  <2>1. PICK q : q = j + m
    OBVIOUS
  <2>2. q \in j .. Len(c) /\ q - j = m /\ d = Bytes(c, j, q)
    BY <1>2, <1>3, <2>1
  <2>3. c \in Seq(Byte) /\ j \in Nat
    BY <1>1
  <2>4. d \in Seq(Byte) /\ Len(d) = q - j /\ \A k \in 1 .. q - j : d[k] = c[j + k]
    BY <2>2, <2>3, BytesAre
  <2> QED
    BY <2>2, <2>4
<1>5. e \in Seq(Byte) /\ Len(e) = m /\ \A k \in 1 .. m : e[k] = t[p + j + k]
  <2>1. PICK o, q : o = p + j /\ q = p + j + m
    OBVIOUS
  <2>2. o \in Nat /\ q \in o .. Len(t) /\ q - o = m /\ e = Bytes(t, o, q)
    BY <1>2, <1>3, <2>1
  <2>3. e \in Seq(Byte) /\ Len(e) = m /\ \A k \in 1 .. m : e[k] = t[o + k]
    BY <2>2, BytesAre
  <2> QED
    BY <2>1, <2>3
<1>6. ASSUME NEW k \in 1 .. m PROVE d[k] = e[k]
  <2>1. j + k \in 1 .. r - p /\ p + (j + k) = p + j + k
    OBVIOUS
  <2> QED
    BY <1>1, <1>4, <1>5, <2>1
<1> QED
  BY <1>0, <1>2, <1>4, <1>5, <1>6, SameBytes

\* x is at offset k of t, and at none from p to before k.
FirstAt(t, p, x, k) ==
  /\ k \in p .. Len(t) - Len(x)
  /\ Bytes(t, k, k + Len(x)) = x
  /\ \A j \in p .. k - 1 : Bytes(t, j, j + Len(x)) # x

NoneFrom(t, p, x) ==
  \A j \in p .. Len(t) - Len(x) : Bytes(t, j, j + Len(x)) # x

(* strstr gives the first place, or none.                                  *)
LEMMA StrstrIs ==
  ASSUME NEW t \in Seq(Byte), NEW x \in Seq(Byte), NEW p \in Nat
  PROVE  /\ Strstr(t, p, x) # Absent => FirstAt(t, p, x, Strstr(t, p, x)) /\ Strstr(t, p, x) \in Nat
         /\ Strstr(t, p, x) = Absent => NoneFrom(t, p, x)
         /\ NoneFrom(t, p, x) => Strstr(t, p, x) = Absent
         /\ \A k : FirstAt(t, p, x, k) => Strstr(t, p, x) = k
<1>1. PICK H : H = {k \in p .. Len(t) - Len(x) : Bytes(t, k, k + Len(x)) = x}
  OBVIOUS
<1>2. PICK h : h = Strstr(t, p, x)
  OBVIOUS
<1>3. h = IF H = {} THEN Absent ELSE CHOOSE k \in H : \A j \in H : k <= j
  BY <1>1, <1>2 DEF Strstr
<1>4. Len(t) \in Nat /\ Len(x) \in Nat /\ H \in SUBSET Nat
  BY <1>1
<1>5. H # {} => h \in H /\ \A j \in H : h <= j
  BY <1>3, <1>4, LeastNat
<1>6. NoneFrom(t, p, x) <=> H = {}
  BY <1>1 DEF NoneFrom
<1>7. H # {} => h \in Nat /\ h # Absent /\ FirstAt(t, p, x, h)
  <2> SUFFICES ASSUME H # {} PROVE h \in Nat /\ h # Absent /\ FirstAt(t, p, x, h)
    OBVIOUS
  <2>1. h \in Nat /\ h \in p .. Len(t) - Len(x) /\ Bytes(t, h, h + Len(x)) = x
    BY <1>1, <1>4, <1>5
  <2>2. ASSUME NEW j \in p .. h - 1 PROVE Bytes(t, j, j + Len(x)) # x
    <3>1. j \in p .. Len(t) - Len(x) /\ j \notin H
      BY <1>4, <1>5, <2>1
    <3> QED
      BY <1>1, <3>1
  <2> QED
    BY <2>1, <2>2 DEF FirstAt, Absent
<1>8. ASSUME NEW k, FirstAt(t, p, x, k) PROVE h = k
  <2>1. k \in H /\ k \in Nat
    BY <1>1, <1>4, <1>8 DEF FirstAt
  <2>2. h <= k /\ h \in Nat /\ h \in p .. Len(t) - Len(x) /\ Bytes(t, h, h + Len(x)) = x
    BY <1>1, <1>4, <1>5, <2>1
  <2>3. h \notin p .. k - 1
    BY <1>8, <2>2 DEF FirstAt
  <2> QED
    BY <2>1, <2>2, <2>3
<1>9. H = {} => h = Absent
  BY <1>3
<1> QED
  BY <1>2, <1>5, <1>6, <1>7, <1>8, <1>9

(* A piece ends at the first separator after its start; the last has none. *)
LEMMA PieceEnds ==
  ASSUME NEW t \in Seq(Byte), NEW x \in Seq(Byte), NEW p \in 0 .. Len(t)
  PROVE  /\ \A k : FirstAt(t, p, x, k) =>
              /\ Bytes(t, p, k) \in Seq(Byte) /\ Len(Bytes(t, p, k)) = k - p
              /\ StrIndex(Bytes(t, p, k) \o x, x) = Len(Bytes(t, p, k))
         /\ NoneFrom(t, p, x) => StrIndex(Bytes(t, p, Len(t)), x) = Absent
<1>0. PICK m \in Nat : m = Len(x)
  OBVIOUS
<1>1. ASSUME NEW k, FirstAt(t, p, x, k)
      PROVE  /\ Bytes(t, p, k) \in Seq(Byte) /\ Len(Bytes(t, p, k)) = k - p
             /\ StrIndex(Bytes(t, p, k) \o x, x) = Len(Bytes(t, p, k))
  <2>1. /\ k \in p .. Len(t) - m /\ Bytes(t, k, k + m) = x
        /\ \A j \in p .. k - 1 : Bytes(t, j, j + m) # x
    BY <1>0, <1>1 DEF FirstAt
  <2>2. k \in p .. Len(t) /\ k + m \in k .. Len(t) /\ k + m \in p .. Len(t) /\ k \in Nat /\ p \in Nat
    BY <1>0, <2>1
  <2>3. PICK c, d : c = Bytes(t, p, k) /\ d = Bytes(t, p, k + m)
    OBVIOUS
  <2>4. c \in Seq(Byte) /\ Len(c) = k - p
    BY <2>2, <2>3, BytesAre
  <2>5. c \o x = d
    <3>1. PICK q : q = k + m
      OBVIOUS
    <3>2. p \in Nat /\ k \in p .. Len(t) /\ q \in k .. Len(t) /\ Bytes(t, k, q) = x
      BY <2>1, <2>2, <3>1
    <3>3. Bytes(t, p, k) \o Bytes(t, k, q) = Bytes(t, p, q)
      BY <3>2, BytesJoin
    <3> QED
      BY <2>3, <3>1, <3>2, <3>3
  <2>6. d \in Seq(Byte) /\ Len(d) = k + m - p
    <3>1. PICK q : q = k + m
      OBVIOUS
    <3>2. p \in Nat /\ q \in p .. Len(t) /\ d = Bytes(t, p, q)
      BY <2>2, <2>3, <3>1
    <3>3. d \in Seq(Byte) /\ Len(d) = q - p
      BY <3>2, BytesAre
    <3> QED
      BY <1>0, <2>2, <3>1, <3>3
  <2>7. ASSUME NEW j \in 0 .. k - p PROVE Bytes(d, j, j + m) = Bytes(t, p + j, p + j + m)
    <3>1. j \in Nat /\ j + m <= k + m - p
      BY <2>2
    <3> QED
      BY <2>2, <2>3, <3>1, BytesWithin
  <2>8. FirstAt(d, 0, x, k - p)
    <3>1. k - p \in 0 .. Len(d) - m
      BY <2>2, <2>6
    <3>2. Bytes(d, k - p, k - p + m) = x
      <4>1. k - p \in 0 .. k - p /\ p + (k - p) = k
        BY <2>2
      <4> QED
        BY <2>1, <2>7, <4>1
    <3>3. ASSUME NEW j \in 0 .. k - p - 1 PROVE Bytes(d, j, j + m) # x
      <4>1. j \in 0 .. k - p /\ p + j \in p .. k - 1
        BY <2>2
      <4> QED
        BY <2>1, <2>7, <4>1
    <3> QED
      BY <1>0, <3>1, <3>2, <3>3 DEF FirstAt
  <2>9. Strstr(d, 0, x) = k - p
    BY <2>6, <2>8, StrstrIs
  <2> QED
    BY <2>3, <2>4, <2>5, <2>9 DEF StrIndex
<1>2. ASSUME NoneFrom(t, p, x) PROVE StrIndex(Bytes(t, p, Len(t)), x) = Absent
  <2>1. PICK n : n = Len(t) /\ n \in p .. Len(t) /\ n \in Nat /\ p \in Nat
    OBVIOUS
  <2>2. PICK d : d = Bytes(t, p, n)
    OBVIOUS
  <2>3. d \in Seq(Byte) /\ Len(d) = n - p
    BY <2>1, <2>2, BytesAre
  <2>4. ASSUME NEW j \in 0 .. Len(d) - m PROVE Bytes(d, j, j + m) # x
    <3>1. j \in Nat /\ j + m <= n - p /\ p + j \in p .. n - m
      BY <2>1, <2>3
    <3>0. n \in p .. Len(t) /\ p \in Nat
      BY <2>1
    <3>2. Bytes(d, j, j + m) = Bytes(t, p + j, p + j + m)
      <4>1. j \in Nat /\ m \in Nat /\ j + m <= n - p /\ d = Bytes(t, p, n)
        BY <1>0, <2>2, <3>1
      <4> QED
        BY <3>0, <4>1, BytesWithin
    <3> QED
      BY <1>0, <1>2, <2>1, <3>1, <3>2 DEF NoneFrom
  <2>5. NoneFrom(d, 0, x)
    BY <1>0, <2>4 DEF NoneFrom
  <2>6. Strstr(d, 0, x) = Absent
    BY <2>3, <2>5, StrstrIs
  <2> QED
    BY <2>1, <2>2, <2>6 DEF StrIndex
<1> QED
  BY <1>1, <1>2

(* str_slice at the place str_index gives, and at others.                  *)
LEMMA SlicesAgree ==
  ASSUME s \in Seq(Byte), sep \in Seq(Byte)
  PROVE  IndexSlices
<1>1. PICK k : k = StrIndex(s, sep)
  OBVIOUS
<1>0. Len(s) \in Nat /\ Len(sep) \in Nat
  OBVIOUS
<1>2. PICK n, m : n = Len(s) /\ m = Len(sep) /\ n \in Nat /\ m \in Nat
  BY <1>0
<1>3. k # Absent => FirstAt(s, 0, sep, k) /\ k \in Nat
  BY <1>1, StrstrIs DEF StrIndex
<1>4. k = Absent => NoneFrom(s, 0, sep)
  BY <1>1, StrstrIs DEF StrIndex
<1>5. k # Absent => StrSlice(s, k, k + Len(sep)) = {sep}
  <2> SUFFICES ASSUME k # Absent PROVE StrSlice(s, k, k + m) = {sep}
    BY <1>2
  <2>1. k \in 0 .. n - m /\ Bytes(s, k, k + m) = sep
    BY <1>2, <1>3 DEF FirstAt
  <2>2. ~OutOfBounds(s, k, k + m)
    BY <1>2, <2>1 DEF OutOfBounds
  <2> QED
    BY <2>1, <2>2 DEF StrSlice
<1>6. ASSUME NEW j \in -1 .. MaxLen, k = Absent \/ j < k
      PROVE  sep \notin StrSlice(s, j, j + Len(sep))
  <2>1. j \in Int
    BY StringsAssumption DEF StringsAssumption
  <2>2. CASE OutOfBounds(s, j, j + m)
    BY <1>2, <2>2 DEF StrSlice
  <2>3. CASE ~OutOfBounds(s, j, j + m)
    <3>1. j \in 0 .. n - m
      BY <1>2, <2>1, <2>3 DEF OutOfBounds
    <3>2. Bytes(s, j, j + m) # sep
      <4>1. CASE k = Absent
        BY <1>2, <1>4, <3>1, <4>1 DEF NoneFrom
      <4>2. CASE k # Absent
        <5>1. FirstAt(s, 0, sep, k) /\ k \in Nat /\ j < k
          BY <1>3, <1>6, <4>2
        <5>2. j \in 0 .. k - 1
          BY <3>1, <5>1
        <5> QED
          BY <1>2, <5>1, <5>2 DEF FirstAt
      <4> QED
        BY <4>1, <4>2
    <3> QED
      BY <1>2, <2>3, <3>2 DEF StrSlice
  <2> QED
    BY <2>2, <2>3
<1>7. sep # <<>> => StrSlice(s, Len(s), Len(s) + Len(sep)) = {}
  <2> SUFFICES ASSUME sep # <<>> PROVE StrSlice(s, n, n + m) = {}
    BY <1>2
  <2>1. m # 0
    BY <1>2, EmptySeq
  <2>2. OutOfBounds(s, n, n + m)
    BY <1>2, <2>1 DEF OutOfBounds
  <2> QED
    BY <2>2 DEF StrSlice
<1> QED
  BY <1>1, <1>5, <1>6, <1>7 DEF IndexSlices

\* The first n of the pieces e, joined.
Joined(x, e, N, f) ==
  f = [k \in 1 .. N |-> IF k = 1 THEN e[k] ELSE f[k - 1] \o x \o e[k]]

(* They exist for as many pieces as are asked for.                         *)
LEMMA JoinedExist ==
  ASSUME NEW x, NEW e, NEW N \in Nat
  PROVE  \E f : Joined(x, e, N, f)
<1> DEFINE S == {n \in Nat : ~ \E f : Joined(x, e, n, f)}
<1>1. SUFFICES ASSUME S # {}
               PROVE  FALSE
  OBVIOUS
<1>2. PICK m \in S : \A k \in S : m <= k
  BY <1>1, LeastNat
<1>3. CASE m = 0
  <2>1. PICK v : v = e[0]
    OBVIOUS
  <2> DEFINE f == [n \in 1 .. 0 |-> v]
  <2>2. Joined(x, e, 0, f)
    BY <2>1 DEF Joined
  <2> QED
    BY <1>3, <2>2
<1>4. CASE m > 0
  <2>1. m - 1 \in Nat /\ m - 1 \notin S
    BY <1>2, <1>4
  <2>2. PICK h : Joined(x, e, m - 1, h)
    BY <2>1
  <2>3. PICK v : v = IF m = 1 THEN e[m] ELSE h[m - 1] \o x \o e[m]
    OBVIOUS
  <2> DEFINE f == [n \in 1 .. m |-> IF n = m THEN v ELSE h[n]]
  <2>4. ASSUME NEW n \in 1 .. m
        PROVE  f[n] = IF n = 1 THEN e[n] ELSE f[n - 1] \o x \o e[n]
    <3>1. CASE n = m
      <4>1. n # 1 => n - 1 \in 1 .. m /\ n - 1 # m
        BY <1>4, <3>1
      <4> QED
        BY <2>3, <3>1, <4>1
    <3>2. CASE n # m
      <4>1. n \in 1 .. m - 1 /\ (n # 1 => n - 1 \in 1 .. m /\ n - 1 # m)
        BY <3>2
      <4>2. h[n] = IF n = 1 THEN e[n] ELSE h[n - 1] \o x \o e[n]
        BY <2>2, <4>1 DEF Joined
      <4>3. f[n] = h[n] /\ (n # 1 => f[n - 1] = h[n - 1])
        BY <3>2, <4>1
      <4> QED
        BY <4>2, <4>3
    <3> QED
      BY <3>1, <3>2
  <2>5. Joined(x, e, m, f)
    BY <2>4 DEF Joined
  <2> QED
    BY <2>5
<1> QED
  BY <1>3, <1>4

(* Pieces joined.                                                          *)
LEMMA JoinIs ==
  ASSUME NEW e, Len(e) \in Nat \ {0}
  PROVE  \E f : Joined(sep, e, Len(e), f) /\ Join(e) = f[Len(e)]
<1>1. \E f : Joined(sep, e, Len(e), f)
  BY JoinedExist
<1> DEFINE R == CHOOSE f : f = [k \in 1 .. Len(e) |->
                  IF k = 1 THEN e[k] ELSE f[k - 1] \o sep \o e[k]]
<1>2. R = [k \in 1 .. Len(e) |-> IF k = 1 THEN e[k] ELSE R[k - 1] \o sep \o e[k]]
  BY <1>1 DEF Joined
<1>3. Join(e) = R[Len(e)]
  BY DEF Join
<1> QED
  BY <1>2, <1>3 DEF Joined

(* One more piece.                                                         *)
LEMMA JoinAppend ==
  ASSUME NEW T, NEW e \in Seq(T), NEW p \in T
  PROVE  Join(Append(e, p)) = IF e = <<>> THEN p ELSE Join(e) \o sep \o p
<1>1. PICK N \in Nat : N = Len(e)
  OBVIOUS
<1>2. PICK r : r = Append(e, p)
  OBVIOUS
<1>3. PICK M : M = N + 1
  OBVIOUS
<1>4. /\ Len(r) = M /\ M \in Nat \ {0} /\ r[M] = p /\ M - 1 = N
      /\ \A k \in 1 .. N : r[k] = e[k]
      /\ (e = <<>> <=> N = 0) /\ (N = 0 <=> M = 1)
  <2>1. Len(r) = M /\ r[M] = p /\ \A k \in 1 .. N : r[k] = e[k]
    BY <1>1, <1>2, <1>3
  <2>2. e = <<>> <=> N = 0
    BY <1>1, EmptySeq
  <2> QED
    BY <1>3, <2>1, <2>2
<1>5. PICK h : Joined(sep, r, M, h) /\ Join(r) = h[M]
  BY <1>4, JoinIs
<1>6. h[M] = IF M = 1 THEN r[M] ELSE h[M - 1] \o sep \o r[M]
  <2>1. M \in 1 .. M
    BY <1>4
  <2> QED
    BY <1>5, <2>1 DEF Joined
<1>7. CASE N = 0
  BY <1>2, <1>4, <1>5, <1>6, <1>7
<1>8. CASE N # 0
  <2>1. PICK f : Joined(sep, e, N, f) /\ Join(e) = f[N]
    BY <1>1, <1>8, JoinIs
  <2> DEFINE S == {n \in 1 .. N : f[n] # h[n]}
  <2>2. ASSUME S # {} PROVE FALSE
    <3>1. S \in SUBSET Nat
      OBVIOUS
    <3> HIDE DEF S
    <3>2. PICK m \in S : \A k \in S : m <= k
      BY <2>2, <3>1, LeastNat
    <3> USE DEF S
    <3>3. m \in 1 .. N /\ m \in 1 .. M /\ r[m] = e[m]
      BY <1>3, <1>4
    <3>4. f[m] = IF m = 1 THEN e[m] ELSE f[m - 1] \o sep \o e[m]
      BY <2>1, <3>3 DEF Joined
    <3>5. h[m] = IF m = 1 THEN e[m] ELSE h[m - 1] \o sep \o e[m]
      <4>1. h[m] = IF m = 1 THEN r[m] ELSE h[m - 1] \o sep \o r[m]
        BY <1>5, <3>3 DEF Joined
      <4> QED
        BY <3>3, <4>1
    <3>6. m # 1
      BY <3>2, <3>4, <3>5
    <3>7. m - 1 \in 1 .. N /\ m - 1 \notin S
      BY <3>2, <3>3, <3>6
    <3> QED
      BY <3>2, <3>4, <3>5, <3>7
  <2>3. N \in 1 .. N /\ N \notin S
    BY <1>8, <2>2
  <2>4. f[N] = h[N]
    BY <2>3
  <2>5. h[M] = h[N] \o sep \o p
    BY <1>4, <1>6, <1>8
  <2> QED
    BY <1>2, <1>4, <1>5, <1>8, <2>1, <2>4, <2>5
<1> QED
  BY <1>7, <1>8

\* Where the first pass has stopped, n times: behind each separator found,
\* from the beginning.
Stops(t, x, n, g) ==
  /\ g \in [1 .. n -> 0 .. Len(t)]
  /\ g[1] = 0
  /\ \A k \in 1 .. n : g[k] >= k - 1
  /\ \A k \in 1 .. n - 1 : /\ Strstr(t, g[k], x) # Absent
                           /\ g[k + 1] = Strstr(t, g[k], x) + Len(x)

\* What the second pass has stored when it is at offset p.
Stored(p) ==
  /\ Len(elems) = i
  /\ i = 0 => p = 0
  /\ i # 0 => Join(elems) \o sep = Bytes(s, 0, p)
  /\ \A k \in 1 .. i : StrIndex(elems[k] \o sep, sep) = Len(elems[k])

StrInv ==
  /\ StrTypeOK
  /\ cur <= Len(s)
  /\ pc = "entry" => cur = 0 /\ count = 0 /\ i = 0 /\ elems = <<>>
  /\ pc = "count" =>
       /\ sep # <<>> /\ count # 0 /\ i = 0 /\ elems = <<>>
       /\ \E g : Stops(s, sep, count, g) /\ cur = g[count]
  /\ pc = "fill" =>
       /\ sep # <<>> /\ i < count /\ Stored(cur)
       /\ \E g : /\ Stops(s, sep, count, g) /\ cur = g[i + 1]
                 /\ Strstr(s, g[count], sep) = Absent
  /\ pc = "done" => i = count /\ count <= Len(s) + 1
  /\ SplitExact

\* The arguments are strings.
LEMMA StrTypes ==
  ASSUME StrTypeOK
  PROVE  /\ s \in Seq(Byte) /\ sep \in Seq(Byte) /\ Len(s) \in 0 .. MaxLen /\ MaxLen \in Nat
         /\ Len(sep) \in Nat /\ Len(s) \in Nat
         /\ cur \in Nat /\ count \in Nat /\ i \in Nat
         /\ elems \in Seq(Strings(MaxLen)) /\ s \in Strings(MaxLen) /\ sep \in Strings(MaxSep)
<1>1. MaxLen \in Nat /\ MaxSep \in Nat
  BY StringsAssumption DEF StringsAssumption
<1>2. s \in Seq(Byte) /\ sep \in Seq(Byte) /\ Len(s) <= MaxLen
  BY <1>1, StringIs DEF StrTypeOK
<1> QED
  BY <1>1, <1>2 DEF StrTypeOK

(* What is counted fits the string.                                        *)
LEMMA StopsFew ==
  ASSUME NEW t \in Seq(Byte), NEW x, NEW n \in Nat \ {0}, NEW g, Stops(t, x, n, g)
  PROVE  n <= Len(t) + 1 /\ \A k \in 1 .. n : g[k] \in 0 .. Len(t)
<1>1. n \in 1 .. n
  OBVIOUS
<1>2. g[n] \in 0 .. Len(t) /\ g[n] >= n - 1
  BY <1>1 DEF Stops
<1> QED
  BY <1>2 DEF Stops

(* A hit is behind the place the search begins at, and ends in the string. *)
LEMMA HitIs ==
  ASSUME StrTypeOK, cur <= Len(s), Hit # Absent
  PROVE  /\ Hit \in Nat /\ FirstAt(s, cur, sep, Hit)
         /\ Hit \in cur .. Len(s) /\ Hit + Len(sep) \in Hit .. Len(s)
         /\ sep # <<>> => Hit + Len(sep) >= cur + 1
<1>1. PICK n, m, c \in Nat : n = Len(s) /\ m = Len(sep) /\ c = cur
  BY StrTypes
<1>2. s \in Seq(Byte) /\ sep \in Seq(Byte)
  BY StrTypes
<1>3. PICK h : h = Hit /\ h \in Nat /\ FirstAt(s, c, sep, h)
  BY <1>1, <1>2, StrstrIs DEF Hit
<1>4. h \in c .. n - m
  BY <1>1, <1>3 DEF FirstAt
<1>5. sep # <<>> => m # 0
  BY <1>1, <1>2, EmptySeq
<1>6. /\ h \in c .. n /\ h + m \in h .. n
      /\ sep # <<>> => h + m >= c + 1
  BY <1>1, <1>3, <1>4, <1>5
<1> QED
  BY <1>1, <1>3, <1>6

(* The first pass finds a separator.                                       *)
LEMMA CountHitKeeps ==
  ASSUME StrInv, CountHit
  PROVE  StrInv'
<1>1. /\ pc = "count" /\ Hit # Absent /\ count' = count + 1 /\ cur' = Hit + Len(sep)
      /\ UNCHANGED <<s, sep, pc, i, elems>>
  BY DEF CountHit, AfterHit
<1>2. StrTypeOK /\ cur <= Len(s) /\ sep # <<>> /\ count # 0 /\ i = 0 /\ elems = <<>>
  BY <1>1 DEF StrInv
<1>3. PICK g : Stops(s, sep, count, g) /\ cur = g[count]
  BY <1>1 DEF StrInv
<1>4. /\ Hit \in Nat /\ Hit + Len(sep) \in Hit .. Len(s) /\ Hit + Len(sep) >= cur + 1
      /\ Len(s) \in Nat /\ Len(sep) \in Nat /\ cur \in Nat /\ count \in Nat
  <2>1. /\ Hit \in Nat /\ Hit + Len(sep) \in Hit .. Len(s)
        /\ sep # <<>> => Hit + Len(sep) >= cur + 1
    BY <1>1, <1>2, HitIs
  <2>2. Len(s) \in Nat /\ Len(sep) \in Nat /\ cur \in Nat /\ count \in Nat
    BY <1>2, StrTypes
  <2> QED
    BY <1>2, <2>1, <2>2
<1>5. PICK n, c, L \in Nat : n = count + 1 /\ c = count /\ c # 0 /\ L = Len(s)
  <2>1. count + 1 \in Nat /\ count \in Nat /\ Len(s) \in Nat
    BY <1>4
  <2> QED
    BY <1>2, <2>1
<1>6. PICK v : v = Hit + Len(sep) /\ v \in 0 .. L /\ v >= cur + 1
  BY <1>4, <1>5
<1> DEFINE h == [k \in 1 .. n |-> IF k = n THEN v ELSE g[k]]
<1>7. \A k \in 1 .. n : k = n \/ k \in 1 .. c
  BY <1>5
<1>8. /\ g \in [1 .. c -> 0 .. L] /\ g[1] = 0
      /\ \A k \in 1 .. c : g[k] >= k - 1
      /\ \A k \in 1 .. c - 1 : /\ Strstr(s, g[k], sep) # Absent
                               /\ g[k + 1] = Strstr(s, g[k], sep) + Len(sep)
      /\ cur = g[c]
  BY <1>3, <1>5 DEF Stops
<1>9. /\ h[n] = v
      /\ \A k \in 1 .. c : h[k] = g[k]
  BY <1>5
<1>10. h \in [1 .. n -> 0 .. L]
  BY <1>6, <1>7, <1>8, <1>9
<1>11. \A k \in 1 .. n : h[k] >= k - 1
  <2>1. c \in 1 .. c /\ c + 1 = n
    BY <1>5
  <2>2. cur >= c - 1 /\ h[n] >= n - 1
    BY <1>4, <1>5, <1>6, <1>8, <1>9, <2>1
  <2> QED
    BY <1>7, <1>8, <1>9, <2>2
<1>12. ASSUME NEW k \in 1 .. n - 1
       PROVE  /\ Strstr(s, h[k], sep) # Absent
              /\ h[k + 1] = Strstr(s, h[k], sep) + Len(sep)
  <2>1. CASE k = c
    <3>1. h[k] = cur /\ k + 1 = n
      BY <1>5, <1>8, <1>9, <2>1
    <3> QED
      BY <1>1, <1>6, <1>9, <3>1 DEF Hit
  <2>2. CASE k # c
    <3>1. k \in 1 .. c - 1 /\ k \in 1 .. c /\ k + 1 \in 1 .. c
      BY <1>5, <2>2
    <3> QED
      BY <1>8, <1>9, <3>1
  <2> QED
    BY <2>1, <2>2
<1>13. h[1] = 0
  BY <1>5, <1>8, <1>9
<1> HIDE DEF h
<1>14. Stops(s, sep, n, h)
  BY <1>5, <1>10, <1>11, <1>12, <1>13 DEF Stops
<1>15. StrTypeOK'
  BY <1>1, <1>2, <1>4, <1>6 DEF StrTypeOK
<1>16. n # 0 /\ count' = n /\ cur' = v /\ cur' <= L
  BY <1>1, <1>5, <1>6
<1>17. \E f : Stops(s', sep', count', f) /\ cur' = f[count']
  BY <1>1, <1>9, <1>14, <1>16
<1>18. SplitExact'
  BY <1>1 DEF SplitExact
<1> QED
  BY <1>1, <1>2, <1>5, <1>15, <1>16, <1>17, <1>18 DEF StrInv

(* The first pass ends; room is made for what it counted.                  *)
LEMMA CountDoneKeeps ==
  ASSUME StrInv, CountDone
  PROVE  StrInv'
<1>1. /\ pc = "count" /\ Hit = Absent /\ cur' = 0 /\ pc' = "fill"
      /\ UNCHANGED <<s, sep, count, i, elems>>
  BY DEF CountDone
<1>2. StrTypeOK /\ sep # <<>> /\ count # 0 /\ i = 0 /\ elems = <<>>
  BY <1>1 DEF StrInv
<1>3. PICK g : Stops(s, sep, count, g) /\ cur = g[count]
  BY <1>1 DEF StrInv
<1>4. Len(s) \in Nat /\ count \in Nat
  BY <1>2, StrTypes
<1>5. StrTypeOK'
  BY <1>1, <1>2 DEF StrTypeOK
<1>6. 0 = g[0 + 1] /\ Strstr(s, g[count], sep) = Absent
  BY <1>1, <1>3 DEF Stops, Hit
<1>7. \E f : /\ Stops(s', sep', count', f) /\ cur' = f[i' + 1]
             /\ Strstr(s', f[count'], sep') = Absent
  BY <1>1, <1>2, <1>3, <1>6
<1>8. Stored(cur)'
  <2>1. Len(elems) = 0 /\ \A k : k \notin 1 .. 0
    BY <1>2, EmptySeq
  <2> QED
    BY <1>1, <1>2, <2>1 DEF Stored
<1>9. SplitExact'
  BY <1>1 DEF SplitExact
<1>10. i' < count' /\ cur' <= Len(s')
  BY <1>1, <1>2, <1>4
<1> QED
  BY <1>1, <1>2, <1>5, <1>7, <1>8, <1>9, <1>10 DEF StrInv

\* One piece more is stored, from offset p to q.
Grows(p, q) ==
  LET c == Bytes(s, p, q)
  IN  /\ elems' = Append(elems, c) /\ i' = i + 1
      /\ UNCHANGED <<s, sep>>

(* What is stored then, joined.                                            *)
LEMMA GrowsJoins ==
  ASSUME StrTypeOK, NEW p \in 0 .. Len(s), NEW q \in p .. Len(s), Stored(p), Grows(p, q)
  PROVE  /\ Join(elems') = Bytes(s, 0, q)
         /\ elems' \in Seq(Strings(MaxLen)) /\ Len(elems') = i + 1
         /\ elems'[i + 1] = Bytes(s, p, q)
         /\ \A k \in 1 .. i : elems'[k] = elems[k]
<1>1. PICK c : c = Bytes(s, p, q)
  OBVIOUS
<1>2. /\ s \in Seq(Byte) /\ elems \in Seq(Strings(MaxLen)) /\ MaxLen \in Nat /\ i \in Nat
      /\ Len(s) \in 0 .. MaxLen /\ p \in Nat /\ Len(elems) = i
  BY StrTypes DEF Stored
<1>3. c \in Seq(Byte) /\ Len(c) = q - p
  BY <1>1, <1>2, BytesAre
<1>4. c \in Strings(MaxLen)
  <2>1. Len(c) <= MaxLen
    BY <1>2, <1>3
  <2> QED
    BY <1>2, <1>3, <2>1, StringIs
<1>5. elems' = Append(elems, c)
  BY <1>1 DEF Grows
<1>6. Join(elems') = IF elems = <<>> THEN c ELSE Join(elems) \o sep \o c
  BY <1>2, <1>4, <1>5, JoinAppend
<1>7. Join(elems') = Bytes(s, 0, q)
  <2>1. CASE i = 0
    <3>1. elems = <<>> /\ p = 0
      BY <1>2, <2>1, EmptySeq DEF Stored
    <3> QED
      BY <1>1, <1>6, <3>1
  <2>2. CASE i # 0
    <3>1. elems # <<>> /\ Join(elems) \o sep = Bytes(s, 0, p)
      BY <1>2, <2>2, EmptySeq DEF Stored
    <3>2. Bytes(s, 0, p) \o Bytes(s, p, q) = Bytes(s, 0, q)
      BY <1>2, BytesJoin
    <3> QED
      BY <1>1, <1>6, <3>1, <3>2
  <2> QED
    BY <2>1, <2>2
<1>8. PICK S : S = Strings(MaxLen)
  OBVIOUS
<1>9. elems \in Seq(S) /\ c \in S
  BY <1>2, <1>4, <1>8
<1>10. /\ elems' \in Seq(S) /\ Len(elems') = i + 1 /\ elems'[i + 1] = c
       /\ \A k \in 1 .. i : elems'[k] = elems[k]
  BY <1>2, <1>5, <1>9
<1> QED
  BY <1>1, <1>7, <1>8, <1>10

(* The second pass stores the piece before a separator.                    *)
LEMMA FillPieceKeeps ==
  ASSUME StrInv, FillPiece
  PROVE  StrInv'
<1>1. PICK h : h = Hit
  OBVIOUS
<1>2. /\ pc = "fill" /\ h # Absent /\ Grows(cur, h) /\ i' = i + 1
      /\ cur' = h + Len(sep) /\ UNCHANGED <<s, sep, pc, count>>
  BY <1>1 DEF FillPiece, Grows
<1>3. StrTypeOK /\ cur <= Len(s) /\ sep # <<>> /\ i < count /\ Stored(cur)
  BY <1>2 DEF StrInv
<1>4. PICK g : /\ Stops(s, sep, count, g) /\ cur = g[i + 1]
               /\ Strstr(s, g[count], sep) = Absent
  BY <1>2 DEF StrInv
<1>5. /\ h \in Nat /\ FirstAt(s, cur, sep, h) /\ h \in cur .. Len(s)
      /\ h + Len(sep) \in h .. Len(s)
  BY <1>1, <1>2, <1>3, HitIs
<1>6. /\ s \in Seq(Byte) /\ sep \in Seq(Byte) /\ Len(s) \in Nat /\ Len(sep) \in Nat
      /\ cur \in Nat /\ count \in Nat /\ i \in Nat
  BY <1>3, StrTypes
<1>7. cur \in 0 .. Len(s)
  BY <1>3, <1>6
<1>8. /\ Join(elems') = Bytes(s, 0, h)
      /\ elems' \in Seq(Strings(MaxLen)) /\ Len(elems') = i + 1
      /\ elems'[i + 1] = Bytes(s, cur, h)
      /\ \A k \in 1 .. i : elems'[k] = elems[k]
  BY <1>2, <1>3, <1>5, <1>7, GrowsJoins
<1>9. i + 1 < count /\ h + Len(sep) = g[i + 1 + 1]
  <2>1. i + 1 # count
    BY <1>1, <1>2, <1>4 DEF Hit
  <2>2. i + 1 < count /\ i + 1 \in 1 .. count - 1
    BY <1>3, <1>6, <2>1
  <2>3. g[i + 1 + 1] = Strstr(s, g[i + 1], sep) + Len(sep)
    BY <1>4, <2>2 DEF Stops
  <2> QED
    BY <1>1, <1>4, <2>2, <2>3 DEF Hit
<1>10. StrIndex(elems'[i + 1] \o sep, sep) = Len(elems'[i + 1])
  BY <1>5, <1>6, <1>7, <1>8, PieceEnds
<1>11. Join(elems') \o sep = Bytes(s, 0, h + Len(sep))
  <2>1. PICK q : q = h + Len(sep)
    OBVIOUS
  <2>2. Bytes(s, h, q) = sep /\ 0 \in Nat /\ h \in 0 .. Len(s) /\ q \in h .. Len(s)
    BY <1>5, <1>6, <2>1 DEF FirstAt
  <2>3. Bytes(s, 0, h) \o Bytes(s, h, q) = Bytes(s, 0, q)
    BY <1>6, <2>2, BytesJoin
  <2> QED
    BY <1>8, <2>1, <2>2, <2>3
<1>12. Stored(cur)'
  <2>1. \A k \in 1 .. i + 1 : k \in 1 .. i \/ k = i + 1
    BY <1>6
  <2>2. ASSUME NEW k \in 1 .. i + 1
        PROVE  StrIndex(elems'[k] \o sep, sep) = Len(elems'[k])
    <3>1. CASE k \in 1 .. i
      BY <1>3, <1>8, <3>1 DEF Stored
    <3>2. CASE k = i + 1
      BY <1>10, <3>2
    <3> QED
      BY <2>1, <3>1, <3>2
  <2>3. Join(elems)' \o sep = Bytes(s, 0, h + Len(sep))
    <3>1. Join(elems)' = Join(elems')
      BY <1>2 DEF Join
    <3> QED
      BY <1>11, <3>1
  <2>4. i + 1 # 0
    BY <1>6
  <2> QED
    BY <1>2, <1>8, <2>2, <2>3, <2>4 DEF Stored
<1>13. StrTypeOK'
  BY <1>2, <1>3, <1>5, <1>6, <1>8 DEF StrTypeOK
<1>14. \E f : /\ Stops(s', sep', count', f) /\ cur' = f[i' + 1]
              /\ Strstr(s', f[count'], sep') = Absent
  BY <1>2, <1>4, <1>9
<1>15. SplitExact'
  BY <1>2 DEF SplitExact
<1>16. cur' <= Len(s') /\ i' < count' /\ sep' # <<>> /\ pc' = "fill"
  BY <1>2, <1>3, <1>5, <1>6, <1>9
<1> QED
  BY <1>12, <1>13, <1>14, <1>15, <1>16 DEF StrInv

(* The second pass stores the rest.                                        *)
LEMMA FillLastKeeps ==
  ASSUME StrInv, FillLast
  PROVE  StrInv'
<1>1. /\ pc = "fill" /\ Hit = Absent /\ Grows(cur, Len(s)) /\ i' = i + 1 /\ pc' = "done"
      /\ UNCHANGED <<s, sep, cur, count>>
  BY DEF FillLast, Grows
<1>2. StrTypeOK /\ cur <= Len(s) /\ sep # <<>> /\ i < count /\ Stored(cur)
  BY <1>1 DEF StrInv
<1>3. PICK g : /\ Stops(s, sep, count, g) /\ cur = g[i + 1]
               /\ Strstr(s, g[count], sep) = Absent
  BY <1>1 DEF StrInv
<1>4. /\ s \in Seq(Byte) /\ sep \in Seq(Byte) /\ Len(s) \in Nat
      /\ cur \in Nat /\ count \in Nat /\ i \in Nat
  BY <1>2, StrTypes
<1>5. cur \in 0 .. Len(s) /\ Len(s) \in cur .. Len(s)
  BY <1>2, <1>4
<1>6. /\ Join(elems') = Bytes(s, 0, Len(s))
      /\ elems' \in Seq(Strings(MaxLen)) /\ Len(elems') = i + 1
      /\ elems'[i + 1] = Bytes(s, cur, Len(s))
      /\ \A k \in 1 .. i : elems'[k] = elems[k]
  BY <1>1, <1>2, <1>5, GrowsJoins
<1>7. i + 1 = count
  <2> SUFFICES ASSUME i + 1 # count PROVE FALSE
    OBVIOUS
  <2>1. i + 1 \in 1 .. count - 1
    BY <1>2, <1>4
  <2>2. Strstr(s, g[i + 1], sep) # Absent
    BY <1>3, <2>1 DEF Stops
  <2> QED
    BY <1>1, <1>3, <2>2 DEF Hit
<1>8. count <= Len(s) + 1
  <2>1. count \in Nat \ {0}
    BY <1>4, <1>7
  <2> QED
    BY <1>3, <1>4, <2>1, StopsFew
<1>9. StrIndex(elems'[i + 1], sep) = Absent
  <2>1. NoneFrom(s, cur, sep)
    BY <1>1, <1>4, StrstrIs DEF Hit
  <2> QED
    BY <1>4, <1>5, <1>6, <2>1, PieceEnds
<1>10. ASSUME NEW k \in 1 .. i
       PROVE  StrIndex(elems'[k] \o sep, sep) = Len(elems'[k])
  BY <1>2, <1>6 DEF Stored
<1>11. Join(elems)' = s
  <2>1. Join(elems)' = Join(elems')
    BY <1>1 DEF Join
  <2> QED
    BY <1>4, <1>6, <2>1, BytesJoin
<1>12. SplitExact'
  <2>1. elems' # <<>>
    BY <1>4, <1>6, EmptySeq
  <2>2. \A k \in 1 .. Len(elems') - 1 : StrIndex(elems'[k] \o sep, sep) = Len(elems'[k])
    <3>1. Len(elems') - 1 = i
      BY <1>4, <1>6
    <3>2. \A k \in 1 .. i : StrIndex(elems'[k] \o sep, sep) = Len(elems'[k])
      BY <1>10
    <3> QED
      BY <3>1, <3>2, Zenon
  <2>3. StrIndex(elems'[Len(elems')], sep) = Absent
    BY <1>6, <1>9
  <2> QED
    BY <1>1, <1>2, <1>11, <2>1, <2>2, <2>3 DEF SplitExact
<1>13. StrTypeOK'
  BY <1>1, <1>2, <1>4, <1>6 DEF StrTypeOK
<1> QED
  BY <1>1, <1>2, <1>7, <1>8, <1>12, <1>13 DEF StrInv

(* An empty separator gives the string; another begins the first pass.     *)
LEMMA EntryKeeps ==
  ASSUME StrInv, Single \/ CountInit
  PROVE  StrInv'
<1>0. /\ StrTypeOK /\ cur <= Len(s) /\ cur \in Nat /\ s \in Seq(Byte) /\ Len(s) \in Nat
      /\ s \in Strings(MaxLen)
  BY StrTypes DEF StrInv
<1>1. CASE Single
  <2>1. /\ sep = <<>> /\ elems' = <<s>> /\ count' = 1 /\ i' = 1 /\ pc' = "done"
        /\ UNCHANGED <<s, sep, cur>>
    BY <1>1 DEF Single, SepEmpty
  <2>2. StrTypeOK'
    BY <1>0, <2>1 DEF StrTypeOK
  <2>3. elems' # <<>> /\ Len(elems') = 1 /\ elems'[1] = s
    BY <2>1
  <2>4. Join(elems)' = s
    <3>1. elems' = Append(<<>>, s) /\ <<>> \in Seq(Seq(Byte))
      BY <2>1, EmptySeq
    <3>2. Join(elems') = s
      BY <1>0, <3>1, JoinAppend
    <3> QED
      BY <2>1, <3>2 DEF Join
  <2>5. SplitExact'
    BY <2>1, <2>3, <2>4 DEF SplitExact
  <2>6. 1 <= Len(s) + 1
    BY <1>0
  <2> QED
    BY <1>0, <2>1, <2>2, <2>5, <2>6 DEF StrInv
<1>2. CASE CountInit
  <2>1. /\ pc = "entry" /\ sep # <<>> /\ count' = 1 /\ pc' = "count"
        /\ UNCHANGED <<s, sep, cur, i, elems>>
    BY <1>2 DEF CountInit, SepEmpty
  <2>2. cur = 0 /\ i = 0 /\ elems = <<>>
    BY <2>1 DEF StrInv
  <2>3. StrTypeOK'
    BY <1>0, <2>1 DEF StrTypeOK
  <2> DEFINE g == [k \in 1 .. 1 |-> 0]
  <2>4. Stops(s, sep, 1, g)
    BY <1>0 DEF Stops
  <2>5. g[1] = 0
    OBVIOUS
  <2> HIDE DEF g
  <2>6. \E f : Stops(s', sep', count', f) /\ cur' = f[count']
    BY <2>1, <2>2, <2>4, <2>5
  <2>7. SplitExact'
    BY <2>1 DEF SplitExact
  <2> QED
    BY <1>0, <2>1, <2>2, <2>3, <2>6, <2>7 DEF StrInv
<1> QED
  BY <1>1, <1>2

(* Strings at rest and at work.                                            *)
LEMMA StrInitInv == StrInit \/ NoString => StrInv
<1>1. MaxLen \in Nat /\ MaxSep \in Nat
  BY StringsAssumption DEF StringsAssumption
<1>2. ASSUME StrInit PROVE StrInv
  <2>1. StrTypeOK
    BY <1>2, EmptySeq DEF StrInit, StrTypeOK
  <2>2. Len(s) \in Nat
    BY <2>1, StrTypes
  <2>3. SplitExact
    BY <1>2 DEF StrInit, SplitExact
  <2> QED
    BY <1>2, <2>1, <2>2, <2>3 DEF StrInit, StrInv
<1>3. ASSUME NoString PROVE StrInv
  <2>1. <<>> \in Seq(Byte) /\ Len(<<>>) = 0
    BY EmptySeq
  <2>2. <<>> \in Strings(MaxLen) /\ <<>> \in Strings(MaxSep)
    <3>1. Len(<<>>) <= MaxLen /\ Len(<<>>) <= MaxSep
      BY <1>1, <2>1
    <3> QED
      BY <1>1, <2>1, <3>1, StringIs
  <2>3. elems = << <<>> >> /\ s = <<>> /\ sep = <<>> /\ Len(elems) = 1
    BY <1>3 DEF NoString
  <2>4. elems \in Seq(Strings(MaxLen))
    BY <2>2, <2>3
  <2>5. StrTypeOK
    BY <1>3, <2>2, <2>4 DEF NoString, StrTypeOK
  <2>6. Join(elems) = <<>>
    <3>1. elems = Append(<<>>, <<>>) /\ <<>> \in Seq(Seq(Byte))
      BY <2>3, EmptySeq
    <3> QED
      BY <2>1, <3>1, JoinAppend
  <2>7. SplitExact
    BY <2>3, <2>6 DEF SplitExact
  <2> QED
    BY <1>3, <2>1, <2>3, <2>5, <2>7 DEF NoString, StrInv
<1> QED
  BY <1>2, <1>3

\* The helpers on positions agree, on any strings over any bytes: str_split
\* stores just the pieces it counted and made room for, they are those
\* between the separators that str_index finds, and str_slice cuts them out.
THEOREM StringHelpersAgree == Spec => []StringsAgree
<1>1. Init => StrInv
  BY StrInitInv DEF Init
<1>2. StrInv /\ [Next]_vars => StrInv'
  <2> SUFFICES ASSUME StrInv, [Next]_vars PROVE StrInv'
    OBVIOUS
  <2>1. StrNext \/ UNCHANGED strVars
    BY DEF Next, vars, CallStep, StringStep, NumberStep, VariantStep, IoStep, HeapStep
  <2>2. CASE UNCHANGED strVars
    <3>1. UNCHANGED <<s, sep, pc, cur, count, i, elems>>
      BY <2>2 DEF strVars
    <3>2. StrTypeOK' /\ SplitExact' /\ (Stored(cur) => Stored(cur)')
      BY <3>1 DEF StrInv, StrTypeOK, SplitExact, Join, Stored
    <3> QED
      BY <3>1, <3>2 DEF StrInv
  <2> QED
    BY <2>1, <2>2, CountHitKeeps, CountDoneKeeps, FillPieceKeeps, FillLastKeeps, EntryKeeps
       DEF StrNext
<1>3. StrInv => StringsAgree
  <2> SUFFICES ASSUME StrInv PROVE StringsAgree
    OBVIOUS
  <2>1. StrTypeOK /\ cur <= Len(s) /\ SplitExact /\ (pc = "done" => i = count)
    BY DEF StrInv
  <2>2. s \in Seq(Byte) /\ sep \in Seq(Byte) /\ Len(s) \in Nat /\ count \in Nat /\ i \in Nat
    BY <2>1, StrTypes
  <2>3. IndexSlices
    BY <2>2, SlicesAgree
  <2>4. i <= count /\ count <= Len(s) + 1
    <3>1. CASE pc = "entry"
      BY <2>2, <3>1 DEF StrInv
    <3>2. CASE pc \in {"count", "fill"}
      <4>1. PICK g : Stops(s, sep, count, g)
        BY <3>2 DEF StrInv
      <4>2. count \in Nat \ {0} /\ i <= count
        BY <2>2, <3>2 DEF StrInv
      <4> QED
        BY <2>2, <4>1, <4>2, StopsFew
    <3>3. CASE pc = "done"
      BY <2>2, <3>3 DEF StrInv
    <3> QED
      BY <2>1, <3>1, <3>2, <3>3 DEF StrTypeOK
  <2> QED
    BY <2>1, <2>3, <2>4 DEF StringsAgree
<1> QED
  BY <1>1, <1>2, <1>3, PTL DEF Spec
=============================================================================
