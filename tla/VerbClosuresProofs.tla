------------------------- MODULE VerbClosuresProofs -------------------------
(***************************************************************************)
(* What holds of every program of VerbClosures: the counts are exact, no   *)
(* cycle is built, a program that has ended leaves nothing, provided no    *)
(* function has a parameter of its own name, and a body that is called by  *)
(* a name finds its env alive, provided no name is reassigned.             *)
(***************************************************************************)
EXTENDS VerbClosures, VerbHeapProofs

(***************************************************************************)
(* The invariant, part by part.                                            *)
(***************************************************************************)
op == todo.op

Entry == {"self", "bindself", "load", "bindload", "param"}

\* The operands and open calls of a frame are above those of its caller.
Stack ==
  /\ \A k \in 1 .. Len(calls) : calls[k] <= sp
  /\ \A j, k \in 1 .. Len(calls) : j < k => calls[j] < calls[k]
  /\ \A d \in 1 .. Len(frames) : frames[d] <= sp
  /\ \A d, e \in 1 .. Len(frames) : d <= e => frames[d] <= frames[e]
  /\ Len(frames) + Len(calls) + (IF op = "enter" THEN 1 ELSE 0) <= prog.calls

\* How many operands a step of a definition or an entry finds.
Place(o, c, h) ==
  /\ o = "env" => h = Base
  /\ o = "closure" => h = Base + (IF c.caps = <<>> THEN 0 ELSE 1)
  /\ o \in {"capture", "bind", "return"} => h = Base + 1
  /\ o \in {"self", "load"} => h = Base + Arity(c.fn)
  /\ o \in {"bindself", "bindload"} => h = Base + Arity(c.fn) + 1
  /\ o = "param" => h = Base + 1 /\ Arity(c.fn) = 1
  /\ o \notin {"none", "enter"} => \A k \in 1 .. Len(calls) : calls[k] <= Base
  /\ o = "enter" => /\ h - Arity(c.fn) >= Base
                    /\ \A k \in 1 .. Len(calls) : calls[k] <= h - Arity(c.fn)

Position == Place(op, todo.code, sp)

\* What it knows of the function it is about.
Knows(o, c, n) ==
  /\ o \in Entry \cup {"return"} => frames # <<>>
  /\ o \in {"capture", "env"} => c.caps # <<>>
  /\ o \in {"load", "bindload"} => n < Len(c.caps)
  /\ o \in Entry \cup {"enter", "env", "capture", "closure", "bind"} => c.fn \in Fn

Subject == todo = Do(op, todo.code, todo.env, todo.n) /\ Knows(op, todo.code, todo.n)

\* The main program ends with no call open.
Final ==
  /\ status \in {"ending", "ended"} => op = "none" /\ sp = 0 /\ frames = <<>> /\ calls = <<>>
  /\ status = "ended" => drain = <<>> /\ Due = {} /\ \A x \in Name : own[Glob(x)] = Nil

Control == ClosTypeOK /\ Stack /\ Position /\ Subject /\ Final

\* A function captures distinct names, neither its own nor its parameter's.
CodeOK(c) ==
  /\ Len(c.caps) <= Width
  /\ \A i \in 1 .. Len(c.caps) : c.caps[i] # c.fn
  /\ \A i \in 1 .. Len(c.caps) : c.fn \in Fn => c.caps[i] # prog.param[c.fn]
  /\ \A i, j \in 1 .. Len(c.caps) : c.caps[i] = c.caps[j] => i = j

Codes == CodeOK(todo.code) /\ \A b \in Block : CodeOK(code[b])

\* What a variable, an argument or a capture may hold.
IsVal(v) == v = Nil \/ IsKind(v, "str") \/ IsKind(v, "clos")

\* An env that no closure has yet.
Building == op = "capture" \/ (op = "closure" /\ todo.code.caps # <<>>)

\* What each kind of slot may refer to.
RootsTyped ==
  /\ own[Reg] = Nil
  /\ \A x \in Name : IsVal(own[Glob(x)])
  /\ \A d \in 1 .. MaxDepth, x \in LocalName :
       own[Local(d, x)] # Nil =>
         d <= Len(frames) /\ x # CollName /\ IsKind(own[Local(d, x)], "cell")
  /\ \A i \in 1 .. MaxTemp :
       \/ IsVal(own[Temp(i)])
       \/ i > sp /\ IsKind(own[Temp(i)], "cell")
       \/ i = sp /\ Building /\ IsKind(own[Temp(i)], "env")

FieldsTyped ==
  \A b \in Block, i \in 1 .. Width :
    own[Field(b, i)] # Nil =>
      \/ kind[b] = "clos" /\ IsKind(own[Field(b, i)], "env")
      \/ kind[b] \in {"cell", "env"} /\ IsVal(own[Field(b, i)])

\* An env that is being built has one owner, and its captures are locals.
BuiltAlone ==
  /\ Building => /\ IsKind(own[Temp(sp)], "env")
                 /\ \A s \in Slot : own[s] = own[Temp(sp)] => s = Temp(sp)
  /\ op = "capture" => /\ len[own[Temp(sp)]] < Len(todo.code.caps)
                       /\ \A i \in 1 .. Width :
                            i > len[own[Temp(sp)]] => own[Field(own[Temp(sp)], i)] = Nil
  /\ op \in {"env", "capture"} =>
       /\ Len(frames) > 0
       /\ \A i \in 1 .. Len(todo.code.caps) : own[Local(Len(frames), todo.code.caps[i])] # Nil
  /\ op = "bind" => own[Temp(sp)] # Nil

\* A closure that captures has an env.
ClosuresWhole ==
  \A b \in Block : kind[b] = "clos" /\ rc[b] # 0 =>
    code[b].fn \in Fn /\ (code[b].caps # <<>> => own[Field(b, 1)] # Nil)

\* The callee of an open call is a closure.
CalleesAre == \A k \in 1 .. Len(calls) : IsKind(own[Temp(calls[k])], "clos")

\* The body that is called has an env when it needs one; the env may have
\* been freed before it starts.
EnvGiven ==
  /\ op \in {"enter", "self", "bindself"} => (todo.code.caps # <<>> => todo.env # Nil)
  /\ op = "enter" /\ todo.env # Nil => kind[todo.env] \in {"env", "free"}

HasEnv == ClosuresWhole /\ CalleesAre /\ EnvGiven

\* The body keeps its env through the self closure it makes first.
EnvKept ==
  /\ op = "self" => /\ drain = <<>> /\ Due = {}
                    /\ todo.env # Nil => kind[todo.env] = "env"
  /\ op = "bindself" => /\ IsKind(own[Temp(sp)], "clos")
                        /\ own[Field(own[Temp(sp)], 1)] = todo.env
  /\ op \in {"load", "bindload"} =>
       LET l == own[Local(Len(frames), todo.code.fn)]
           c == own[Field(l, 1)]
       IN  l \in Block /\ c \in Block /\ todo.env \in Block /\ own[Field(c, 1)] = todo.env

\* No field of a block leads back to the block.
Acyclic(f) == \A b \in Block : b \notin Reach(f, Children(f, {b}))

CInv ==
  /\ HeapInv
  /\ Control
  /\ Codes
  /\ RootsTyped
  /\ FieldsTyped
  /\ BuiltAlone
  /\ HasEnv
  /\ EnvKept

(***************************************************************************)
(* Slots and the moves between them.                                       *)
(***************************************************************************)

(* Two slots of the same family are the same when their indices are.       *)
LEMMA SameSlot ==
  /\ \A i, j : Temp(i) = Temp(j) <=> i = j
  /\ \A x, y : Glob(x) = Glob(y) <=> x = y
  /\ \A d, e, x, y : Local(d, x) = Local(e, y) <=> d = e /\ x = y
  /\ \A b, c, i, j : Field(b, i) = Field(c, j) <=> b = c /\ i = j
BY DEF Temp, Glob, Local, Field

(* Slots of different families are different.                              *)
LEMMA OtherSlot ==
  /\ \A i, x : Temp(i) # Glob(x)
  /\ \A i, d, x : Temp(i) # Local(d, x)
  /\ \A i : Temp(i) # Reg /\ Glob(i) # Reg
  /\ \A d, x : Local(d, x) # Reg
  /\ \A x, d, y : Glob(x) # Local(d, y)
  /\ \A b \in Block : \A i, j : /\ Field(b, i) # Temp(j)
                                /\ Field(b, i) # Glob(j)
                                /\ Field(b, i) # Reg
  /\ \A b \in Block : \A i, d, x : Field(b, i) # Local(d, x)
BY FieldNotRoot DEF Temp, Glob, Local, Reg

(* What a slot holds after a Put and after an Exchange.                    *)
LEMMA PutAt ==
  ASSUME NEW f \in [Slot -> Value], NEW s \in Slot, NEW v \in Value
  PROVE  /\ Put(f, s, v) \in [Slot -> Value]
         /\ \A t \in Slot : Put(f, s, v)[t] = IF t = s THEN v ELSE f[t]
BY DEF Put

(* Likewise.                                                               *)
LEMMA ExchangeAt ==
  ASSUME NEW f \in [Slot -> Value], NEW s \in Slot, NEW t \in Slot
  PROVE  /\ Exchange(f, s, t) \in [Slot -> Value]
         /\ \A u \in Slot :
              Exchange(f, s, t)[u] = IF u = t THEN f[s] ELSE IF u = s THEN f[t] ELSE f[u]
BY DEF Exchange

(* A child of a set is a child of one of its members.                      *)
LEMMA ChildOf ==
  ASSUME NEW g, NEW B, NEW v \in Children(g, B)
  PROVE  \E c \in B : v \in Children(g, {c})
<1>1. PICK c \in B, i \in 1 .. Width : v = g[Field(c, i)]
  BY DEF Children
<1>2. v \in Children(g, {c})
  BY <1>1 DEF Children
<1> QED
  BY <1>2

(* A step that only removes edges, or adds some to blocks that no field    *)
(* refers to afterwards, builds no cycle.                                  *)
LEMMA AcyclicStep ==
  ASSUME NEW f \in [Slot -> Value], NEW g \in [Slot -> Value], Acyclic(f),
         \A b \in Block : \/ Children(g, {b}) \subseteq Children(f, {b})
                          \/ \A p \in Block, i \in 1 .. Width : g[Field(p, i)] # b
  PROVE  Acyclic(g)
<1> SUFFICES ASSUME NEW b \in Block, b \in Reach(g, Children(g, {b}))
             PROVE  FALSE
  BY DEF Acyclic
<1> DEFINE N == {c \in Block : \A p \in Block, i \in 1 .. Width : g[Field(p, i)] # c}
           R == Reach(f, Children(f, {b}))
<1>1. \A B \in SUBSET Block : Children(g, B) \subseteq Block \ N
  BY SlotFamilies DEF Children, Value
<1>2. Reach(g, Children(g, {b})) \subseteq Block \ N
  <2>1. Children(g, {b}) \subseteq Block \ N /\ Children(g, Block \ N) \subseteq Block \ N
    BY <1>1
  <2> QED
    BY <2>1, ReachLeast
<1>3. \A c \in Block \ N : Children(g, {c}) \subseteq Children(f, {c})
  OBVIOUS
<1>4. Children(f, {b}) \in SUBSET Block
  BY SlotFamilies DEF Children, Value
<1>5. /\ R \in SUBSET Block
      /\ Children(f, {b}) \subseteq R
      /\ Children(f, R) \subseteq R
  <2>1. PICK B \in SUBSET Block : B = Children(f, {b})
    BY <1>4
  <2>2. PICK Q : Q = Reach(f, B)
    OBVIOUS
  <2>3. Q \in SUBSET Block /\ B \subseteq Q /\ Children(f, Q) \subseteq Q
    BY <2>2, ReachClosed
  <2>4. Q = R
    BY <2>1, <2>2
  <2> QED
    BY <2>1, <2>3, <2>4
<1>6. Children(g, {b}) \subseteq R \ N
  <2> HIDE DEF N, R
  <2>1. Children(g, {b}) \subseteq Block \ N
    BY <1>1
  <2>2. b \in Block \ N
    BY <1>2
  <2>3. Children(g, {b}) \subseteq R
    BY <1>3, <1>5, <2>2
  <2> QED
    BY <2>1, <2>3
<1>7. Children(g, R \ N) \subseteq R \ N
  <2>1. ASSUME NEW v \in Children(g, R \ N) PROVE v \in R
    <3>1. PICK c \in R \ N : v \in Children(g, {c})
      <4> HIDE DEF N, R
      <4> QED
        BY ChildOf
    <3>2. v \in Children(f, {c})
      BY <1>3, <1>5, <3>1
    <3>3. Children(f, {c}) \subseteq Children(f, R)
      BY <3>1, ChildrenMonotone
    <3> QED
      BY <1>5, <3>2, <3>3
  <2>2. Children(g, R \ N) \subseteq Block \ N
    BY <1>1, <1>5
  <2> QED
    BY <2>1, <2>2
<1>8. Reach(g, Children(g, {b})) \subseteq R \ N
  <2> HIDE DEF N, R
  <2> QED
    BY <1>6, <1>7, ReachLeast
<1> QED
  BY <1>8 DEF Acyclic

(***************************************************************************)
(* The heap: one lemma per move of references.                             *)
(***************************************************************************)

(* The types the moves below need.                                         *)
LEMMA Basics ==
  ASSUME CInv
  PROVE  /\ own \in [Slot -> Value] /\ kind \in [Block -> Kind] /\ rc \in [Block -> Nat]
         /\ len \in [Block -> 0 .. Width] /\ cap \in [Block -> Nat] /\ gcLive \in Int
         /\ orphan \in [Block -> Nat]
         /\ sp \in 0 .. MaxTemp
         /\ Len(frames) \in 0 .. MaxDepth
         /\ prog.temps \in 0 .. MaxTemp
         /\ prog.calls \in 0 .. MaxDepth
         /\ 1 \in 1 .. Width /\ Nil \notin Block /\ Nil \in Value
         /\ MaxTemp \in Nat /\ MaxDepth \in Nat /\ Width \in Nat
<1>1. prog \in Program
  BY FnAssumption DEF CInv, Control, ClosTypeOK, FnAssumption
<1>2. prog.temps \in 0 .. MaxTemp /\ prog.calls \in 0 .. MaxDepth
  BY <1>1 DEF Program
<1>3. sp \in 0 .. MaxTemp /\ frames \in Seq(0 .. MaxTemp) /\ Len(frames) <= MaxDepth
  BY DEF CInv, Control, ClosTypeOK
<1>4. MaxTemp \in Nat /\ MaxDepth \in Nat /\ Width \in Nat \ {0} /\ Nil \notin Block
  BY HeapAssumption DEF HeapAssumption
<1>5. HeapTypeOK
  BY DEF CInv, HeapInv
<1>6. Len(frames) \in 0 .. MaxDepth
  BY <1>3, <1>4
<1>7. 1 \in 1 .. Width /\ Width \in Nat /\ Nil \in Value
  BY <1>4 DEF Value
<1> QED
  BY <1>2, <1>3, <1>4, <1>5, <1>6, <1>7 DEF HeapTypeOK

(* With the topmost operand in use there is room below, and one more       *)
(* temporary above the operands is empty once what was due is released.    *)
LEMMA Above ==
  ASSUME CInv, Due = {}, NEW i \in Nat, i > sp, i <= MaxTemp
  PROVE  Temp(i) \in Slot /\ own[Temp(i)] = Nil
<1>1. sp \in Nat /\ MaxTemp \in Nat
  BY Basics
<1>2. i \in sp + 1 .. MaxTemp /\ i \in 1 .. MaxTemp
  BY <1>1
<1>3. Temp(i) \in Slot
  BY <1>2, SlotFamilies
<1> QED
  BY <1>2, <1>3 DEF Due

(* The heap is not touched.                                                *)
LEMMA Untouched ==
  ASSUME HeapInv, UNCHANGED heap
  PROVE  HeapInv'
BY DEF heap, HeapInv, HeapTypeOK, RefExact, NRefs, FreeIsZero, FreeOwnsNothing,
       DrainIsDead, DeadIsDrained

(* A copy of a value is left in a new temporary.                           *)
LEMMA PushStep ==
  ASSUME CInv, Due = {}, NEW s \in Slot, Push(own[s])
  PROVE  HeapInv'
<1>1. sp + 1 <= MaxTemp /\ sp + 1 \in Nat /\ sp + 1 > sp
  <2>1. sp \in 0 .. MaxTemp /\ prog.temps \in 0 .. MaxTemp /\ MaxTemp \in Nat
    BY Basics
  <2> QED
    BY <2>1 DEF Push
<1>2. Temp(sp + 1) \in Slot /\ own[Temp(sp + 1)] = Nil /\ NotFreed(Temp(sp + 1))
  BY <1>1, Above, RootsNotFreed
<1>3. Rearranged(own) /\ KeepsFreeEmpty(own)
  BY Basics DEF Rearranged, KeepsFreeEmpty, CInv, HeapInv, FreeOwnsNothing
<1>4. /\ own' = Put(own, Temp(sp + 1), own[s]) /\ rc' = Retain(own[s])
      /\ UNCHANGED <<kind, orphan, drain>>
      /\ len' \in [Block -> 0 .. Width] /\ cap' \in [Block -> Nat] /\ gcLive' \in Int
  BY Basics DEF Push
<1> QED
  BY <1>2, <1>3, <1>4, CopyStep DEF CInv

(* A fresh block in a new temporary.                                       *)
LEMMA PushFreshStep ==
  ASSUME CInv, Due = {}, sp < prog.temps, NEW b \in Block,
         NEW k \in Kind \ {"free"}, NEW n \in 0 .. Width, Alloc(b, k, n),
         own' = Put(own, Temp(sp + 1), b), gcLive' = gcLive + 1,
         UNCHANGED <<cap, orphan, drain>>
  PROVE  HeapInv'
<1>1. sp + 1 <= MaxTemp /\ sp + 1 \in Nat /\ sp + 1 > sp
  <2>1. sp \in 0 .. MaxTemp /\ prog.temps \in 0 .. MaxTemp /\ MaxTemp \in Nat
    BY Basics
  <2> QED
    BY <2>1
<1>2. Temp(sp + 1) \in Slot /\ own[Temp(sp + 1)] = Nil /\ NotFreed(Temp(sp + 1))
  BY <1>1, Above, RootsNotFreed
<1>3. Rearranged(own) /\ \A c \in Block \ {b}, i \in 1 .. Width : kind[c] = "free" => own[Field(c, i)] = Nil
  BY Basics DEF Rearranged, CInv, HeapInv, FreeOwnsNothing
<1>4. cap' \in [Block -> Nat] /\ gcLive' \in Int
  BY Basics
<1> QED
  BY <1>2, <1>3, <1>4, AllocStep DEF CInv

(* Two slots change places.                                                *)
LEMMA SwapStep ==
  ASSUME CInv, NEW s \in Slot, NEW t \in Slot, NotFreed(s), NotFreed(t),
         own' = Exchange(own, s, t),
         UNCHANGED <<kind, rc, len, cap, orphan, gcLive, drain>>
  PROVE  HeapInv'
<1>1. Rearranged(own') /\ KeepsFreeEmpty(own')
  BY ExchangeKeeps DEF CInv
<1>2. len' \in [Block -> 0 .. Width] /\ cap' \in [Block -> Nat] /\ gcLive' \in Int
  BY Basics
<1> QED
  BY <1>1, <1>2, RearrangeStep DEF CInv

\* A block c is allocated and everything counted; other counts only grow
\* where there were references before.
Allocated(c) ==
  /\ kind[c] = "free" /\ kind'[c] \in Kind \ {"free"}
  /\ kind' = [kind EXCEPT ![c] = kind'[c]]
  /\ UNCHANGED drain
  /\ rc'[c] >= 1
  /\ \A b \in Block \ {c} : rc'[b] = rc[b] \/ (rc[b] >= 1 /\ rc'[b] >= 1)

(* Such an allocation is a step of a right heap, when the fields of what   *)
(* is still free stay empty.                                               *)
LEMMA GrowStep ==
  ASSUME HeapInv, NEW c \in Block, Allocated(c), HeapTypeOK', RefExact',
         FreeOwnsNothing'
  PROVE  HeapInv'
<1>1. kind \in [Block -> Kind] /\ rc \in [Block -> Nat] /\ drain \in Seq(Block)
  BY DEF HeapInv, HeapTypeOK
<1>2. /\ \A b \in Block \ {c} : kind'[b] = kind[b]
      /\ kind'[c] # "free" /\ kind[c] = "free" /\ drain' = drain
  BY <1>1 DEF Allocated
<1>3. \A i \in 1 .. Len(drain) : drain[i] \in Block /\ kind[drain[i]] # "free" /\ rc[drain[i]] = 0
  BY <1>1 DEF HeapInv, DrainIsDead
<1>4. rc'[c] # 0 /\ \A b \in Block \ {c} : rc'[b] = rc[b] \/ (rc[b] # 0 /\ rc'[b] # 0)
  BY <1>1 DEF Allocated
<1>5. DrainIsDead'
  <2>1. ASSUME NEW i \in 1 .. Len(drain) PROVE kind'[drain[i]] # "free" /\ rc'[drain[i]] = 0
    <3>1. drain[i] \in Block \ {c} /\ rc[drain[i]] = 0
      BY <1>2, <1>3
    <3> QED
      BY <1>2, <1>3, <1>4, <3>1
  <2> QED
    BY <1>2, <2>1 DEF HeapInv, DrainIsDead
<1>6. DeadIsDrained'
  <2> SUFFICES ASSUME NEW b \in Block, kind'[b] # "free", rc'[b] = 0
               PROVE  \E i \in 1 .. Len(drain) : drain[i] = b
    BY <1>2 DEF DeadIsDrained
  <2>1. b # c /\ kind[b] # "free" /\ rc[b] = 0
    BY <1>2, <1>4
  <2> QED
    BY <2>1 DEF HeapInv, DeadIsDrained
<1>7. FreeIsZero'
  <2> SUFFICES ASSUME NEW b \in Block, kind'[b] = "free"
               PROVE  rc'[b] = 0
    BY DEF FreeIsZero
  <2>1. b # c /\ kind[b] = "free" /\ rc[b] = 0
    BY <1>2 DEF HeapInv, FreeIsZero
  <2> QED
    BY <1>4, <2>1
<1> QED
  BY <1>5, <1>6, <1>7 DEF HeapInv

(* A temporary goes into a fresh cell, and the cell into the scope; what   *)
(* the name held takes the operand's place.                                *)
LEMMA BindStep ==
  ASSUME CInv, sp >= 1, NEW x \in Name, NEW c \in Block, Bind(x, c)
  PROVE  HeapInv'
<1>0. sp \in 1 .. MaxTemp /\ Temp(sp) \in Slot /\ NotFreed(Temp(sp))
  BY Basics, SlotFamilies, RootsNotFreed
<1>1. CASE depth = 0
  <2>1. /\ own' = Exchange(own, Temp(sp), Glob(x))
        /\ UNCHANGED <<kind, rc, len, cap, orphan, gcLive, drain>>
    BY <1>1 DEF Bind
  <2>2. Glob(x) \in Slot /\ NotFreed(Glob(x))
    BY SlotFamilies, RootsNotFreed
  <2> QED
    BY <1>0, <2>1, <2>2, SwapStep
<1>2. CASE depth # 0
  <2>1. PICK d, e, f : /\ d = Len(frames)
                       /\ e = Exchange(own, Temp(sp), Field(c, 1))
                       /\ f = Exchange(e, Temp(sp), Local(d, x))
    OBVIOUS
  <2>2. /\ Alloc(c, "cell", 1)
        /\ own' = Put(f, Local(d, x), c)
        /\ gcLive' = gcLive + 1
        /\ UNCHANGED <<cap, orphan, drain>>
    BY <1>2, <2>1 DEF Bind, depth
  <2>3. d \in 1 .. MaxDepth /\ x \in LocalName
    BY <1>2, <2>1, Basics DEF depth, LocalName
  <2>4. /\ Field(c, 1) \in Slot /\ Local(d, x) \in Slot /\ NotFreed(Local(d, x))
    BY <2>3, Basics, SlotFamilies, RootsNotFreed
  <2>5. /\ e \in [Slot -> Value]
        /\ \A u \in Slot : e[u] = IF u = Field(c, 1) THEN own[Temp(sp)]
                                  ELSE IF u = Temp(sp) THEN own[Field(c, 1)] ELSE own[u]
    <3>1. own \in [Slot -> Value]
      BY Basics
    <3> QED
      BY <1>0, <2>1, <2>4, <3>1, ExchangeAt
  <2>6. /\ f \in [Slot -> Value]
        /\ \A u \in Slot : f[u] = IF u = Local(d, x) THEN e[Temp(sp)]
                                  ELSE IF u = Temp(sp) THEN e[Local(d, x)] ELSE e[u]
    BY <1>0, <2>1, <2>4, <2>5, ExchangeAt
  <2>7. Rearranged(f)
    <3> SUFFICES ASSUME NEW b \in Block
                 PROVE  NRefs(f, b) = NRefs(own, b)
      BY <2>6 DEF Rearranged
    <3>1. NRefs(Exchange(own, Temp(sp), Field(c, 1)), b) = NRefs(own, b)
      <4>1. own \in [Slot -> Value]
        BY Basics
      <4> QED
        BY <1>0, <2>4, <4>1, ExchangeRefs
    <3>2. NRefs(Exchange(e, Temp(sp), Local(d, x)), b) = NRefs(e, b)
      BY <1>0, <2>4, <2>5, ExchangeRefs
    <3> QED
      BY <2>1, <3>1, <3>2
  <2>8. kind[c] = "free" /\ own[Field(c, 1)] = Nil
    BY <2>2, Basics DEF Alloc, Free, CInv, HeapInv, FreeOwnsNothing
  <2>9. f[Local(d, x)] = Nil
    BY <1>0, <2>4, <2>5, <2>6, <2>8, OtherSlot
  <2>10. \A b \in Block \ {c}, i \in 1 .. Width : kind[b] = "free" => f[Field(b, i)] = Nil
    <3> SUFFICES ASSUME NEW b \in Block \ {c}, NEW i \in 1 .. Width, kind[b] = "free"
                 PROVE  f[Field(b, i)] = Nil
      OBVIOUS
    <3>1. own[Field(b, i)] = Nil /\ Field(b, i) \in Slot
      BY SlotFamilies DEF CInv, HeapInv, FreeOwnsNothing
    <3> QED
      BY <2>5, <2>6, <3>1, SameSlot, OtherSlot
  <2>11. "cell" \in Kind \ {"free"} /\ 1 \in 0 .. Width /\ gcLive' \in Int /\ cap' \in [Block -> Nat]
    BY <2>2, Basics DEF Kind
  <2> QED
    BY <2>2, <2>4, <2>7, <2>9, <2>10, <2>11, AllocStep DEF CInv
<1> QED
  BY <1>1, <1>2

(* make_closure with an env: the closure takes the env's place.            *)
LEMMA WrapStep ==
  ASSUME CInv, sp >= 1, NEW c \in Block, Alloc(c, "clos", 1),
         own' = Put(Exchange(own, Temp(sp), Field(c, 1)), Temp(sp), c),
         gcLive' = gcLive + 1, UNCHANGED <<cap, orphan, drain>>
  PROVE  HeapInv'
<1>0. sp \in 1 .. MaxTemp /\ Temp(sp) \in Slot /\ NotFreed(Temp(sp)) /\ Field(c, 1) \in Slot
  BY Basics, SlotFamilies, RootsNotFreed
<1>1. PICK f : f = Exchange(own, Temp(sp), Field(c, 1))
  OBVIOUS
<1>2. /\ f \in [Slot -> Value]
      /\ \A u \in Slot : f[u] = IF u = Field(c, 1) THEN own[Temp(sp)]
                                ELSE IF u = Temp(sp) THEN own[Field(c, 1)] ELSE own[u]
  <2>1. own \in [Slot -> Value]
    BY Basics
  <2> QED
    BY <1>0, <1>1, <2>1, ExchangeAt
<1>3. Rearranged(f)
  <2>1. own \in [Slot -> Value]
    BY Basics
  <2>2. \A b \in Block : NRefs(Exchange(own, Temp(sp), Field(c, 1)), b) = NRefs(own, b)
    BY <1>0, <2>1, ExchangeRefs
  <2> QED
    BY <1>1, <1>2, <2>2 DEF Rearranged
<1>4. kind[c] = "free" /\ own[Field(c, 1)] = Nil
  BY Basics DEF Alloc, Free, CInv, HeapInv, FreeOwnsNothing
<1>5. f[Temp(sp)] = Nil
  BY <1>0, <1>2, <1>4, OtherSlot
<1>6. \A b \in Block \ {c}, i \in 1 .. Width : kind[b] = "free" => f[Field(b, i)] = Nil
  <2> SUFFICES ASSUME NEW b \in Block \ {c}, NEW i \in 1 .. Width, kind[b] = "free"
               PROVE  f[Field(b, i)] = Nil
    OBVIOUS
  <2>1. own[Field(b, i)] = Nil /\ Field(b, i) \in Slot
    BY SlotFamilies DEF CInv, HeapInv, FreeOwnsNothing
  <2> QED
    BY <1>2, <2>1, SameSlot, OtherSlot
<1>7. "clos" \in Kind \ {"free"} /\ 1 \in 0 .. Width /\ gcLive' \in Int /\ cap' \in [Block -> Nat]
  BY Basics DEF Kind
<1>8. own' = Put(f, Temp(sp), c)
  BY <1>1
<1> QED
  BY <1>0, <1>3, <1>5, <1>6, <1>7, <1>8, AllocStep DEF CInv

(* The self closure of a body: a second closure over the env of the first. *)
LEMMA SelfStep ==
  ASSUME CInv, NEW c \in Block, SelfClosure(c)
  PROVE  HeapInv' /\ kind[c] = "free" /\ (todo.env \in Block => todo.env # c)
<1>1. /\ Due = {} /\ sp < prog.temps /\ kind[c] = "free"
      /\ kind' = [kind EXCEPT ![c] = "clos"]
      /\ len' = [len EXCEPT ![c] = 1]
      /\ gcLive' = gcLive + 1
      /\ UNCHANGED <<cap, orphan, drain>>
  BY DEF SelfClosure, Doing, Settled, Free
<1>2. PICK e, t, f : e = todo.env /\ t = Temp(sp + 1) /\ f = Put(own, Field(c, 1), e)
  OBVIOUS
<1>3. own' = Put(f, t, c)
  BY <1>2 DEF SelfClosure
<1>4. \A b \in Block : rc'[b] = IF b = c THEN 1 ELSE IF b = e THEN rc[b] + 1 ELSE rc[b]
  BY <1>2 DEF SelfClosure, EnvShared
<1>5. /\ e \in Value
      /\ drain = <<>>
      /\ e # Nil => kind[e] = "env"
  BY <1>2 DEF SelfClosure, Doing, CInv, EnvKept, op, Control, ClosTypeOK
<1>6. t \in Slot /\ own[t] = Nil /\ NotFreed(t) /\ Field(c, 1) \in Slot /\ t # Field(c, 1)
  <2>0. sp \in 0 .. MaxTemp /\ prog.temps \in 0 .. MaxTemp /\ MaxTemp \in Nat
    BY Basics
  <2>1. sp + 1 \in Nat /\ sp + 1 > sp /\ sp + 1 <= MaxTemp
    BY <1>1, <2>0
  <2> QED
    BY <1>1, <1>2, <2>1, Above, Basics, RootsNotFreed, SlotFamilies, OtherSlot
<1>7. /\ own[Field(c, 1)] = Nil /\ NRefs(own, c) = 0 /\ orphan[c] = 0
      /\ \A b \in Block : NRefs(own, b) \in Nat /\ rc[b] \in Nat /\ orphan[b] \in Nat
  <2>1. NRefs(own, c) = 0 /\ orphan[c] = 0
    BY <1>1, FreeIsUnreferenced DEF CInv
  <2> QED
    BY <1>1, <2>1, Basics, NRefsType DEF CInv, HeapInv, FreeOwnsNothing
<1>8. e \in Block => e # c /\ rc[e] >= 1
  <2>1. e \in Block => e # c /\ kind[e] # "free"
    BY <1>1, <1>5, Basics
  <2>2. Len(drain) = 0
    BY <1>5
  <2>3. e \in Block => rc[e] # 0
    BY <2>1, <2>2 DEF CInv, HeapInv, DeadIsDrained
  <2> QED
    BY <1>7, <2>1, <2>3
<1>9. /\ f \in [Slot -> Value]
      /\ \A s \in Slot : f[s] = IF s = Field(c, 1) THEN e ELSE own[s]
  <2>1. own \in [Slot -> Value]
    BY Basics
  <2> QED
    BY <1>2, <1>5, <1>6, <2>1 DEF Put
<1>10. /\ own' \in [Slot -> Value]
       /\ \A s \in Slot : own'[s] = IF s = t THEN c ELSE f[s]
  <2>1. c \in Value
    BY DEF Value
  <2> QED
    BY <1>3, <1>6, <1>9, <2>1 DEF Put
<1>11. RefExact'
  <2> SUFFICES ASSUME NEW b \in Block
               PROVE  rc'[b] = NRefs(own', b) + orphan'[b]
    BY DEF RefExact
  <2>1. NRefs(f, b) = NRefs(own, b) - (IF own[Field(c, 1)] = b THEN 1 ELSE 0)
                                    + (IF e = b THEN 1 ELSE 0)
    <3>1. own \in [Slot -> Value]
      BY Basics
    <3> QED
      BY <1>2, <1>5, <1>6, <3>1, PutRefs
  <2>2. NRefs(own', b) = NRefs(f, b) - (IF f[t] = b THEN 1 ELSE 0) + (IF c = b THEN 1 ELSE 0)
    <3>1. c \in Value
      BY DEF Value
    <3> QED
      BY <1>3, <1>6, <1>9, <3>1, PutRefs
  <2>3. f[t] = Nil /\ own[Field(c, 1)] = Nil /\ b # Nil
    BY <1>6, <1>7, <1>9, Basics
  <2>4. rc[b] = NRefs(own, b) + orphan[b] /\ orphan'[b] = orphan[b]
    BY <1>1 DEF CInv, HeapInv, RefExact
  <2>5. NRefs(own', b) = NRefs(own, b) + (IF e = b THEN 1 ELSE 0) + (IF c = b THEN 1 ELSE 0)
    BY <1>7, <2>1, <2>2, <2>3
  <2>6. CASE b = c
    BY <1>1, <1>4, <1>7, <1>8, <2>5, <2>6
  <2>7. CASE b # c
    BY <1>4, <1>7, <2>4, <2>5, <2>7
  <2> QED
    BY <2>6, <2>7
<1>12. HeapTypeOK'
  <2>1. rc' \in [Block -> Nat]
    <3>1. rc' = [b \in Block |-> IF b = c THEN 1 ELSE IF b = todo.env THEN rc[b] + 1 ELSE rc[b]]
      BY DEF SelfClosure, EnvShared
    <3>2. \A b \in Block : rc[b] + 1 \in Nat /\ rc[b] \in Nat
      BY <1>7
    <3> QED
      BY <3>1, <3>2
  <2>2. kind' \in [Block -> Kind] /\ len' \in [Block -> 0 .. Width]
    BY <1>1, Basics DEF Kind
  <2>3. cap' \in [Block -> Nat] /\ orphan' \in [Block -> Nat] /\ gcLive' \in Int /\ drain' \in Seq(Block)
    BY <1>1, Basics DEF CInv, HeapInv, HeapTypeOK
  <2> QED
    BY <1>10, <2>1, <2>2, <2>3 DEF HeapTypeOK
<1>13. FreeOwnsNothing'
  <2> SUFFICES ASSUME NEW b \in Block, NEW i \in 1 .. Width, kind'[b] = "free"
               PROVE  own'[Field(b, i)] = Nil
    BY DEF FreeOwnsNothing
  <2>1. b # c /\ kind[b] = "free"
    BY <1>1, Basics
  <2>2. own[Field(b, i)] = Nil /\ Field(b, i) \in Slot /\ Field(b, i) # t /\ Field(b, i) # Field(c, 1)
    BY <1>2, <2>1, SlotFamilies, OtherSlot, SameSlot DEF CInv, HeapInv, FreeOwnsNothing
  <2> QED
    BY <1>9, <1>10, <2>2
<1>14. Allocated(c)
  <2>1. kind'[c] \in Kind \ {"free"} /\ kind' = [kind EXCEPT ![c] = kind'[c]]
    BY <1>1, Basics DEF Kind
  <2>2. \A b \in Block \ {c} : rc'[b] = rc[b] \/ (rc[b] >= 1 /\ rc'[b] >= 1)
    BY <1>4, <1>7, <1>8
  <2>3. rc'[c] >= 1
    BY <1>4
  <2> QED
    BY <1>1, <2>1, <2>2, <2>3 DEF Allocated
<1> QED
  BY <1>1, <1>2, <1>8, <1>11, <1>12, <1>13, <1>14, GrowStep DEF CInv

(* scope.insert: the count of a cell it replaces stays one too high.       *)
LEMMA InsertStep ==
  ASSUME CInv, sp >= 1, Len(frames) > 0, NEW x \in Name, NEW c \in Block, Insert(x, c)
  PROVE  HeapInv'
<1>1. PICK d, l, f : /\ d = Len(frames) /\ l = Local(d, x)
                     /\ f = Exchange(own, Temp(sp), Field(c, 1))
  OBVIOUS
<1>2. /\ kind[c] = "free"
      /\ kind' = [kind EXCEPT ![c] = "cell"]
      /\ len' = [len EXCEPT ![c] = 1]
      /\ rc' = [rc EXCEPT ![c] = 1]
      /\ own' = Put(f, l, c)
      /\ orphan' = IF own[l] \in Block THEN [orphan EXCEPT ![own[l]] = @ + 1] ELSE orphan
      /\ gcLive' = gcLive + 1
      /\ UNCHANGED <<cap, drain>>
  BY <1>1 DEF Insert, Alloc, Free, depth
<1>3. /\ Temp(sp) \in Slot /\ l \in Slot /\ Field(c, 1) \in Slot
      /\ l # Field(c, 1) /\ l # Temp(sp) /\ Temp(sp) # Field(c, 1)
  <2>1. sp \in 1 .. MaxTemp /\ d \in 1 .. MaxDepth /\ x \in LocalName
    BY <1>1, Basics DEF LocalName
  <2> QED
    BY <1>1, <2>1, Basics, SlotFamilies, OtherSlot
<1>4. /\ own[Field(c, 1)] = Nil /\ NRefs(own, c) = 0 /\ orphan[c] = 0
      /\ \A s \in Slot : own[s] # c
      /\ \A b \in Block : NRefs(own, b) \in Nat /\ rc[b] \in Nat /\ orphan[b] \in Nat
  <2>1. NRefs(own, c) = 0 /\ orphan[c] = 0 /\ \A s \in Slot : own[s] # c
    BY <1>2, FreeIsUnreferenced DEF CInv
  <2> QED
    BY <1>2, <2>1, Basics, NRefsType DEF CInv, HeapInv, FreeOwnsNothing
<1>5. /\ f \in [Slot -> Value]
      /\ \A u \in Slot : f[u] = IF u = Field(c, 1) THEN own[Temp(sp)]
                                ELSE IF u = Temp(sp) THEN own[Field(c, 1)] ELSE own[u]
  <2>1. own \in [Slot -> Value]
    BY Basics
  <2> QED
    BY <1>1, <1>3, <2>1, ExchangeAt
<1>6. /\ own' \in [Slot -> Value]
      /\ \A s \in Slot : own'[s] = IF s = l THEN c ELSE f[s]
  <2>1. c \in Value
    BY DEF Value
  <2> QED
    BY <1>2, <1>3, <1>5, <2>1 DEF Put
<1>7. own[l] \in Value
  BY <1>3, Basics
<1>8. RefExact'
  <2> SUFFICES ASSUME NEW b \in Block
               PROVE  rc'[b] = NRefs(own', b) + orphan'[b]
    BY DEF RefExact
  <2>1. NRefs(f, b) = NRefs(own, b)
    <3>1. own \in [Slot -> Value]
      BY Basics
    <3> QED
      BY <1>1, <1>3, <3>1, ExchangeRefs
  <2>2. NRefs(own', b) = NRefs(f, b) - (IF f[l] = b THEN 1 ELSE 0) + (IF c = b THEN 1 ELSE 0)
    <3>1. c \in Value
      BY DEF Value
    <3>2. l \in Slot /\ f \in [Slot -> Value] /\ own' = Put(f, l, c)
      BY <1>2, <1>3, <1>5
    <3> QED
      BY <3>1, <3>2, PutRefs
  <2>3. f[l] = own[l]
    BY <1>3, <1>5
  <2>4. rc[b] = NRefs(own, b) + orphan[b]
    BY DEF CInv, HeapInv, RefExact
  <2>5. orphan'[b] = orphan[b] + (IF own[l] = b THEN 1 ELSE 0)
    <3>1. orphan \in [Block -> Nat] /\ orphan[b] \in Nat
      BY Basics
    <3>2. CASE own[l] \in Block
      <4>1. orphan' = [orphan EXCEPT ![own[l]] = @ + 1]
        BY <1>2, <3>2
      <4> QED
        BY <3>1, <3>2, <4>1
    <3>3. CASE own[l] \notin Block
      <4>1. orphan' = orphan
        BY <1>2, <3>3
      <4> QED
        BY <3>1, <3>3, <4>1
    <3> QED
      BY <3>2, <3>3
  <2>6. rc'[b] = IF b = c THEN 1 ELSE rc[b]
    BY <1>2, Basics
  <2>7. CASE b = c
    BY <1>3, <1>4, <2>1, <2>2, <2>3, <2>5, <2>6, <2>7
  <2>8. CASE b # c
    BY <1>4, <2>1, <2>2, <2>3, <2>4, <2>5, <2>6, <2>8
  <2> QED
    BY <2>7, <2>8
<1>9. HeapTypeOK'
  <2>1. rc' \in [Block -> Nat] /\ orphan' \in [Block -> Nat]
    <3>1. rc \in [Block -> Nat] /\ orphan \in [Block -> Nat]
      BY Basics
    <3>2. rc' \in [Block -> Nat]
      BY <1>2, <3>1
    <3>3. own[l] \in Block => [orphan EXCEPT ![own[l]] = @ + 1] \in [Block -> Nat]
      BY <3>1
    <3>4. orphan' = [orphan EXCEPT ![own[l]] = @ + 1] \/ orphan' = orphan
      BY <1>2
    <3>5. orphan' \in [Block -> Nat]
      BY <1>2, <3>1, <3>3
    <3> QED
      BY <3>2, <3>5
  <2>2. kind' \in [Block -> Kind] /\ len' \in [Block -> 0 .. Width]
    <3>1. /\ kind \in [Block -> Kind] /\ len \in [Block -> 0 .. Width]
          /\ 1 \in 0 .. Width /\ "cell" \in Kind
      BY Basics DEF Kind
    <3> QED
      BY <1>2, <3>1
  <2>3. cap' \in [Block -> Nat] /\ gcLive' \in Int /\ drain' \in Seq(Block)
    BY <1>2, Basics DEF CInv, HeapInv, HeapTypeOK
  <2> QED
    BY <1>6, <2>1, <2>2, <2>3 DEF HeapTypeOK
<1>10. FreeOwnsNothing'
  <2> SUFFICES ASSUME NEW b \in Block, NEW i \in 1 .. Width, kind'[b] = "free"
               PROVE  own'[Field(b, i)] = Nil
    BY DEF FreeOwnsNothing
  <2>1. b # c /\ kind[b] = "free"
    BY <1>2, Basics
  <2>2. own[Field(b, i)] = Nil /\ Field(b, i) \in Slot /\ Field(b, i) # l
        /\ Field(b, i) # Field(c, 1) /\ Field(b, i) # Temp(sp)
    BY <1>1, <2>1, SlotFamilies, OtherSlot, SameSlot DEF CInv, HeapInv, FreeOwnsNothing
  <2> QED
    BY <1>5, <1>6, <2>2
<1>11. Allocated(c)
  <2>1. kind'[c] \in Kind \ {"free"} /\ kind' = [kind EXCEPT ![c] = kind'[c]]
    BY <1>2, Basics DEF Kind
  <2>2. \A b \in Block \ {c} : rc'[b] = rc[b]
    BY <1>2, Basics
  <2>3. rc'[c] >= 1
    BY <1>2, Basics
  <2> QED
    BY <1>2, <2>1, <2>2, <2>3 DEF Allocated
<1> QED
  BY <1>8, <1>9, <1>10, <1>11, GrowStep DEF CInv

(***************************************************************************)
(* The heap in every step.                                                 *)
(***************************************************************************)

(* A name resolves to a global or to the field of a live cell.             *)
LEMMA Resolved ==
  ASSUME CInv, NEW x \in Name, NEW s \in Slot, Resolves(x, s)
  PROVE  /\ NotFreed(s)
         /\ \/ s = Glob(x)
            \/ /\ Len(frames) > 0
               /\ own[Local(Len(frames), x)] \in Block
               /\ kind[own[Local(Len(frames), x)]] = "cell"
               /\ s = Field(own[Local(Len(frames), x)], 1)
<1>1. CASE depth > 0 /\ own[Local(depth, x)] # Nil
  <2>1. PICK d, l : d = Len(frames) /\ l = own[Local(d, x)]
    OBVIOUS
  <2>2. d \in 1 .. MaxDepth /\ x \in LocalName
    BY <1>1, <2>1, Basics DEF depth, LocalName
  <2>3. IsKind(l, "cell")
    BY <1>1, <2>1, <2>2 DEF CInv, RootsTyped, depth
  <2>4. s = Field(l, 1)
    BY <1>1, <2>1 DEF Resolves, depth
  <2>5. NotFreed(s)
    BY <2>3, <2>4, LiveNotFreed DEF IsKind
  <2> QED
    BY <1>1, <2>1, <2>3, <2>4, <2>5 DEF IsKind, depth
<1>2. CASE ~(depth > 0 /\ own[Local(depth, x)] # Nil)
  BY <1>2, RootsNotFreed DEF Resolves
<1> QED
  BY <1>1, <1>2

(* What CaptureNext reads and where it writes.                             *)
LEMMA CaptureSlots ==
  ASSUME CInv, Doing("capture")
  PROVE  /\ Top \in Block /\ kind[Top] = "env"
         /\ len[Top] + 1 \in 1 .. Width
         /\ len[Top] + 1 \in 1 .. Len(todo.code.caps)
         /\ own[Field(Top, len[Top] + 1)] = Nil
         /\ Len(frames) \in 1 .. MaxDepth
         /\ todo.code.caps[len[Top] + 1] \in Name
         /\ own[Local(Len(frames), todo.code.caps[len[Top] + 1])] \in Block
         /\ kind[own[Local(Len(frames), todo.code.caps[len[Top] + 1])]] = "cell"
         /\ Captured(todo.code.caps[len[Top] + 1]) \in Value
         /\ IsVal(Captured(todo.code.caps[len[Top] + 1]))
<1>1. op = "capture" /\ Building
  BY DEF Doing, op, Building
<1>2. PICK e, i, x, d, l : /\ e = Top /\ i = len[e] + 1 /\ x = todo.code.caps[i] /\ d = Len(frames)
                           /\ l = own[Local(d, x)]
  OBVIOUS
<1>3. IsKind(e, "env") /\ len[e] < Len(todo.code.caps)
  BY <1>1, <1>2 DEF CInv, BuiltAlone, Top
<1>4. len[e] \in 0 .. Width
  BY <1>3, Basics DEF IsKind
<1>5. todo.code.caps \in Seq(Name) /\ Len(todo.code.caps) <= Width
  BY DEF CInv, Control, ClosTypeOK, Code, Codes, CodeOK
<1>6. i \in 1 .. Width /\ i \in 1 .. Len(todo.code.caps) /\ i > len[e]
  <2>1. Len(todo.code.caps) \in Nat /\ Width \in Nat
    BY <1>5, Basics
  <2> QED
    BY <1>2, <1>3, <1>4, <1>5, <2>1
<1>7. own[Field(e, i)] = Nil
  BY <1>1, <1>2, <1>6 DEF CInv, BuiltAlone, Top
<1>8. x \in Name /\ l # Nil /\ d > 0
  BY <1>1, <1>2, <1>5, <1>6 DEF CInv, BuiltAlone
<1>9. d \in 1 .. MaxDepth /\ x \in LocalName
  BY <1>2, <1>8, Basics DEF LocalName
<1>10. IsKind(l, "cell")
  BY <1>2, <1>8, <1>9 DEF CInv, RootsTyped
<1>11. 1 \in 1 .. Width /\ Field(l, 1) \in Slot
  BY <1>10, Basics, SlotFamilies DEF IsKind
<1>12. own[Field(l, 1)] \in Value /\ IsVal(own[Field(l, 1)])
  BY <1>10, <1>11, Basics DEF CInv, FieldsTyped, IsKind, IsVal
<1> QED
  BY <1>2, <1>3, <1>6, <1>7, <1>8, <1>9, <1>10, <1>12 DEF IsKind, Captured, depth

(* The slot LoadCapture reads.                                             *)
LEMMA LoadSlot ==
  ASSUME CInv, Doing("load")
  PROVE  /\ todo.env \in Block /\ todo.n + 1 \in 1 .. Width
         /\ Field(todo.env, todo.n + 1) \in Slot
         /\ Len(todo.code.caps) \in 0 .. Width
         /\ todo.code.caps[todo.n + 1] \in Name
<1>1. op = "load"
  BY DEF Doing, op
<1>2. todo.env \in Block /\ todo.n < Len(todo.code.caps) /\ Len(todo.code.caps) <= Width
  BY <1>1 DEF CInv, EnvKept, Control, Subject, Knows, Codes, CodeOK
<1>3. todo.n \in 0 .. Width /\ todo.code.caps \in Seq(Name)
  BY DEF CInv, Control, ClosTypeOK, Code
<1>4. Width \in Nat /\ Len(todo.code.caps) \in Nat
  BY <1>3, Basics
<1>5. todo.n + 1 \in 1 .. Width /\ todo.n + 1 \in 1 .. Len(todo.code.caps)
  BY <1>2, <1>3, <1>4
<1> QED
  BY <1>2, <1>3, <1>4, <1>5, SlotFamilies

(* Base and Floor are temporaries in use.                                  *)
LEMMA Heights ==
  ASSUME CInv
  PROVE  /\ Base \in 0 .. sp /\ Floor \in 0 .. sp /\ Base <= Floor
         /\ \A k \in 1 .. Len(calls) : calls[k] \in 1 .. MaxTemp /\ calls[k] <= Floor
         /\ frames # <<>> => Len(frames) \in 1 .. MaxDepth /\ Base = frames[Len(frames)]
         /\ frames = <<>> => Base = 0
         /\ calls # <<>> => Len(calls) \in 1 .. Len(calls)
         /\ calls # <<>> => Floor = Base \/ Floor = calls[Len(calls)]
         /\ calls = <<>> => Floor = Base
         /\ calls # <<>> => Floor >= calls[Len(calls)]
<1>1. calls \in Seq(1 .. MaxTemp) /\ frames \in Seq(0 .. MaxTemp) /\ sp \in 0 .. MaxTemp
      /\ MaxTemp \in Nat /\ Len(frames) \in 0 .. MaxDepth
  BY Basics DEF CInv, Control, ClosTypeOK
<1>2. /\ \A k \in 1 .. Len(calls) : calls[k] <= sp
      /\ \A j, k \in 1 .. Len(calls) : j < k => calls[j] < calls[k]
      /\ \A d \in 1 .. Len(frames) : frames[d] <= sp
  BY DEF CInv, Control, Stack
<1>3. frames # <<>> => Len(frames) \in 1 .. Len(frames)
  BY <1>1
<1>4. Base \in 0 .. sp
  <2>1. CASE frames = <<>>
    BY <1>1, <2>1 DEF Base
  <2>2. CASE frames # <<>>
    <3>1. frames[Len(frames)] \in 0 .. MaxTemp /\ frames[Len(frames)] <= sp
      BY <1>1, <1>2, <1>3, <2>2
    <3> QED
      BY <1>1, <2>2, <3>1 DEF Base, depth
  <2> QED
    BY <2>1, <2>2
<1>5. CASE calls = <<>>
  <2>1. Floor = Base
    BY <1>5 DEF Floor
  <2>2. \A k \in 1 .. Len(calls) : FALSE
    BY <1>5
  <2> QED
    BY <1>1, <1>3, <1>4, <1>5, <2>1, <2>2 DEF Base, depth
<1>6. CASE calls # <<>>
  <2>1. PICK m, b, n : m = calls[Len(calls)] /\ b = Base /\ n = Len(calls)
    OBVIOUS
  <2>2. n \in 1 .. Len(calls) /\ m \in 1 .. MaxTemp /\ m <= sp
    <3>1. n \in 1 .. Len(calls)
      BY <1>1, <1>6, <2>1
    <3> QED
      BY <1>1, <1>2, <2>1, <3>1
  <2>3. Floor = Max({b, m})
    BY <1>6, <2>1 DEF Floor
  <2>4. Floor = IF b >= m THEN b ELSE m
    <3>1. b \in Int /\ m \in Int
      BY <1>1, <1>4, <2>1, <2>2
    <3> QED
      BY <2>3, <3>1 DEF Max
  <2>5. \A k \in 1 .. Len(calls) : calls[k] \in 1 .. MaxTemp /\ calls[k] <= m
    <3> SUFFICES ASSUME NEW k \in 1 .. Len(calls)
                 PROVE  calls[k] \in 1 .. MaxTemp /\ calls[k] <= m
      OBVIOUS
    <3>1. calls[k] \in 1 .. MaxTemp
      BY <1>1
    <3>2. k = n \/ k < n
      BY <2>1, <2>2
    <3> QED
      BY <1>2, <2>1, <2>2, <3>1, <3>2
  <2>6. Floor \in 0 .. sp /\ Base <= Floor /\ Floor >= m /\ (Floor = Base \/ Floor = m)
    BY <1>1, <1>4, <2>1, <2>2, <2>4
  <2>7. \A k \in 1 .. Len(calls) : calls[k] \in 1 .. MaxTemp /\ calls[k] <= Floor
    BY <1>1, <2>2, <2>5, <2>6
  <2> QED
    BY <1>1, <1>3, <1>4, <1>6, <2>1, <2>2, <2>6, <2>7 DEF Base, depth
<1> QED
  BY <1>5, <1>6

(* The function a definition or an entry is about.                         *)
LEMMA SubjectIs ==
  ASSUME CInv, op \in Entry \cup {"enter", "env", "capture", "closure", "bind"}
  PROVE  /\ todo.code.fn \in Fn /\ todo.code.fn \in Name
         /\ Arity(todo.code.fn) \in {0, 1}
         /\ prog.param[todo.code.fn] \in Name \cup {NoName}
         /\ Arity(todo.code.fn) = 1 => prog.param[todo.code.fn] \in Name
         /\ todo.code.caps \in Seq(Name)
<1>1. todo.code.fn \in Fn
  BY DEF CInv, Control, Subject, Knows
<1>2. prog.param \in [Fn -> Name \cup {NoName}]
  BY FnAssumption DEF CInv, Control, ClosTypeOK, FnAssumption, Program
<1>3. todo.code.caps \in Seq(Name)
  BY DEF CInv, Control, ClosTypeOK, Code
<1> QED
  BY <1>1, <1>2, <1>3, FnAssumption DEF FnAssumption, Arity

(* What a binding step of the entry inserts: a name of the body's scope.   *)
LEMMA EntryBinds ==
  ASSUME CInv
  PROVE  /\ Doing("bindself") => sp >= 1 /\ Len(frames) > 0 /\ todo.code.fn \in Name
         /\ Doing("bindload") => /\ sp >= 1 /\ Len(frames) > 0
                                 /\ todo.n + 1 \in 1 .. Len(todo.code.caps)
                                 /\ todo.code.caps[todo.n + 1] \in Name
         /\ Doing("param") => sp >= 1 /\ Len(frames) > 0 /\ prog.param[todo.code.fn] \in Name
<1>1. Base \in 0 .. sp /\ sp \in 0 .. MaxTemp /\ MaxTemp \in Nat
  BY Heights, Basics
<1>2. op \in Entry => frames # <<>> /\ Len(frames) > 0
  <2>1. frames \in Seq(0 .. MaxTemp)
    BY DEF CInv, Control, ClosTypeOK
  <2> QED
    BY <2>1 DEF CInv, Control, Subject, Knows
<1>3. ASSUME Doing("bindself")
      PROVE  sp >= 1 /\ Len(frames) > 0 /\ todo.code.fn \in Name
  <2>1. op = "bindself" /\ op \in Entry
    BY <1>3 DEF Doing, op, Entry
  <2>2. sp = Base + Arity(todo.code.fn) + 1
    BY <2>1 DEF CInv, Control, Position, Place
  <2>3. Arity(todo.code.fn) \in {0, 1} /\ todo.code.fn \in Name
    BY <2>1, SubjectIs
  <2> QED
    BY <1>1, <1>2, <2>1, <2>2, <2>3
<1>4. ASSUME Doing("bindload")
      PROVE  /\ sp >= 1 /\ Len(frames) > 0
             /\ todo.n + 1 \in 1 .. Len(todo.code.caps)
             /\ todo.code.caps[todo.n + 1] \in Name
  <2>1. op = "bindload" /\ op \in Entry
    BY <1>4 DEF Doing, op, Entry
  <2>2. sp = Base + Arity(todo.code.fn) + 1 /\ todo.n < Len(todo.code.caps)
    BY <2>1 DEF CInv, Control, Position, Place, Subject, Knows
  <2>3. Arity(todo.code.fn) \in {0, 1} /\ todo.code.caps \in Seq(Name)
    BY <2>1, SubjectIs
  <2>4. todo.n \in 0 .. Width /\ Width \in Nat
    BY Basics DEF CInv, Control, ClosTypeOK
  <2>5. todo.n + 1 \in 1 .. Len(todo.code.caps)
    BY <2>2, <2>3, <2>4
  <2> QED
    BY <1>1, <1>2, <2>1, <2>2, <2>3, <2>5
<1>5. ASSUME Doing("param")
      PROVE  sp >= 1 /\ Len(frames) > 0 /\ prog.param[todo.code.fn] \in Name
  <2>1. op = "param" /\ op \in Entry
    BY <1>5 DEF Doing, op, Entry
  <2>2. sp = Base + 1 /\ Arity(todo.code.fn) = 1
    BY <2>1 DEF CInv, Control, Position, Place
  <2> QED
    BY <1>1, <1>2, <2>1, <2>2, SubjectIs
<1> QED
  BY <1>3, <1>4, <1>5

(* The count of every block stays right in every step.                     *)
LEMMA HeapSteps ==
  ASSUME CInv, [Next]_vars
  PROVE  HeapInv'
<1>0. /\ Base \in 0 .. sp /\ Floor \in 0 .. sp /\ sp \in 0 .. MaxTemp
      /\ MaxTemp \in Nat /\ Width \in Nat /\ 1 \in 1 .. Width
      /\ HeapInv
  BY Heights, Basics DEF CInv
<1>1. CASE UNCHANGED vars
  BY <1>0, <1>1, Untouched DEF vars
<1>2. CASE \/ PushConst \/ Discard \/ (\E f \in Fn, q \in CaptureList : Define(f, q))
           \/ OpenCallOnValue \/ Enter \/ Return \/ FallThrough \/ BackInCaller
           \/ Abort \/ EndProgram \/ Exit
  <2>1. UNCHANGED heap
    BY <1>2 DEF PushConst, Discard, Define, OpenCallOnValue, Enter, Return, FallThrough,
                BackInCaller, Abort, EndProgram, Exit
  <2> QED
    BY <1>0, <2>1, Untouched
<1>3. CASE ReleaseOperand
  <2>1. PICK i \in Due : Drop(Temp(i))
    BY <1>3 DEF ReleaseOperand
  <2>2. Temp(i) \in Slot
    BY <1>0, SlotFamilies DEF Due
  <2> QED
    BY <1>0, <2>1, <2>2, DropStep
<1>4. CASE RunCascade
  BY <1>0, <1>4, CascadeStep DEF RunCascade
<1>5. ASSUME NEW b \in Block, PushString(b) PROVE HeapInv'
  <2>1. "str" \in Kind \ {"free"} /\ 0 \in 0 .. Width
    BY <1>0 DEF Kind
  <2> QED
    BY <1>5, <2>1, PushFreshStep DEF PushString, Ready, Doing, Settled
<1>6. ASSUME NEW x \in Name, LoadVar(x) \/ OpenCall(x) PROVE HeapInv'
  <2>1. PICK s \in Slot : Push(own[s])
    BY <1>6 DEF LoadVar, OpenCall
  <2>2. Due = {}
    BY <1>6 DEF LoadVar, OpenCall, Ready, Doing, Settled
  <2> QED
    BY <2>1, <2>2, PushStep
<1>7. CASE LoadCapture
  BY <1>7, LoadSlot, PushStep DEF LoadCapture, Doing, Settled
<1>8. ASSUME NEW x \in Name, NEW c \in Block, Assign(x, c) PROVE HeapInv'
  BY <1>0, <1>8, BindStep DEF Assign, Evaluated
<1>9. ASSUME NEW x \in Name, Reassign(x) PROVE HeapInv'
  <2>1. PICK s \in Slot : Resolves(x, s) /\ own' = Exchange(own, Temp(sp), s)
    BY <1>9 DEF Reassign
  <2>2. sp \in 1 .. MaxTemp
    BY <1>0, <1>9 DEF Reassign, Evaluated
  <2>3. UNCHANGED <<kind, rc, len, cap, orphan, gcLive, drain>>
    BY <1>9 DEF Reassign
  <2> QED
    BY <2>1, <2>2, <2>3, Resolved, SwapStep, SlotFamilies, RootsNotFreed
<1>10. ASSUME NEW e \in Block, MakeEnv(e) PROVE HeapInv'
  <2>1. "env" \in Kind \ {"free"} /\ 0 \in 0 .. Width
    BY <1>0 DEF Kind
  <2> QED
    BY <1>10, <2>1, PushFreshStep DEF MakeEnv, Doing, Settled
<1>11. CASE CaptureNext
  <2>1. PICK e, i, x, l : /\ e = Top /\ i = len[e] + 1 /\ x = todo.code.caps[i]
                          /\ l = own[Local(Len(frames), x)]
    OBVIOUS
  <2>2. /\ e \in Block /\ kind[e] = "env" /\ i \in 1 .. Width /\ own[Field(e, i)] = Nil
        /\ l \in Block /\ Captured(x) = own[Field(l, 1)]
    BY <1>11, <2>1, CaptureSlots DEF CaptureNext, Captured, depth
  <2>3. /\ own' = Put(own, Field(e, i), own[Field(l, 1)]) /\ rc' = Retain(own[Field(l, 1)])
        /\ len' = [len EXCEPT ![e] = i]
        /\ UNCHANGED <<kind, cap, orphan, gcLive, drain>>
    BY <1>11, <2>1, <2>2 DEF CaptureNext
  <2>4. Field(l, 1) \in Slot /\ Field(e, i) \in Slot /\ NotFreed(Field(e, i))
    BY <1>0, <2>2, SlotFamilies, LiveNotFreed
  <2>5. Rearranged(own) /\ KeepsFreeEmpty(own)
    BY Basics DEF Rearranged, KeepsFreeEmpty, CInv, HeapInv, FreeOwnsNothing
  <2>6. len' \in [Block -> 0 .. Width] /\ cap' \in [Block -> Nat] /\ gcLive' \in Int
    BY <2>2, <2>3, Basics
  <2> QED
    BY <1>0, <2>2, <2>3, <2>4, <2>5, <2>6, CopyStep
<1>12. ASSUME NEW c \in Block, MakeClosure(c) PROVE HeapInv'
  <2>1. "clos" \in Kind \ {"free"} /\ 1 \in 0 .. Width
    BY <1>0 DEF Kind
  <2>2. CASE todo.code.caps = <<>>
    BY <1>12, <2>1, <2>2, PushFreshStep DEF MakeClosure, Doing, Settled
  <2>3. CASE todo.code.caps # <<>>
    <3>1. sp = Base + 1
      BY <1>12, <2>3 DEF MakeClosure, Doing, op, CInv, Control, Position, Place
    <3> QED
      BY <1>0, <1>12, <2>3, <3>1, WrapStep DEF MakeClosure
  <2> QED
    BY <2>2, <2>3
<1>13. ASSUME NEW c \in Block, BindFn(c) PROVE HeapInv'
  <2>1. op = "bind"
    BY <1>13 DEF BindFn, Doing, op
  <2>2. sp = Base + 1 /\ todo.code.fn \in Name
    BY <2>1, SubjectIs DEF CInv, Control, Position, Place
  <2> QED
    BY <1>0, <1>13, <2>2, BindStep DEF BindFn
<1>14. CASE Call
  <2>1. /\ own' = Exchange(own, Temp(Floor), Temp(sp))
        /\ UNCHANGED <<kind, rc, len, cap, orphan, gcLive, drain>>
    BY <1>14 DEF Call
  <2>2. Floor \in 1 .. MaxTemp /\ sp \in 1 .. MaxTemp
    <3>1. calls # <<>> /\ calls[Len(calls)] > Base
      BY <1>14 DEF Call, InCall
    <3>2. Floor >= calls[Len(calls)]
      BY <3>1, Heights
    <3>3. calls[Len(calls)] \in 1 .. MaxTemp
      BY <3>1, Heights
    <3> QED
      BY <1>0, <3>2, <3>3
  <2> QED
    BY <2>1, <2>2, SwapStep, SlotFamilies, RootsNotFreed
<1>15. ASSUME NEW c \in Block, SelfClosure(c) PROVE HeapInv'
  BY <1>15, SelfStep
<1>16. ASSUME NEW c \in Block, BindSelf(c) \/ BindCapture(c) \/ BindParam(c) PROVE HeapInv'
  BY <1>16, EntryBinds, InsertStep DEF BindSelf, BindCapture, BindParam
<1>17. CASE ReleaseLocal
  <2>1. PICK x \in Name : Drop(Local(depth, x))
    BY <1>17 DEF ReleaseLocal
  <2>2. frames # <<>>
    BY <1>17 DEF ReleaseLocal, Doing, op, CInv, Control, Subject, Knows
  <2>3. Local(depth, x) \in Slot
    BY <2>2, Heights, SlotFamilies DEF depth, LocalName
  <2> QED
    BY <1>0, <2>1, <2>3, DropStep
<1>18. CASE ReleaseGlobal
  <2>1. PICK x \in Name : Drop(Glob(x))
    BY <1>18 DEF ReleaseGlobal
  <2> QED
    BY <1>0, <2>1, SlotFamilies, DropStep
<1> QED
  BY <1>1, <1>2, <1>3, <1>4, <1>5, <1>6, <1>7, <1>8, <1>9, <1>10, <1>11, <1>12, <1>13, <1>14,
     <1>15, <1>16, <1>17, <1>18 DEF Next

(***************************************************************************)
(* What each move leaves in each family of slots.                          *)
(***************************************************************************)
TempsKept  == \A i \in 1 .. MaxTemp : own'[Temp(i)] = own[Temp(i)]
GlobsKept  == own'[Reg] = own[Reg] /\ \A x \in Name : own'[Glob(x)] = own[Glob(x)]
LocalsKept == \A d \in 1 .. MaxDepth, x \in LocalName : own'[Local(d, x)] = own[Local(d, x)]
FieldsKept == \A b \in Block, i \in 1 .. Width : own'[Field(b, i)] = own[Field(b, i)]

(* A temporary is written.                                                 *)
LEMMA TempPut ==
  ASSUME own \in [Slot -> Value], NEW k \in 1 .. MaxTemp, NEW v \in Value,
         own' = Put(own, Temp(k), v)
  PROVE  /\ GlobsKept /\ LocalsKept /\ FieldsKept
         /\ \A i \in 1 .. MaxTemp : own'[Temp(i)] = IF i = k THEN v ELSE own[Temp(i)]
<1>1. Temp(k) \in Slot
  BY SlotFamilies
<1>2. \A u \in Slot : own'[u] = IF u = Temp(k) THEN v ELSE own[u]
  BY <1>1 DEF Put
<1> QED
  BY <1>2, SlotFamilies, SameSlot, OtherSlot DEF GlobsKept, LocalsKept, FieldsKept

(* A field is written.                                                     *)
LEMMA FieldPut ==
  ASSUME own \in [Slot -> Value], NEW b \in Block, NEW j \in 1 .. Width, NEW v \in Value,
         own' = Put(own, Field(b, j), v)
  PROVE  /\ GlobsKept /\ LocalsKept /\ TempsKept
         /\ \A c \in Block, i \in 1 .. Width :
              own'[Field(c, i)] = IF c = b /\ i = j THEN v ELSE own[Field(c, i)]
<1>1. Field(b, j) \in Slot
  BY SlotFamilies
<1>2. \A u \in Slot : own'[u] = IF u = Field(b, j) THEN v ELSE own[u]
  BY <1>1 DEF Put
<1> QED
  BY <1>2, SlotFamilies, SameSlot, OtherSlot DEF GlobsKept, LocalsKept, TempsKept

(* A global is written.                                                    *)
LEMMA GlobPut ==
  ASSUME own \in [Slot -> Value], NEW y \in Name, NEW v \in Value,
         own' = Put(own, Glob(y), v)
  PROVE  /\ LocalsKept /\ TempsKept /\ FieldsKept /\ own'[Reg] = own[Reg]
         /\ \A x \in Name : own'[Glob(x)] = IF x = y THEN v ELSE own[Glob(x)]
<1>1. Glob(y) \in Slot
  BY SlotFamilies
<1>2. \A u \in Slot : own'[u] = IF u = Glob(y) THEN v ELSE own[u]
  BY <1>1 DEF Put
<1> QED
  BY <1>2, SlotFamilies, SameSlot, OtherSlot DEF LocalsKept, TempsKept, FieldsKept

(* A name of a scope is written.                                           *)
LEMMA LocalPut ==
  ASSUME own \in [Slot -> Value], NEW e \in 1 .. MaxDepth, NEW y \in LocalName, NEW v \in Value,
         own' = Put(own, Local(e, y), v)
  PROVE  /\ GlobsKept /\ TempsKept /\ FieldsKept
         /\ \A d \in 1 .. MaxDepth, x \in LocalName :
              own'[Local(d, x)] = IF d = e /\ x = y THEN v ELSE own[Local(d, x)]
<1>1. Local(e, y) \in Slot
  BY SlotFamilies
<1>2. \A u \in Slot : own'[u] = IF u = Local(e, y) THEN v ELSE own[u]
  BY <1>1 DEF Put
<1> QED
  BY <1>2, SlotFamilies, SameSlot, OtherSlot DEF GlobsKept, TempsKept, FieldsKept

(* A temporary and a global change places.                                 *)
LEMMA GlobSwap ==
  ASSUME own \in [Slot -> Value], NEW k \in 1 .. MaxTemp, NEW y \in Name,
         own' = Exchange(own, Temp(k), Glob(y))
  PROVE  /\ LocalsKept /\ FieldsKept /\ own'[Reg] = own[Reg]
         /\ \A x \in Name : own'[Glob(x)] = IF x = y THEN own[Temp(k)] ELSE own[Glob(x)]
         /\ \A i \in 1 .. MaxTemp : own'[Temp(i)] = IF i = k THEN own[Glob(y)] ELSE own[Temp(i)]
<1>1. Glob(y) \in Slot /\ Temp(k) \in Slot
  BY SlotFamilies
<1>2. \A u \in Slot : own'[u] = IF u = Glob(y) THEN own[Temp(k)]
                                ELSE IF u = Temp(k) THEN own[Glob(y)] ELSE own[u]
  BY <1>1 DEF Exchange
<1> QED
  BY <1>2, SlotFamilies, SameSlot, OtherSlot DEF LocalsKept, FieldsKept

(* A temporary and a field change places.                                  *)
LEMMA FieldSwap ==
  ASSUME own \in [Slot -> Value], NEW k \in 1 .. MaxTemp, NEW b \in Block, NEW j \in 1 .. Width,
         own' = Exchange(own, Temp(k), Field(b, j))
  PROVE  /\ LocalsKept /\ GlobsKept
         /\ \A c \in Block, i \in 1 .. Width :
              own'[Field(c, i)] = IF c = b /\ i = j THEN own[Temp(k)] ELSE own[Field(c, i)]
         /\ \A i \in 1 .. MaxTemp : own'[Temp(i)] = IF i = k THEN own[Field(b, j)] ELSE own[Temp(i)]
<1>1. Field(b, j) \in Slot /\ Temp(k) \in Slot
  BY SlotFamilies
<1>2. \A u \in Slot : own'[u] = IF u = Field(b, j) THEN own[Temp(k)]
                                ELSE IF u = Temp(k) THEN own[Field(b, j)] ELSE own[u]
  BY <1>1 DEF Exchange
<1> QED
  BY <1>2, SlotFamilies, SameSlot, OtherSlot DEF LocalsKept, GlobsKept

(* Two temporaries change places.                                          *)
LEMMA TempSwap ==
  ASSUME own \in [Slot -> Value], NEW k \in 1 .. MaxTemp, NEW m \in 1 .. MaxTemp,
         own' = Exchange(own, Temp(k), Temp(m))
  PROVE  /\ LocalsKept /\ GlobsKept /\ FieldsKept
         /\ \A i \in 1 .. MaxTemp :
              own'[Temp(i)] = IF i = m THEN own[Temp(k)]
                              ELSE IF i = k THEN own[Temp(m)] ELSE own[Temp(i)]
<1>1. Temp(m) \in Slot /\ Temp(k) \in Slot
  BY SlotFamilies
<1>2. \A u \in Slot : own'[u] = IF u = Temp(m) THEN own[Temp(k)]
                                ELSE IF u = Temp(k) THEN own[Temp(m)] ELSE own[u]
  BY <1>1 DEF Exchange
<1> QED
  BY <1>2, SlotFamilies, SameSlot, OtherSlot DEF LocalsKept, GlobsKept, FieldsKept

(* make_closure over an env.                                               *)
LEMMA Wrapped ==
  ASSUME own \in [Slot -> Value], NEW k \in 1 .. MaxTemp, NEW c \in Block, 1 \in 1 .. Width,
         own' = Put(Exchange(own, Temp(k), Field(c, 1)), Temp(k), c)
  PROVE  /\ LocalsKept /\ GlobsKept
         /\ \A b \in Block, i \in 1 .. Width :
              own'[Field(b, i)] = IF b = c /\ i = 1 THEN own[Temp(k)] ELSE own[Field(b, i)]
         /\ \A i \in 1 .. MaxTemp : own'[Temp(i)] = IF i = k THEN c ELSE own[Temp(i)]
<1>1. Field(c, 1) \in Slot /\ Temp(k) \in Slot
  BY SlotFamilies
<1>2. \A u \in Slot : own'[u] = IF u = Temp(k) THEN c
                                ELSE IF u = Field(c, 1) THEN own[Temp(k)] ELSE own[u]
  BY <1>1 DEF Exchange, Put
<1> QED
  BY <1>2, SlotFamilies, SameSlot, OtherSlot DEF LocalsKept, GlobsKept

(* The self closure: its field and a new temporary.                        *)
LEMMA SelfMade ==
  ASSUME own \in [Slot -> Value], NEW k \in 1 .. MaxTemp, NEW c \in Block, 1 \in 1 .. Width,
         NEW e \in Value,
         own' = Put(Put(own, Field(c, 1), e), Temp(k), c)
  PROVE  /\ LocalsKept /\ GlobsKept
         /\ \A b \in Block, i \in 1 .. Width :
              own'[Field(b, i)] = IF b = c /\ i = 1 THEN e ELSE own[Field(b, i)]
         /\ \A i \in 1 .. MaxTemp : own'[Temp(i)] = IF i = k THEN c ELSE own[Temp(i)]
<1>1. Field(c, 1) \in Slot /\ Temp(k) \in Slot
  BY SlotFamilies
<1>2. \A u \in Slot : own'[u] = IF u = Temp(k) THEN c
                                ELSE IF u = Field(c, 1) THEN e ELSE own[u]
  BY <1>1 DEF Put
<1> QED
  BY <1>2, SlotFamilies, SameSlot, OtherSlot DEF LocalsKept, GlobsKept

(* bind in a frame: the cell it replaces takes the operand's place.        *)
LEMMA CellBound ==
  ASSUME own \in [Slot -> Value], NEW k \in 1 .. MaxTemp, NEW c \in Block, 1 \in 1 .. Width,
         NEW e \in 1 .. MaxDepth, NEW y \in LocalName, own[Field(c, 1)] = Nil,
         own' = Put(Exchange(Exchange(own, Temp(k), Field(c, 1)), Temp(k), Local(e, y)),
                    Local(e, y), c)
  PROVE  /\ GlobsKept
         /\ \A d \in 1 .. MaxDepth, x \in LocalName :
              own'[Local(d, x)] = IF d = e /\ x = y THEN c ELSE own[Local(d, x)]
         /\ \A b \in Block, i \in 1 .. Width :
              own'[Field(b, i)] = IF b = c /\ i = 1 THEN own[Temp(k)] ELSE own[Field(b, i)]
         /\ \A i \in 1 .. MaxTemp :
              own'[Temp(i)] = IF i = k THEN own[Local(e, y)] ELSE own[Temp(i)]
<1>1. /\ Field(c, 1) \in Slot /\ Temp(k) \in Slot /\ Local(e, y) \in Slot
      /\ Field(c, 1) # Temp(k) /\ Field(c, 1) # Local(e, y) /\ Temp(k) # Local(e, y)
  BY SlotFamilies, OtherSlot
<1>2. PICK f, g : f = Exchange(own, Temp(k), Field(c, 1)) /\ g = Exchange(f, Temp(k), Local(e, y))
  OBVIOUS
<1>3. /\ f \in [Slot -> Value]
      /\ \A u \in Slot : f[u] = IF u = Field(c, 1) THEN own[Temp(k)]
                                ELSE IF u = Temp(k) THEN Nil ELSE own[u]
  BY <1>1, <1>2, ExchangeAt
<1>4. /\ g \in [Slot -> Value]
      /\ \A u \in Slot : g[u] = IF u = Local(e, y) THEN f[Temp(k)]
                                ELSE IF u = Temp(k) THEN f[Local(e, y)] ELSE f[u]
  BY <1>1, <1>2, <1>3, ExchangeAt
<1>5. \A u \in Slot : own'[u] = IF u = Local(e, y) THEN c ELSE g[u]
  BY <1>1, <1>2, <1>4 DEF Put
<1>6. \A u \in Slot : own'[u] = IF u = Local(e, y) THEN c
                                ELSE IF u = Temp(k) THEN own[Local(e, y)]
                                ELSE IF u = Field(c, 1) THEN own[Temp(k)] ELSE own[u]
  BY <1>1, <1>3, <1>4, <1>5
<1> QED
  BY <1>6, SlotFamilies, SameSlot, OtherSlot DEF GlobsKept

(* scope.insert.                                                           *)
LEMMA Inserted ==
  ASSUME own \in [Slot -> Value], NEW k \in 1 .. MaxTemp, NEW c \in Block, 1 \in 1 .. Width,
         NEW e \in 1 .. MaxDepth, NEW y \in LocalName, own[Field(c, 1)] = Nil,
         own' = Put(Exchange(own, Temp(k), Field(c, 1)), Local(e, y), c)
  PROVE  /\ GlobsKept
         /\ \A d \in 1 .. MaxDepth, x \in LocalName :
              own'[Local(d, x)] = IF d = e /\ x = y THEN c ELSE own[Local(d, x)]
         /\ \A b \in Block, i \in 1 .. Width :
              own'[Field(b, i)] = IF b = c /\ i = 1 THEN own[Temp(k)] ELSE own[Field(b, i)]
         /\ \A i \in 1 .. MaxTemp : own'[Temp(i)] = IF i = k THEN Nil ELSE own[Temp(i)]
<1>1. /\ Field(c, 1) \in Slot /\ Temp(k) \in Slot /\ Local(e, y) \in Slot
      /\ Field(c, 1) # Temp(k) /\ Field(c, 1) # Local(e, y) /\ Temp(k) # Local(e, y)
  BY SlotFamilies, OtherSlot
<1>2. PICK f : f = Exchange(own, Temp(k), Field(c, 1))
  OBVIOUS
<1>3. /\ f \in [Slot -> Value]
      /\ \A u \in Slot : f[u] = IF u = Field(c, 1) THEN own[Temp(k)]
                                ELSE IF u = Temp(k) THEN Nil ELSE own[u]
  BY <1>1, <1>2, ExchangeAt
<1>4. \A u \in Slot : own'[u] = IF u = Local(e, y) THEN c ELSE f[u]
  BY <1>1, <1>2, <1>3 DEF Put
<1> QED
  BY <1>1, <1>3, <1>4, SlotFamilies, SameSlot, OtherSlot DEF GlobsKept

(***************************************************************************)
(* The control state.                                                      *)
(***************************************************************************)

(* Editing the step a definition or an entry is at.                        *)
LEMMA TodoEdits ==
  ASSUME todo = Do(op, todo.code, todo.env, todo.n)
  PROVE  /\ \A o : [todo EXCEPT !.op = o] = Do(o, todo.code, todo.env, todo.n)
         /\ \A o, m : [todo EXCEPT !.op = o, !.n = m] = Do(o, todo.code, todo.env, m)
         /\ [Idle EXCEPT !.op = "return"] = Do("return", NoCode, Nil, 0)
<1>1. PICK a, c, e, n : a = op /\ c = todo.code /\ e = todo.env /\ n = todo.n
  OBVIOUS
<1>2. todo = [op |-> a, code |-> c, env |-> e, n |-> n]
  BY <1>1 DEF Do
<1>3. ASSUME NEW o PROVE [todo EXCEPT !.op = o] = [op |-> o, code |-> c, env |-> e, n |-> n]
  BY <1>2
<1>4. ASSUME NEW o, NEW m
      PROVE  [todo EXCEPT !.op = o, !.n = m] = [op |-> o, code |-> c, env |-> e, n |-> m]
  <2>1. [todo EXCEPT !.op = o, !.n = m] = [[todo EXCEPT !.op = o] EXCEPT !.n = m]
    OBVIOUS
  <2>2. PICK r : r = [todo EXCEPT !.op = o]
    OBVIOUS
  <2>3. r = [op |-> o, code |-> c, env |-> e, n |-> n]
    BY <1>3, <2>2
  <2>4. [r EXCEPT !.n = m] = [op |-> o, code |-> c, env |-> e, n |-> m]
    BY <2>3
  <2> QED
    BY <2>1, <2>2, <2>4
<1>5. [Idle EXCEPT !.op = "return"] = Do("return", NoCode, Nil, 0)
  BY DEF Idle, Do
<1>6. \A o : [todo EXCEPT !.op = o] = Do(o, todo.code, todo.env, todo.n)
  BY <1>1, <1>3 DEF Do
<1>7. \A o, m : [todo EXCEPT !.op = o, !.n = m] = Do(o, todo.code, todo.env, m)
  BY <1>1, <1>4 DEF Do
<1> QED
  BY <1>5, <1>6, <1>7

\* Nothing of the control state changes.
ControlKept == UNCHANGED <<sp, calls, frames, todo, status, ran, prog>>

\* What the control state becomes, each part for itself.
ControlNext ==
  /\ sp' \in 0 .. MaxTemp
  /\ calls' \in Seq(1 .. MaxTemp)
  /\ frames' \in Seq(0 .. MaxTemp)
  /\ code' \in [Block -> Code]
  /\ op' \in Ops /\ todo'.code \in Code /\ todo'.env \in Value /\ todo'.n \in 0 .. Width
  /\ status' \in {"running", "ending", "ended", "aborted", "undefined"}
  /\ ran' \in 0 .. prog.statements
  /\ UNCHANGED prog
  /\ Stack' /\ Position' /\ Subject'

(* That is all of it.                                                      *)
LEMMA ControlIs ==
  ASSUME CInv, HeapInv', ControlNext, Final'
  PROVE  Control'
<1>1. Len(frames') <= MaxDepth
  <2>1. Len(frames') \in Nat /\ Len(calls') \in Nat
    BY DEF ControlNext
  <2>2. Len(frames') + Len(calls') <= prog.calls
    <3>1. Len(frames') + Len(calls') + (IF op' = "enter" THEN 1 ELSE 0) <= prog.calls
      BY DEF ControlNext, Stack
    <3>2. (IF op' = "enter" THEN 1 ELSE 0) \in 0 .. 1
      OBVIOUS
    <3> QED
      BY <2>1, <3>1, <3>2, Basics
  <2> QED
    BY <2>1, <2>2, Basics
<1>2. ClosTypeOK'
  BY <1>1 DEF ControlNext, ClosTypeOK, HeapInv, op, CInv, Control
<1> QED
  BY <1>2 DEF Control, ControlNext

(* The parts of the control state the proofs below read.                   *)
LEMMA ControlParts ==
  ASSUME CInv
  PROVE  /\ calls \in Seq(1 .. MaxTemp) /\ frames \in Seq(0 .. MaxTemp)
         /\ code \in [Block -> Code]
         /\ op \in Ops /\ todo.code \in Code /\ todo.env \in Value /\ todo.n \in 0 .. Width
         /\ status \in {"running", "ending", "ended", "aborted", "undefined"}
         /\ ran \in 0 .. prog.statements /\ prog.statements \in Nat
         /\ todo = Do(op, todo.code, todo.env, todo.n)
         /\ Stack /\ Position /\ Subject
<1>1. prog.statements \in Nat
  BY FnAssumption DEF CInv, Control, ClosTypeOK, FnAssumption, Program
<1> QED
  BY <1>1 DEF CInv, Control, ClosTypeOK, Subject, Knows, op

(* The operands of all callers are below those of the frame.               *)
LEMMA Callers ==
  ASSUME CInv
  PROVE  \A d \in 1 .. Len(frames) : frames[d] \in 0 .. MaxTemp /\ frames[d] <= Base
<1> SUFFICES ASSUME NEW d \in 1 .. Len(frames)
             PROVE  frames[d] \in 0 .. MaxTemp /\ frames[d] <= Base
  OBVIOUS
<1>1. frames \in Seq(0 .. MaxTemp) /\ Stack
  BY ControlParts
<1>2. frames # <<>> /\ Len(frames) \in Nat
  BY <1>1
<1>3. Base = frames[Len(frames)] /\ d <= Len(frames) /\ Len(frames) \in 1 .. Len(frames)
  BY <1>2, Heights
<1>4. frames[d] <= frames[Len(frames)]
  BY <1>1, <1>3 DEF Stack
<1>5. frames[d] \in 0 .. MaxTemp
  BY <1>1, ElementOfSeq
<1> QED
  BY <1>3, <1>4, <1>5

(* A step of the expression of a statement, or its end.                    *)
LEMMA OperandSteps ==
  ASSUME CInv, op = "none",
         \/ sp' = sp + 1 /\ sp < prog.temps
         \/ sp' = sp - 1 /\ sp = Base + 1 /\ Floor = Base,
         ran' = ran \/ Executed,
         UNCHANGED <<calls, frames, code, todo, status, prog>>
  PROVE  ControlNext
<1>1. /\ sp \in 0 .. MaxTemp /\ MaxTemp \in Nat /\ prog.temps \in 0 .. MaxTemp
      /\ Base \in 0 .. sp /\ Floor \in 0 .. sp
  BY Basics, Heights
<1>2. /\ calls \in Seq(1 .. MaxTemp) /\ frames \in Seq(0 .. MaxTemp) /\ Stack /\ Subject
      /\ ran \in 0 .. prog.statements /\ prog.statements \in Nat
  BY ControlParts
<1>3. /\ \A k \in 1 .. Len(calls) : calls[k] \in 1 .. MaxTemp /\ calls[k] <= Floor
      /\ \A d \in 1 .. Len(frames) : frames[d] \in 0 .. MaxTemp /\ frames[d] <= Base
  BY Heights, Callers
<1>4. sp' \in 0 .. MaxTemp /\ sp' >= Base /\ sp' >= Floor
  BY <1>1
<1>5. ran' \in 0 .. prog.statements
  BY <1>2 DEF Executed
<1>6. Stack'
  <2>1. \A k \in 1 .. Len(calls) : calls[k] <= sp'
    BY <1>1, <1>3, <1>4
  <2>2. \A d \in 1 .. Len(frames) : frames[d] <= sp'
    BY <1>1, <1>3, <1>4
  <2> QED
    BY <1>2, <2>1, <2>2 DEF Stack, op
<1>7. Position' /\ Subject'
  BY <1>2 DEF Position, Place, Subject, Knows, op, Entry, Do
<1> QED
  BY <1>4, <1>5, <1>6, <1>7, ControlParts DEF ControlNext, op

(* A step within a frame, about a definition or an entry.                  *)
LEMMA FrameStep ==
  ASSUME CInv, NEW o \in Ops \ {"enter"}, NEW c \in Code, NEW e \in Value, NEW m \in 0 .. Width,
         todo' = Do(o, c, e, m), Place(o, c, sp'), Knows(o, c, m),
         \A k \in 1 .. Len(calls) : calls[k] <= Base,
         sp' \in Base .. MaxTemp,
         code' \in [Block -> Code], ran' = ran \/ Executed,
         UNCHANGED <<calls, frames, status, prog>>
  PROVE  ControlNext
<1>1. /\ calls \in Seq(1 .. MaxTemp) /\ frames \in Seq(0 .. MaxTemp) /\ Stack
      /\ ran \in 0 .. prog.statements /\ prog.statements \in Nat
      /\ status \in {"running", "ending", "ended", "aborted", "undefined"}
  BY ControlParts
<1>2. Base \in 0 .. sp /\ sp \in 0 .. MaxTemp /\ MaxTemp \in Nat
  BY Basics, Heights
<1>3. sp' \in 0 .. MaxTemp /\ sp' >= Base
  BY <1>2
<1>4. op' = o /\ todo'.code = c /\ todo'.env = e /\ todo'.n = m
  BY DEF Do, op
<1>5. ran' \in 0 .. prog.statements
  BY <1>1 DEF Executed
<1>6. Stack'
  <2>1. \A k \in 1 .. Len(calls) : calls[k] \in 1 .. MaxTemp /\ calls[k] <= sp'
    BY <1>1, <1>2, <1>3, ElementOfSeq
  <2>2. \A d \in 1 .. Len(frames) : frames[d] <= sp'
    BY <1>2, <1>3, Callers
  <2>3. Len(frames) + Len(calls) <= prog.calls
    <3>1. Len(frames) + Len(calls) + (IF op = "enter" THEN 1 ELSE 0) <= prog.calls
      BY <1>1 DEF Stack
    <3>2. Len(frames) \in Nat /\ Len(calls) \in Nat /\ prog.calls \in Nat
      BY <1>1, Basics
    <3> QED
      BY <3>1, <3>2
  <2>4. op' # "enter" /\ Len(frames) \in Nat /\ Len(calls) \in Nat
    BY <1>1, <1>4
  <2> QED
    BY <1>1, <2>1, <2>2, <2>3, <2>4 DEF Stack
<1>7. Position'
  BY <1>4 DEF Position, Place, Base, depth, Arity
<1>8. Subject'
  BY <1>4 DEF Subject, Knows
<1> QED
  BY <1>1, <1>3, <1>4, <1>5, <1>6, <1>7, <1>8 DEF ControlNext

(* With no operand of its own in use, a frame has no open call.            *)
LEMMA NoOpenCall ==
  ASSUME CInv, Floor = Base \/ sp = Base \/ op \notin {"none", "enter"}
  PROVE  \A k \in 1 .. Len(calls) : calls[k] <= Base
<1>1. Base \in 0 .. sp /\ Floor \in 0 .. sp /\ sp \in 0 .. MaxTemp /\ MaxTemp \in Nat
      /\ \A k \in 1 .. Len(calls) : calls[k] \in 1 .. MaxTemp /\ calls[k] <= Floor
  BY Basics, Heights
<1>2. op \notin {"none", "enter"} => \A k \in 1 .. Len(calls) : calls[k] <= Base
  BY ControlParts DEF Position, Place
<1>3. CASE op \notin {"none", "enter"}
  BY <1>2, <1>3
<1>4. CASE Floor <= Base
  BY <1>1, <1>4
<1> QED
  BY <1>1, <1>3, <1>4

\* The steps of Stmt::Fn.
Defining ==
  \/ \E f \in Fn, q \in CaptureList : Define(f, q)
  \/ \E e \in Block : MakeEnv(e)
  \/ CaptureNext
  \/ \E c \in Block : MakeClosure(c) \/ BindFn(c)

(* They keep their operands in place.                                      *)
LEMMA DefiningSteps ==
  ASSUME CInv, Defining
  PROVE  ControlNext
<1>0. /\ Base \in 0 .. sp /\ sp \in 0 .. MaxTemp /\ MaxTemp \in Nat /\ Width \in Nat
      /\ prog.temps \in 0 .. MaxTemp /\ Nil \in Value /\ 0 \in 0 .. Width
  BY Basics, Heights
<1>1. /\ todo = Do(op, todo.code, todo.env, todo.n) /\ Place(op, todo.code, sp)
      /\ Knows(op, todo.code, todo.n)
      /\ todo.code \in Code /\ todo.env \in Value /\ todo.n \in 0 .. Width
      /\ code \in [Block -> Code]
  BY ControlParts DEF Position, Subject
<1>2. \A o : [todo EXCEPT !.op = o] = Do(o, todo.code, todo.env, todo.n)
  BY <1>1, TodoEdits
<1>3. ASSUME NEW f \in Fn, NEW q \in CaptureList, Define(f, q)
      PROVE  ControlNext
  <2>1. PICK o, c : /\ o = (IF q = <<>> THEN "closure" ELSE "env")
                    /\ c = [fn |-> f, caps |-> q]
    OBVIOUS
  <2>2. /\ todo' = Do(o, c, Nil, 0) /\ sp = Base /\ op = "none"
        /\ Executed /\ UNCHANGED <<sp, calls, frames, code, status, prog>>
    BY <1>3, <2>1 DEF Define, AtStatement, Ready, Doing, op
  <2>3. q \in Seq(Name)
    BY DEF CaptureList
  <2>4. c \in Code /\ o \in Ops \ {"enter"}
    BY <2>1, <2>3 DEF Code, Ops
  <2>5. \A k \in 1 .. Len(calls) : calls[k] <= Base
    BY <2>2, NoOpenCall
  <2>6. Place(o, c, sp') /\ Knows(o, c, 0)
    BY <1>0, <2>1, <2>2, <2>5 DEF Place, Knows, Entry
  <2>7. sp' \in Base .. MaxTemp /\ code' \in [Block -> Code]
    BY <1>0, <1>1, <2>2
  <2> QED
    BY <1>0, <2>2, <2>4, <2>5, <2>6, <2>7, FrameStep
<1>4. ASSUME NEW e \in Block, MakeEnv(e)
      PROVE  ControlNext
  <2>1. /\ op = "env" /\ sp < prog.temps /\ sp' = sp + 1
        /\ todo' = Do("capture", todo.code, todo.env, todo.n)
        /\ UNCHANGED <<calls, frames, code, status, ran, prog>>
    BY <1>2, <1>4 DEF MakeEnv, Doing, op
  <2>2. \A k \in 1 .. Len(calls) : calls[k] <= Base
    BY <2>1, NoOpenCall
  <2>3. Place("capture", todo.code, sp') /\ Knows("capture", todo.code, todo.n)
    BY <1>0, <1>1, <2>1, <2>2 DEF Place, Knows, Entry
  <2>4. sp' \in Base .. MaxTemp /\ code' \in [Block -> Code] /\ "capture" \in Ops \ {"enter"}
    BY <1>0, <1>1, <2>1 DEF Ops
  <2> QED
    BY <1>1, <2>1, <2>2, <2>3, <2>4, FrameStep
<1>5. CASE CaptureNext
  <2>1. PICK o \in {"closure", "capture"} : todo' = [todo EXCEPT !.op = o]
    BY <1>5 DEF CaptureNext
  <2>2. /\ op = "capture" /\ todo' = Do(o, todo.code, todo.env, todo.n)
        /\ UNCHANGED <<sp, calls, frames, code, status, ran, prog>>
    BY <1>2, <1>5, <2>1 DEF CaptureNext, Doing, op
  <2>3. \A k \in 1 .. Len(calls) : calls[k] <= Base
    BY <2>2, NoOpenCall
  <2>4. Place(o, todo.code, sp') /\ Knows(o, todo.code, todo.n)
    BY <1>0, <1>1, <2>2, <2>3 DEF Place, Knows, Entry
  <2>5. sp' \in Base .. MaxTemp /\ code' \in [Block -> Code] /\ o \in Ops \ {"enter"}
    BY <1>0, <1>1, <2>2 DEF Ops
  <2> QED
    BY <1>1, <2>2, <2>3, <2>4, <2>5, FrameStep
<1>6. ASSUME NEW c \in Block, MakeClosure(c)
      PROVE  ControlNext
  <2>1. /\ op = "closure" /\ todo' = Do("bind", todo.code, todo.env, todo.n)
        /\ code' = [code EXCEPT ![c] = todo.code]
        /\ UNCHANGED <<calls, frames, status, ran, prog>>
    BY <1>2, <1>6 DEF MakeClosure, Doing, op
  <2>2. \A k \in 1 .. Len(calls) : calls[k] <= Base
    BY <2>1, NoOpenCall
  <2>3. sp' = Base + 1 /\ sp' <= MaxTemp
    <3>1. CASE todo.code.caps = <<>>
      <4>1. sp' = sp + 1 /\ sp < prog.temps
        BY <1>6, <3>1 DEF MakeClosure
      <4>2. sp = Base
        BY <1>0, <1>1, <2>1, <3>1 DEF Place
      <4> QED
        BY <1>0, <4>1, <4>2
    <3>2. CASE todo.code.caps # <<>>
      <4>1. sp' = sp
        BY <1>6, <3>2 DEF MakeClosure
      <4>2. sp = Base + 1
        BY <1>0, <1>1, <2>1, <3>2 DEF Place
      <4> QED
        BY <1>0, <4>1, <4>2
    <3> QED
      BY <3>1, <3>2
  <2>4. Place("bind", todo.code, sp') /\ Knows("bind", todo.code, todo.n)
    BY <1>0, <1>1, <2>1, <2>2, <2>3 DEF Place, Knows, Entry
  <2>5. sp' \in Base .. MaxTemp /\ code' \in [Block -> Code] /\ "bind" \in Ops \ {"enter"}
    BY <1>0, <1>1, <2>1, <2>3 DEF Ops
  <2> QED
    BY <1>1, <2>1, <2>2, <2>4, <2>5, FrameStep
<1>7. ASSUME NEW c \in Block, BindFn(c)
      PROVE  ControlNext
  <2>1. /\ op = "bind" /\ todo' = Do("none", NoCode, Nil, 0) /\ sp' = sp - 1
        /\ UNCHANGED <<calls, frames, code, status, ran, prog>>
    BY <1>7 DEF BindFn, Doing, op, Idle
  <2>2. \A k \in 1 .. Len(calls) : calls[k] <= Base
    BY <2>1, NoOpenCall
  <2>3. Place("none", NoCode, sp') /\ Knows("none", NoCode, 0)
    BY DEF Place, Knows, Entry
  <2>4. sp = Base + 1
    BY <1>1, <2>1 DEF Place
  <2>5. sp' \in Base .. MaxTemp /\ code' \in [Block -> Code] /\ "none" \in Ops \ {"enter"}
    BY <1>0, <1>1, <2>1, <2>4 DEF Ops
  <2>6. NoCode \in Code
    BY DEF NoCode, Code
  <2> QED
    BY <1>0, <2>1, <2>2, <2>3, <2>5, <2>6, FrameStep
<1> QED
  BY <1>3, <1>4, <1>5, <1>6, <1>7 DEF Defining

(* What a body binds next.                                                 *)
LEMMA NextEntryIs ==
  ASSUME CInv, op \in Entry, NEW n \in Nat, n <= Len(todo.code.caps),
         NEW h \in Int, h = Base + Arity(todo.code.fn)
  PROVE  \E o \in {"load", "param", "none"}, c \in Code, e \in Value, m \in 0 .. Width :
           /\ NextEntry(n) = Do(o, c, e, m)
           /\ Place(o, c, h)
           /\ Knows(o, c, m)
           /\ CodeOK(c)
           /\ o = "load" => n < Len(todo.code.caps) /\ c = todo.code /\ e = todo.env /\ m = n
           /\ o = "param" => n = Len(todo.code.caps) /\ c = todo.code
<1>0. /\ todo = Do(op, todo.code, todo.env, todo.n) /\ Knows(op, todo.code, todo.n)
      /\ todo.code \in Code /\ todo.env \in Value /\ todo.n \in 0 .. Width
      /\ Width \in Nat /\ Base \in 0 .. sp /\ sp \in 0 .. MaxTemp /\ MaxTemp \in Nat
      /\ 0 \in 0 .. Width /\ Nil \in Value
  BY ControlParts, Heights, Basics DEF Subject
<1>1. /\ Arity(todo.code.fn) \in {0, 1} /\ todo.code.caps \in Seq(Name) /\ frames # <<>>
      /\ todo.code.fn \in Fn
  BY <1>0, SubjectIs DEF Knows
<1>2. Len(todo.code.caps) \in Nat /\ Len(todo.code.caps) <= Width /\ CodeOK(todo.code)
  BY <1>1 DEF CInv, Codes, CodeOK
<1>3. \A k \in 1 .. Len(calls) : calls[k] <= Base
  BY NoOpenCall DEF Entry
<1>4. CASE n < Len(todo.code.caps)
  <2>1. NextEntry(n) = Do("load", todo.code, todo.env, n)
    BY <1>0, <1>4, TodoEdits DEF NextEntry
  <2>2. n \in 0 .. Width
    BY <1>0, <1>2, <1>4
  <2>3. Place("load", todo.code, h) /\ Knows("load", todo.code, n)
    BY <1>1, <1>3, <1>4 DEF Place, Knows, Entry
  <2> QED
    BY <1>0, <1>2, <1>4, <2>1, <2>2, <2>3
<1>5. CASE ~(n < Len(todo.code.caps)) /\ Arity(todo.code.fn) = 0
  <2>1. NextEntry(n) = Do("none", NoCode, Nil, 0)
    BY <1>5 DEF NextEntry, Idle
  <2>2. Place("none", NoCode, h) /\ Knows("none", NoCode, 0)
    BY DEF Place, Knows, Entry
  <2>3. NoCode \in Code /\ CodeOK(NoCode)
    <3>1. NoCode \in Code /\ NoCode.caps = <<>>
      BY DEF NoCode, Code
    <3>2. Len(<<>>) = 0 /\ \A i \in 1 .. 0 : FALSE
      OBVIOUS
    <3> QED
      BY <1>0, <3>1, <3>2 DEF CodeOK
  <2> QED
    BY <1>0, <2>1, <2>2, <2>3
<1>6. CASE ~(n < Len(todo.code.caps)) /\ Arity(todo.code.fn) # 0
  <2>1. NextEntry(n) = Do("param", todo.code, todo.env, 0)
    BY <1>0, <1>6, TodoEdits DEF NextEntry
  <2>2. Place("param", todo.code, h) /\ Knows("param", todo.code, 0)
    BY <1>0, <1>1, <1>3, <1>6 DEF Place, Knows, Entry
  <2>3. n = Len(todo.code.caps)
    BY <1>2, <1>6
  <2> QED
    BY <1>0, <1>2, <2>1, <2>2, <2>3
<1> QED
  BY <1>4, <1>5, <1>6

\* The steps of a body before its first statement.
Entering ==
  \/ \E c \in Block : SelfClosure(c) \/ BindSelf(c) \/ BindCapture(c) \/ BindParam(c)
  \/ LoadCapture

(* They find the captures and the parameter where the call left them.      *)
LEMMA EnteringSteps ==
  ASSUME CInv, Entering
  PROVE  ControlNext
<1>0. /\ Base \in 0 .. sp /\ sp \in 0 .. MaxTemp /\ MaxTemp \in Nat /\ Width \in Nat
      /\ prog.temps \in 0 .. MaxTemp /\ Nil \in Value /\ 0 \in 0 .. Width
  BY Basics, Heights
<1>1. /\ todo = Do(op, todo.code, todo.env, todo.n) /\ Place(op, todo.code, sp)
      /\ Knows(op, todo.code, todo.n)
      /\ todo.code \in Code /\ todo.env \in Value /\ todo.n \in 0 .. Width
      /\ code \in [Block -> Code]
  BY ControlParts DEF Position, Subject
<1>2. \A o : [todo EXCEPT !.op = o] = Do(o, todo.code, todo.env, todo.n)
  BY <1>1, TodoEdits
<1>3. op \in Entry => Arity(todo.code.fn) \in {0, 1} /\ todo.code.caps \in Seq(Name) /\ frames # <<>>
  BY <1>1, SubjectIs DEF Knows
<1>4. op \in Entry => \A k \in 1 .. Len(calls) : calls[k] <= Base
  BY NoOpenCall DEF Entry
<1>5. ASSUME NEW c \in Block, SelfClosure(c)
      PROVE  ControlNext
  <2>1. /\ op = "self" /\ op \in Entry /\ sp < prog.temps /\ sp' = sp + 1
        /\ todo' = Do("bindself", todo.code, todo.env, todo.n)
        /\ code' = [code EXCEPT ![c] = todo.code]
        /\ UNCHANGED <<calls, frames, status, ran, prog>>
    BY <1>2, <1>5 DEF SelfClosure, Doing, op, Entry
  <2>2. Place("bindself", todo.code, sp') /\ Knows("bindself", todo.code, todo.n)
    BY <1>0, <1>1, <1>3, <1>4, <2>1 DEF Place, Knows, Entry
  <2>3. sp' \in Base .. MaxTemp /\ code' \in [Block -> Code] /\ "bindself" \in Ops \ {"enter"}
    BY <1>0, <1>1, <2>1 DEF Ops
  <2> QED
    BY <1>1, <1>4, <2>1, <2>2, <2>3, FrameStep
<1>6. CASE LoadCapture
  <2>1. /\ op = "load" /\ op \in Entry /\ sp < prog.temps /\ sp' = sp + 1
        /\ todo' = Do("bindload", todo.code, todo.env, todo.n)
        /\ UNCHANGED <<calls, frames, code, status, ran, prog>>
    BY <1>2, <1>6 DEF LoadCapture, Push, Doing, op, Entry
  <2>2. Place("bindload", todo.code, sp') /\ Knows("bindload", todo.code, todo.n)
    BY <1>0, <1>1, <1>3, <1>4, <2>1 DEF Place, Knows, Entry
  <2>3. sp' \in Base .. MaxTemp /\ code' \in [Block -> Code] /\ "bindload" \in Ops \ {"enter"}
    BY <1>0, <1>1, <2>1 DEF Ops
  <2> QED
    BY <1>1, <1>4, <2>1, <2>2, <2>3, FrameStep
<1>7. ASSUME NEW c \in Block, BindSelf(c) \/ BindCapture(c)
      PROVE  ControlNext
  <2>1. PICK n \in Nat : /\ n <= Len(todo.code.caps) /\ todo' = NextEntry(n)
                         /\ op \in {"bindself", "bindload"}
    <3>1. CASE BindSelf(c)
      <4>1. todo' = NextEntry(0) /\ op = "bindself"
        BY <3>1 DEF BindSelf, Doing, op
      <4>2. 0 <= Len(todo.code.caps) /\ 0 \in Nat
        BY <1>3, <4>1 DEF Entry
      <4> QED
        BY <4>1, <4>2
    <3>2. CASE BindCapture(c)
      <4>1. todo' = NextEntry(todo.n + 1) /\ op = "bindload"
        BY <3>2 DEF BindCapture, Doing, op
      <4>2. todo.n + 1 <= Len(todo.code.caps) /\ todo.n + 1 \in Nat
        BY <1>0, <1>1, <1>3, <4>1 DEF Entry, Knows
      <4> QED
        BY <4>1, <4>2
    <3> QED
      BY <1>7, <3>1, <3>2
  <2>2. op \in Entry
    BY <2>1 DEF Entry
  <2>3. sp' = sp - 1 /\ UNCHANGED <<calls, frames, code, status, ran, prog>>
    BY <1>7 DEF BindSelf, BindCapture, Insert
  <2>4. sp = Base + Arity(todo.code.fn) + 1
    BY <1>1, <2>1 DEF Place
  <2>5. sp' = Base + Arity(todo.code.fn) /\ sp' \in Base .. MaxTemp /\ sp' \in Int
    BY <1>0, <1>3, <2>2, <2>3, <2>4
  <2>6. PICK o \in {"load", "param", "none"}, d \in Code, e \in Value, m \in 0 .. Width :
          NextEntry(n) = Do(o, d, e, m) /\ Place(o, d, sp') /\ Knows(o, d, m)
    BY <2>1, <2>2, <2>5, NextEntryIs
  <2>7. o \in Ops \ {"enter"} /\ code' \in [Block -> Code]
    BY <1>1, <2>3 DEF Ops
  <2> QED
    BY <1>4, <2>1, <2>2, <2>3, <2>5, <2>6, <2>7, FrameStep
<1>8. ASSUME NEW c \in Block, BindParam(c)
      PROVE  ControlNext
  <2>1. /\ op = "param" /\ op \in Entry /\ todo' = Do("none", NoCode, Nil, 0) /\ sp' = sp - 1
        /\ UNCHANGED <<calls, frames, code, status, ran, prog>>
    BY <1>8 DEF BindParam, Doing, op, Idle, Insert, Entry
  <2>2. Place("none", NoCode, sp') /\ Knows("none", NoCode, 0)
    BY DEF Place, Knows, Entry
  <2>3. sp = Base + 1
    BY <1>1, <2>1 DEF Place
  <2>4. sp' \in Base .. MaxTemp /\ code' \in [Block -> Code] /\ "none" \in Ops \ {"enter"}
        /\ NoCode \in Code
    BY <1>0, <1>1, <2>1, <2>3 DEF Ops, NoCode, Code
  <2> QED
    BY <1>0, <1>4, <2>1, <2>2, <2>4, FrameStep
<1> QED
  BY <1>5, <1>6, <1>7, <1>8 DEF Entering

(* Return and the end of a body: one result above what the caller has.     *)
LEMMA ReturnSteps ==
  ASSUME CInv, Return \/ FallThrough
  PROVE  ControlNext
<1>0. /\ Base \in 0 .. sp /\ sp \in 0 .. MaxTemp /\ MaxTemp \in Nat
      /\ prog.temps \in 0 .. MaxTemp /\ Nil \in Value /\ 0 \in 0 .. Width
      /\ code \in [Block -> Code] /\ frames \in Seq(0 .. MaxTemp)
      /\ NoCode \in Code /\ "return" \in Ops \ {"enter"}
  BY Basics, Heights, ControlParts DEF NoCode, Code, Ops
<1>1. todo' = Do("return", NoCode, Nil, 0)
  BY TodoEdits, ControlParts DEF Return, FallThrough
<1>2. /\ frames # <<>>
      /\ UNCHANGED <<calls, frames, code, status, prog>> /\ (ran' = ran \/ Executed)
      /\ Floor = Base \/ sp = Base
      /\ sp' = Base + 1 /\ sp' <= MaxTemp
  <2>1. depth > 0 => frames # <<>>
    BY <1>0 DEF depth
  <2>2. CASE Return
    BY <1>0, <2>1, <2>2 DEF Return, Evaluated
  <2>3. CASE FallThrough
    BY <1>0, <2>1, <2>3 DEF FallThrough, AtStatement
  <2> QED
    BY <2>2, <2>3
<1>3. \A k \in 1 .. Len(calls) : calls[k] <= Base
  BY <1>2, NoOpenCall
<1>4. Place("return", NoCode, sp') /\ Knows("return", NoCode, 0)
  BY <1>2, <1>3 DEF Place, Knows, Entry
<1>5. sp' \in Base .. MaxTemp /\ code' \in [Block -> Code]
  BY <1>0, <1>2
<1> QED
  BY <1>0, <1>1, <1>2, <1>3, <1>4, <1>5, FrameStep

(* The control state stays, but for the code of blocks and the status.     *)
LEMMA StayStep ==
  ASSUME CInv, UNCHANGED <<sp, calls, frames, todo, ran, prog>>,
         code' \in [Block -> Code],
         status' \in {"running", "ending", "ended", "aborted", "undefined"}
  PROVE  ControlNext
<1>1. Stack' /\ Position' /\ Subject'
  BY ControlParts
     DEF Stack, Position, Place, Subject, Knows, op, Base, depth, Arity, Entry
<1> QED
  BY <1>1, ControlParts, Basics DEF ControlNext, op

(* A call is opened on the operand at h.                                   *)
LEMMA OpenStep ==
  ASSUME CInv, op = "none", NEW h \in 1 .. MaxTemp, h > Floor, h <= sp',
         sp' \in sp .. MaxTemp, Len(frames) + Len(calls) < prog.calls,
         calls' = Append(calls, h),
         UNCHANGED <<frames, code, todo, status, ran, prog>>
  PROVE  ControlNext
<1>1. /\ calls \in Seq(1 .. MaxTemp) /\ frames \in Seq(0 .. MaxTemp) /\ Stack /\ Subject
      /\ Len(frames) \in Nat /\ Len(calls) \in Nat /\ prog.calls \in Nat
  BY ControlParts, Basics
<1>2. /\ sp \in 0 .. MaxTemp /\ MaxTemp \in Nat /\ Base \in 0 .. sp /\ Floor \in 0 .. sp
      /\ \A k \in 1 .. Len(calls) : calls[k] \in 1 .. MaxTemp /\ calls[k] <= Floor
      /\ \A d \in 1 .. Len(frames) : frames[d] \in 0 .. MaxTemp /\ frames[d] <= Base
  BY Basics, Heights, Callers
<1>3. /\ calls' \in Seq(1 .. MaxTemp) /\ Len(calls') = Len(calls) + 1
      /\ \A k \in 1 .. Len(calls) : calls'[k] = calls[k]
      /\ calls'[Len(calls) + 1] = h
  BY <1>1
<1>4. \A k \in 1 .. Len(calls') : k \in 1 .. Len(calls) \/ k = Len(calls) + 1
  BY <1>1, <1>3
<1>5. Stack'
  <2>1. \A k \in 1 .. Len(calls') : calls'[k] <= sp'
    BY <1>2, <1>3, <1>4
  <2>2. \A j, k \in 1 .. Len(calls') : j < k => calls'[j] < calls'[k]
    <3> SUFFICES ASSUME NEW j \in 1 .. Len(calls'), NEW k \in 1 .. Len(calls'), j < k
                 PROVE  calls'[j] < calls'[k]
      OBVIOUS
    <3>1. j \in 1 .. Len(calls)
      BY <1>1, <1>3
    <3>2. CASE k \in 1 .. Len(calls)
      BY <1>1, <1>3, <3>1, <3>2 DEF Stack
    <3>3. CASE k = Len(calls) + 1
      BY <1>2, <1>3, <3>1, <3>3
    <3> QED
      BY <1>4, <3>2, <3>3
  <2>3. \A d \in 1 .. Len(frames) : frames[d] <= sp'
    BY <1>2
  <2>4. op' = "none" /\ Len(frames) + Len(calls') <= prog.calls
    BY <1>1, <1>3 DEF op
  <2> QED
    BY <1>1, <1>3, <2>1, <2>2, <2>3, <2>4 DEF Stack
<1>6. Position' /\ Subject'
  BY <1>1 DEF Position, Place, Subject, Knows, op, Entry, Do
<1>7. sp' \in 0 .. MaxTemp
  BY <1>2
<1> QED
  BY <1>3, <1>5, <1>6, <1>7, ControlParts DEF ControlNext, op

(* The callee of the innermost open call is a live closure.                *)
LEMMA CalleeIs ==
  ASSUME CInv, InCall
  PROVE  /\ Floor = calls[Len(calls)] /\ Floor > Base /\ Floor \in 1 .. MaxTemp
         /\ Len(calls) \in 1 .. Len(calls)
         /\ Callee \in Block /\ kind[Callee] = "clos" /\ rc[Callee] >= 1
         /\ code[Callee] \in Code /\ code[Callee].fn \in Fn
         /\ code[Callee].caps # <<>> => own[Field(Callee, 1)] # Nil
         /\ Field(Callee, 1) \in Slot /\ own[Field(Callee, 1)] \in Value
         /\ CodeOK(code[Callee])
         /\ own[Field(Callee, 1)] # Nil => kind[own[Field(Callee, 1)]] = "env"
<1>1. calls # <<>> /\ calls[Len(calls)] > Base /\ Len(calls) \in 1 .. Len(calls)
  BY Heights DEF InCall
<1>2. /\ calls[Len(calls)] \in 1 .. MaxTemp /\ Base \in 0 .. sp /\ sp \in 0 .. MaxTemp
      /\ MaxTemp \in Nat
  BY <1>1, Heights, Basics
<1>3. Floor = calls[Len(calls)]
  <2>1. Floor = Base \/ Floor = calls[Len(calls)]
    BY <1>1, Heights
  <2>2. Floor >= calls[Len(calls)]
    BY <1>1, Heights
  <2> QED
    BY <1>1, <1>2, <2>1, <2>2
<1>4. PICK b : b = Callee
  OBVIOUS
<1>5. IsKind(b, "clos")
  BY <1>1, <1>3, <1>4 DEF CInv, HasEnv, CalleesAre, Callee
<1>6. b \in Block /\ kind[b] = "clos"
  BY <1>5 DEF IsKind
<1>7. rc[b] >= 1 /\ rc[b] # 0
  <2>1. Temp(Floor) \in Slot /\ own[Temp(Floor)] = b
    BY <1>2, <1>3, <1>4, SlotFamilies DEF Callee
  <2>2. rc[b] >= 1
    BY <1>6, <2>1, OwnedIsLive DEF CInv
  <2> QED
    BY <1>6, <2>2, Basics
<1>8. /\ code[b].fn \in Fn /\ (code[b].caps # <<>> => own[Field(b, 1)] # Nil)
      /\ CodeOK(code[b]) /\ code[b] \in Code
  BY <1>6, <1>7, ControlParts DEF CInv, HasEnv, ClosuresWhole, Codes
<1>9. Field(b, 1) \in Slot /\ own[Field(b, 1)] \in Value /\ 1 \in 1 .. Width
  BY <1>6, Basics, SlotFamilies
<1>10. own[Field(b, 1)] # Nil => kind[own[Field(b, 1)]] = "env"
  BY <1>6, <1>9 DEF CInv, FieldsTyped, IsKind
<1> QED
  BY <1>1, <1>2, <1>3, <1>4, <1>6, <1>7, <1>8, <1>9, <1>10

(* What is left of a stack without its top.                                *)
LEMMA Shorter ==
  ASSUME NEW S, NEW q \in Seq(S), q # <<>>
  PROVE  /\ SubSeq(q, 1, Len(q) - 1) \in Seq(S)
         /\ Len(SubSeq(q, 1, Len(q) - 1)) = Len(q) - 1
         /\ \A k \in 1 .. Len(q) - 1 : SubSeq(q, 1, Len(q) - 1)[k] = q[k] /\ k \in 1 .. Len(q)
         /\ Len(q) \in Nat \ {0}
<1>1. Len(q) \in Nat \ {0}
  BY EmptySeq
<1>2. PICK n : n = Len(q) - 1
  OBVIOUS
<1>3. n \in Nat /\ 1 \in Int /\ n \in Int
  BY <1>1, <1>2
<1>4. \A i \in 1 .. n : q[i] \in S /\ i \in 1 .. Len(q)
  BY <1>1, <1>2, ElementOfSeq
<1>5. PICK r : r = SubSeq(q, 1, n)
  OBVIOUS
<1>6. /\ r \in Seq(S)
      /\ Len(r) = IF 1 <= n THEN n - 1 + 1 ELSE 0
      /\ \A i \in 1 .. n - 1 + 1 : r[i] = q[1 + i - 1]
  BY <1>3, <1>4, <1>5, SubSeqProperties
<1>7. Len(r) = n /\ \A i \in 1 .. n : r[i] = q[i]
  BY <1>3, <1>6
<1> QED
  BY <1>1, <1>2, <1>4, <1>5, <1>6, <1>7

(* A call takes its callee and the operands above it.                      *)
LEMMA CallControl ==
  ASSUME CInv, Call
  PROVE  ControlNext
<1>1. /\ calls \in Seq(1 .. MaxTemp) /\ frames \in Seq(0 .. MaxTemp) /\ Stack
      /\ Len(frames) \in Nat /\ Len(calls) \in Nat /\ prog.calls \in Nat
      /\ 0 \in 0 .. Width
  BY ControlParts, Basics
<1>2. /\ sp \in 0 .. MaxTemp /\ MaxTemp \in Nat /\ Base \in 0 .. sp /\ Floor \in 0 .. sp
      /\ \A k \in 1 .. Len(calls) : calls[k] \in 1 .. MaxTemp
      /\ \A d \in 1 .. Len(frames) : frames[d] \in 0 .. MaxTemp /\ frames[d] <= Base
  BY Basics, Heights, Callers
<1>3. PICK c, e, n : c = code[Callee] /\ e = own[Field(Callee, 1)] /\ n = Len(calls)
  OBVIOUS
<1>4. /\ Floor = calls[n] /\ Floor > Base /\ n \in 1 .. Len(calls)
      /\ c \in Code /\ c.fn \in Fn /\ e \in Value
  BY <1>3, CalleeIs DEF Call
<1>5. /\ op = "none" /\ todo' = Do("enter", c, e, 0) /\ sp' = sp - 1
      /\ sp - Floor = Arity(c.fn)
      /\ calls' = SubSeq(calls, 1, n - 1)
      /\ UNCHANGED <<frames, code, status, ran, prog>>
  BY <1>3 DEF Call, Ready, Doing, op, InCall
<1>6. /\ calls' \in Seq(1 .. MaxTemp) /\ Len(calls') = n - 1
      /\ \A k \in 1 .. n - 1 : calls'[k] = calls[k]
  <2>1. calls # <<>>
    BY DEF Call, InCall
  <2> QED
    BY <1>1, <1>3, <1>5, <2>1, Shorter
<1>7. \A k \in 1 .. n - 1 : calls[k] < Floor /\ k \in 1 .. Len(calls)
  BY <1>1, <1>3, <1>4 DEF Stack
<1>8. Arity(c.fn) \in {0, 1}
  BY DEF Arity
<1>9. op' = "enter" /\ todo'.code = c /\ todo'.env = e /\ todo'.n = 0
  BY <1>5 DEF Do, op
<1>10. Stack'
  <2>1. \A k \in 1 .. Len(calls') : calls'[k] <= sp'
    BY <1>2, <1>5, <1>6, <1>7
  <2>2. \A j, k \in 1 .. Len(calls') : j < k => calls'[j] < calls'[k]
    BY <1>1, <1>6, <1>7 DEF Stack
  <2>3. \A d \in 1 .. Len(frames) : frames[d] <= sp'
    BY <1>2, <1>4, <1>5
  <2>4. Len(frames) + Len(calls') + 1 <= prog.calls
    <3>1. Len(frames) + Len(calls) + (IF op = "enter" THEN 1 ELSE 0) <= prog.calls
      BY <1>1 DEF Stack
    <3> QED
      BY <1>1, <1>3, <1>5, <1>6, <3>1
  <2> QED
    BY <1>1, <1>5, <1>9, <2>1, <2>2, <2>3, <2>4 DEF Stack
<1>11. Position'
  <2>1. Base' = Base /\ Arity(c.fn)' = Arity(c.fn)
    BY <1>5 DEF Base, depth, Arity
  <2>2. sp' - Arity(c.fn) >= Base
    BY <1>2, <1>4, <1>5, <1>8
  <2>3. \A k \in 1 .. Len(calls') : calls'[k] <= sp' - Arity(c.fn)
    BY <1>2, <1>5, <1>6, <1>7, <1>8
  <2> QED
    BY <1>9, <2>1, <2>2, <2>3 DEF Position, Place
<1>12. Subject'
  BY <1>4, <1>5, <1>9 DEF Subject, Knows, Entry
<1>13. sp' \in 0 .. MaxTemp
  BY <1>2, <1>4, <1>5
<1> QED
  BY <1>1, <1>4, <1>5, <1>6, <1>9, <1>10, <1>11, <1>12, <1>13, ControlParts DEF ControlNext, Ops

(* A body starts a frame above what its caller has.                        *)
LEMMA EnterControl ==
  ASSUME CInv, Enter
  PROVE  ControlNext
<1>1. /\ calls \in Seq(1 .. MaxTemp) /\ frames \in Seq(0 .. MaxTemp) /\ Stack
      /\ Len(frames) \in Nat /\ Len(calls) \in Nat /\ prog.calls \in Nat
      /\ code \in [Block -> Code]
      /\ todo.code \in Code /\ todo.env \in Value /\ todo.n \in 0 .. Width
      /\ todo = Do(op, todo.code, todo.env, todo.n) /\ Place(op, todo.code, sp)
      /\ Knows(op, todo.code, todo.n)
  BY ControlParts, Basics DEF Position, Subject
<1>2. /\ sp \in 0 .. MaxTemp /\ MaxTemp \in Nat /\ Base \in 0 .. sp
      /\ \A d \in 1 .. Len(frames) : frames[d] \in 0 .. MaxTemp /\ frames[d] <= Base
  BY Basics, Heights, Callers
<1>3. op = "enter" /\ UNCHANGED <<sp, calls, code, ran, prog>>
  BY DEF Enter, Doing, op
<1>4. CASE status' = "undefined" /\ UNCHANGED <<frames, todo>>
  BY <1>1, <1>3, <1>4, StayStep
<1>5. ASSUME /\ frames' = Append(frames, sp - Arity(todo.code.fn))
             /\ todo' = [todo EXCEPT !.op = "self"]
             /\ UNCHANGED status
      PROVE  ControlNext
  <2>1. PICK a, c, e, m : a = Arity(todo.code.fn) /\ c = todo.code /\ e = todo.env /\ m = todo.n
    OBVIOUS
  <2>2. /\ a \in {0, 1} /\ sp - a >= Base /\ \A k \in 1 .. Len(calls) : calls[k] <= sp - a
    BY <1>1, <1>3, <2>1 DEF Place, Arity
  <2>3. todo' = Do("self", c, e, m)
    BY <1>1, <1>5, <2>1, TodoEdits
  <2>4. op' = "self" /\ todo'.code = c /\ todo'.env = e /\ todo'.n = m
    BY <2>3 DEF Do, op
  <2>5. sp - a \in 0 .. MaxTemp
    BY <1>2, <2>2
  <2>6. /\ frames' \in Seq(0 .. MaxTemp) /\ Len(frames') = Len(frames) + 1
        /\ \A d \in 1 .. Len(frames) : frames'[d] = frames[d]
        /\ frames'[Len(frames) + 1] = sp - a /\ frames' # <<>>
    BY <1>1, <1>5, <2>1, <2>5
  <2>7. \A d \in 1 .. Len(frames') : d \in 1 .. Len(frames) \/ d = Len(frames) + 1
    BY <1>1, <2>6
  <2>8. Stack'
    <3>1. \A d \in 1 .. Len(frames') : frames'[d] <= sp
      <4>1. \A d \in 1 .. Len(frames) : frames'[d] <= sp
        <5>1. PICK low : low = Base
          OBVIOUS
        <5>2. low \in Nat /\ sp \in Nat /\ low <= sp
          BY <1>2, <5>1
        <5>3. TAKE d \in 1 .. Len(frames)
        <5>4. frames'[d] = frames[d]
          BY <2>6
        <5>5. frames[d] \in Nat /\ frames[d] <= low
          BY <1>2, <5>1
        <5> QED
          BY <5>2, <5>4, <5>5
      <4>2. frames'[Len(frames) + 1] <= sp
        BY <1>2, <2>2, <2>6
      <4> QED
        BY <2>7, <4>1, <4>2
    <3>2. \A d, x \in 1 .. Len(frames') : d <= x => frames'[d] <= frames'[x]
      <4> SUFFICES ASSUME NEW d \in 1 .. Len(frames'), NEW x \in 1 .. Len(frames'), d <= x
                   PROVE  frames'[d] <= frames'[x]
        OBVIOUS
      <4>1. CASE x \in 1 .. Len(frames)
        <5>1. d \in 1 .. Len(frames)
          BY <1>1, <2>6, <4>1
        <5> QED
          BY <1>1, <2>6, <4>1, <5>1 DEF Stack
      <4>2. CASE x = Len(frames) + 1
        <5>1. PICK top : top = sp - a
          OBVIOUS
        <5>a. frames'[x] = top /\ top \in Nat
          BY <2>5, <2>6, <4>2, <5>1
        <5>2. CASE d \in 1 .. Len(frames)
          <6>1. frames'[d] = frames[d]
            BY <2>6, <5>2
          <6>2. frames[d] \in Nat /\ frames[d] <= Base
            BY <1>2, <5>2
          <6>3. Base \in Nat /\ Base <= top
            BY <1>2, <2>2, <5>1
          <6> QED
            BY <5>a, <6>1, <6>2, <6>3
        <5>3. CASE d = Len(frames) + 1
          BY <4>2, <5>a, <5>3
        <5> QED
          BY <2>7, <5>2, <5>3
      <4> QED
        BY <2>7, <4>1, <4>2
    <3>3. Len(frames') + Len(calls) <= prog.calls
      <4>1. Len(frames) + Len(calls) + (IF op = "enter" THEN 1 ELSE 0) <= prog.calls
        BY <1>1 DEF Stack
      <4> QED
        BY <1>1, <1>3, <2>6, <4>1
    <3>4. \A k \in 1 .. Len(calls) : calls[k] <= sp
      BY <1>1 DEF Stack
    <3>5. Len(frames') \in Nat
      BY <1>1, <2>6
    <3> QED
      BY <1>1, <1>3, <2>4, <3>1, <3>2, <3>3, <3>4, <3>5 DEF Stack
  <2>9. Position'
    <3>1. Base' = sp - a
      BY <2>6 DEF Base, depth
    <3>2. sp = Base' + a
      BY <1>2, <2>2, <3>1
    <3>3. Arity(c.fn)' = a
      BY <1>3, <2>1 DEF Arity
    <3> QED
      BY <1>3, <2>2, <2>4, <3>1, <3>2, <3>3 DEF Position, Place
  <2>10. Subject'
    <3>1. c.fn \in Fn
      BY <1>1, <1>3, <2>1 DEF Knows
    <3> QED
      BY <2>3, <2>4, <2>6, <3>1 DEF Subject, Knows
  <2> QED
    BY <1>1, <1>3, <1>5, <2>1, <2>4, <2>6, <2>8, <2>9, <2>10, ControlParts, Basics DEF ControlNext, Ops
<1> QED
  BY <1>4, <1>5 DEF Enter
(* The end of a body: the caller's frame again.                            *)
LEMMA BackControl ==
  ASSUME CInv, BackInCaller
  PROVE  ControlNext
<1>1. /\ calls \in Seq(1 .. MaxTemp) /\ frames \in Seq(0 .. MaxTemp) /\ Stack
      /\ Len(frames) \in Nat /\ Len(calls) \in Nat /\ prog.calls \in Nat
      /\ Nil \in Value /\ 0 \in 0 .. Width /\ NoCode \in Code
  BY ControlParts, Basics DEF NoCode, Code
<1>2. /\ op = "return" /\ UNCHANGED <<sp, calls, code, status, ran, prog>>
      /\ todo' = Do("none", NoCode, Nil, 0)
      /\ frames' = SubSeq(frames, 1, Len(frames) - 1)
  BY DEF BackInCaller, Doing, op, Idle, depth
<1>3. frames # <<>>
  BY <1>2, ControlParts DEF Subject, Knows
<1>4. /\ frames' \in Seq(0 .. MaxTemp) /\ Len(frames') = Len(frames) - 1
      /\ \A k \in 1 .. Len(frames) - 1 : frames'[k] = frames[k] /\ k \in 1 .. Len(frames)
  BY <1>1, <1>2, <1>3, Shorter
<1>5. op' = "none" /\ todo'.code = NoCode /\ todo'.env = Nil /\ todo'.n = 0
  BY <1>2 DEF Do, op
<1>6. Stack'
  <2>1. Len(frames') + Len(calls) <= prog.calls
    <3>1. Len(frames) + Len(calls) + (IF op = "enter" THEN 1 ELSE 0) <= prog.calls
      BY <1>1 DEF Stack
    <3> QED
      BY <1>1, <1>2, <1>4, <3>1
  <2> QED
    BY <1>1, <1>2, <1>4, <1>5, <2>1 DEF Stack
<1>7. Position' /\ Subject'
  BY <1>2, <1>5 DEF Position, Place, Subject, Knows, Entry
<1> QED
  BY <1>1, <1>2, <1>4, <1>5, <1>6, <1>7, ControlParts, Basics DEF ControlNext, Ops

(* Every step keeps the operands, open calls and frames in order.          *)
LEMMA ControlSteps ==
  ASSUME CInv, [Next]_vars
  PROVE  ControlNext
<1>0. code \in [Block -> Code] /\ NoCode \in Code
      /\ status \in {"running", "ending", "ended", "aborted", "undefined"}
  BY ControlParts DEF NoCode, Code
<1>1. CASE UNCHANGED vars
  BY <1>0, <1>1, StayStep DEF vars
<1>2. CASE ReleaseOperand \/ ReleaseLocal \/ ReleaseGlobal
  BY <1>0, <1>2, StayStep DEF ReleaseOperand, ReleaseLocal, ReleaseGlobal
<1>3. CASE RunCascade
  <2>1. code' \in [Block -> Code]
    BY <1>0, <1>3 DEF RunCascade
  <2> QED
    BY <1>0, <1>3, <2>1, StayStep DEF RunCascade
<1>4. CASE Abort \/ EndProgram \/ Exit
  BY <1>0, <1>4, StayStep DEF Abort, EndProgram, Exit
<1>5. CASE PushConst \/ \E b \in Block : PushString(b)
  BY <1>5, OperandSteps DEF PushConst, PushString, Ready, Doing, op
<1>6. CASE \E x \in Name : LoadVar(x)
  BY <1>6, OperandSteps DEF LoadVar, Push, Ready, Doing, op
<1>7. CASE Discard \/ (\E x \in Name, c \in Block : Assign(x, c)) \/ (\E x \in Name : Reassign(x))
  BY <1>7, OperandSteps DEF Discard, Assign, Reassign, Evaluated, Ready, Doing, op
<1>8. CASE Defining
  BY <1>8, DefiningSteps
<1>9. ASSUME NEW x \in Name, OpenCall(x)
      PROVE  ControlNext
  <2>1. /\ op = "none" /\ sp' = sp + 1 /\ sp < prog.temps /\ calls' = Append(calls, sp + 1)
        /\ Len(frames) + Len(calls) < prog.calls
        /\ UNCHANGED <<frames, code, todo, status, ran, prog>>
    BY <1>9 DEF OpenCall, Push, Ready, Doing, op, depth
  <2>a. sp \in 0 .. MaxTemp /\ prog.temps \in 0 .. MaxTemp /\ MaxTemp \in Nat /\ Floor \in 0 .. sp
    BY Basics, Heights
  <2>2. sp + 1 \in 1 .. MaxTemp /\ sp + 1 > Floor /\ sp' \in sp .. MaxTemp /\ sp + 1 <= sp'
    BY <2>1, <2>a
  <2> QED
    BY <2>1, <2>2, OpenStep
<1>10. CASE OpenCallOnValue
  <2>1. /\ op = "none" /\ sp > Floor /\ calls' = Append(calls, sp)
        /\ Len(frames) + Len(calls) < prog.calls
        /\ UNCHANGED <<sp, frames, code, todo, status, ran, prog>>
    BY <1>10 DEF OpenCallOnValue, heap, Ready, Doing, op, depth
  <2>2. sp \in 1 .. MaxTemp /\ sp' \in sp .. MaxTemp /\ sp <= sp'
    BY <2>1, Basics, Heights
  <2> QED
    BY <2>1, <2>2, OpenStep
<1>11. CASE Call
  BY <1>11, CallControl
<1>12. CASE Enter
  BY <1>12, EnterControl
<1>13. CASE Entering
  BY <1>13, EnteringSteps
<1>14. CASE Return \/ FallThrough
  BY <1>14, ReturnSteps
<1>15. CASE BackInCaller
  BY <1>15, BackControl
<1> QED
  BY <1>1, <1>2, <1>3, <1>4, <1>5, <1>6, <1>7, <1>8, <1>9, <1>10, <1>11, <1>12, <1>13, <1>14,
     <1>15 DEF Next, Defining, Entering

(* A running program does not end but by the end of its main body.         *)
LEMMA FinalSteps ==
  ASSUME CInv, [Next]_vars
  PROVE  Final'
<1>1. CASE status = "running" /\ status' \in {"running", "aborted", "undefined"}
  BY <1>1 DEF Final
<1>2. CASE UNCHANGED vars
  BY <1>2 DEF CInv, Control, Final, vars, heap, op, Due
<1>3. CASE ReleaseOperand \/ ReleaseGlobal
  BY <1>3 DEF ReleaseOperand, ReleaseGlobal, Settled, CInv, Control, Final, op
<1>4. CASE RunCascade
  <2>1. drain # <<>>
    BY <1>4 DEF RunCascade, Cascade, ReleaseChild, FreeBlock
  <2> QED
    BY <1>4, <2>1 DEF RunCascade, CInv, Control, Final, op
<1>5. CASE EndProgram
  <2>1. /\ op = "none" /\ sp = Base /\ depth = 0 /\ status' = "ending"
        /\ UNCHANGED <<sp, calls, frames, todo>>
    BY <1>5 DEF EndProgram, AtStatement, Ready, Doing, op
  <2>2. calls \in Seq(1 .. MaxTemp) /\ frames \in Seq(0 .. MaxTemp)
    BY ControlParts
  <2>3. frames = <<>> /\ Base = 0
    BY <2>1, <2>2, Heights DEF depth
  <2>4. \A k \in 1 .. Len(calls) : calls[k] <= Base /\ calls[k] \in 1 .. MaxTemp
    BY <2>1, NoOpenCall, Heights
  <2>5. calls = <<>>
    <3>1. MaxTemp \in Nat
      BY Basics
    <3>2. calls # <<>> => Len(calls) \in 1 .. Len(calls)
      BY Heights
    <3> QED
      BY <2>3, <2>4, <3>1, <3>2
  <2> QED
    BY <2>1, <2>3, <2>5 DEF Final, op
<1>6. CASE Exit
  BY <1>6 DEF Exit, Settled, CInv, Control, Final, op, heap, Due
<1>7. CASE \/ PushConst \/ (\E b \in Block : PushString(b)) \/ (\E x \in Name : LoadVar(x))
           \/ Discard \/ (\E x \in Name, c \in Block : Assign(x, c))
           \/ (\E x \in Name : Reassign(x)) \/ Defining
           \/ (\E x \in Name : OpenCall(x)) \/ OpenCallOnValue \/ Call
  BY <1>1, <1>7
     DEF PushConst, PushString, LoadVar, Discard, Assign, Reassign, Evaluated, AtStatement, Ready,
         Doing, Defining, Define, MakeEnv, CaptureNext, MakeClosure, BindFn,
         OpenCall, OpenCallOnValue, Call
<1>8. CASE Enter \/ Entering \/ Return \/ FallThrough \/ ReleaseLocal \/ BackInCaller \/ Abort
  BY <1>1, <1>8
     DEF Enter, Entering, SelfClosure, BindSelf, BindCapture, BindParam, LoadCapture, Return,
         FallThrough, ReleaseLocal, BackInCaller, Abort, Evaluated, AtStatement, Ready, Doing
<1> QED
  BY <1>2, <1>3, <1>4, <1>5, <1>6, <1>7, <1>8 DEF Next, Defining, Entering

(* No code captures nothing.                                               *)
LEMMA NoCodeOK == CodeOK(NoCode)
<1>1. NoCode.caps = <<>> /\ Len(<<>>) = 0 /\ Width \in Nat
  BY HeapAssumption DEF NoCode, HeapAssumption
<1> QED
  BY <1>1 DEF CodeOK

(* Every step keeps the captures of functions apart from each other, from  *)
(* the function and from its parameter.                                    *)
LEMMA CodesSteps ==
  ASSUME CInv, [Next]_vars
  PROVE  Codes'
<1>0. /\ CodeOK(todo.code) /\ \A b \in Block : CodeOK(code[b])
      /\ code \in [Block -> Code]
  BY ControlParts DEF CInv, Codes
<1>1. ASSUME CodeOK(todo'.code), \A b \in Block : CodeOK(code'[b]), UNCHANGED prog
      PROVE  Codes'
  BY <1>1 DEF Codes, CodeOK
<1>2. ASSUME todo'.code = todo.code \/ todo'.code = NoCode, UNCHANGED <<code, prog>>
      PROVE  Codes'
  BY <1>0, <1>1, <1>2, NoCodeOK
<1>3. /\ Idle.code = NoCode /\ [Idle EXCEPT !.op = "return"].code = NoCode
      /\ \A o : [todo EXCEPT !.op = o].code = todo.code
  <2>1. Idle.code = NoCode
    BY DEF Idle, Do
  <2>2. [Idle EXCEPT !.op = "return"].code = NoCode
    BY TodoEdits, ControlParts DEF Do
  <2>3. \A o : Do(o, todo.code, todo.env, todo.n).code = todo.code
    BY DEF Do
  <2>4. \A o : [todo EXCEPT !.op = o].code = todo.code
    <3>1. todo = Do(op, todo.code, todo.env, todo.n)
      BY ControlParts
    <3>2. \A o : [todo EXCEPT !.op = o] = Do(o, todo.code, todo.env, todo.n)
      BY <3>1, TodoEdits
    <3> QED
      BY <2>3, <3>2
  <2> QED
    BY <2>1, <2>2, <2>4
<1>4. CASE UNCHANGED <<todo, code, prog>>
  BY <1>2, <1>4
<1>5. CASE RunCascade
  <2>1. \A b \in Block : code'[b] = NoCode \/ code'[b] = code[b]
    BY <1>0, <1>5 DEF RunCascade
  <2> QED
    BY <1>0, <1>1, <1>5, <2>1, NoCodeOK DEF RunCascade
<1>6. ASSUME NEW f \in Fn, NEW q \in CaptureList, Define(f, q)
      PROVE  Codes'
  <2>1. PICK o, c : /\ o = (IF q = <<>> THEN "closure" ELSE "env")
                    /\ c = [fn |-> f, caps |-> q]
    OBVIOUS
  <2>2. todo' = Do(o, c, Nil, 0) /\ UNCHANGED <<code, prog>>
    BY <1>6, <2>1 DEF Define
  <2>3. Len(q) <= Width
    <3>1. PICK n \in 0 .. Width : q \in [1 .. n -> Name]
      BY DEF CaptureList
    <3> QED
      BY <3>1, Basics
  <2>4. CodeOK(c)
    BY <1>6, <2>1, <2>3 DEF CodeOK, Define
  <2>5. todo'.code = c
    BY <2>2 DEF Do
  <2> QED
    BY <1>0, <1>1, <2>2, <2>4, <2>5
<1>7. CASE \/ (\E e \in Block : MakeEnv(e)) \/ (\E c \in Block : BindFn(c))
           \/ (\E c \in Block : BindParam(c)) \/ Enter \/ LoadCapture \/ Return \/ FallThrough
           \/ BackInCaller
  BY <1>2, <1>3, <1>7
     DEF MakeEnv, BindFn, BindParam, Enter, LoadCapture, Return, FallThrough, BackInCaller
<1>8. CASE CaptureNext
  <2>1. PICK o \in {"closure", "capture"} : todo' = [todo EXCEPT !.op = o]
    BY <1>8 DEF CaptureNext
  <2> QED
    BY <1>2, <1>3, <1>8, <2>1 DEF CaptureNext
<1>9. ASSUME NEW c \in Block, MakeClosure(c) \/ SelfClosure(c)
      PROVE  Codes'
  <2>1. /\ code' = [code EXCEPT ![c] = todo.code] /\ UNCHANGED prog
        /\ todo'.code = todo.code
    BY <1>3, <1>9 DEF MakeClosure, SelfClosure
  <2> QED
    BY <1>0, <1>1, <2>1
<1>10. CASE Call
  <2>1. PICK c, e : c = code[Callee] /\ e = own[Field(Callee, 1)]
    OBVIOUS
  <2>2. todo' = Do("enter", c, e, 0) /\ UNCHANGED <<code, prog>> /\ CodeOK(c)
    BY <1>10, <2>1, CalleeIs DEF Call
  <2>3. todo'.code = c
    BY <2>2 DEF Do
  <2> QED
    BY <1>0, <1>1, <2>2, <2>3
<1>11. ASSUME NEW c \in Block, BindSelf(c) \/ BindCapture(c)
       PROVE  Codes'
  <2>1. UNCHANGED <<code, prog>>
    BY <1>11 DEF BindSelf, BindCapture
  <2>2. \A n : NextEntry(n).code \in {todo.code, NoCode}
    <3> SUFFICES ASSUME NEW n
                 PROVE  NextEntry(n).code \in {todo.code, NoCode}
      OBVIOUS
    <3>1. \A o, m : [todo EXCEPT !.op = o, !.n = m].code = todo.code
      <4> SUFFICES ASSUME NEW o, NEW m
                   PROVE  [todo EXCEPT !.op = o, !.n = m].code = todo.code
        OBVIOUS
      <4>1. [todo EXCEPT !.op = o, !.n = m] = Do(o, todo.code, todo.env, m)
        BY TodoEdits, ControlParts
      <4> QED
        BY <4>1 DEF Do
    <3>2. Idle.code = NoCode
      BY <1>3
    <3> QED
      BY <3>1, <3>2 DEF NextEntry
  <2>3. \E n : todo' = NextEntry(n)
    BY <1>11 DEF BindSelf, BindCapture
  <2> QED
    BY <1>2, <2>1, <2>2, <2>3
<1> QED
  BY <1>4, <1>5, <1>6, <1>7, <1>8, <1>9, <1>10, <1>11
     DEF Next, vars, ReleaseOperand, PushConst, PushString, LoadVar, Discard, Assign, Reassign,
         OpenCall, OpenCallOnValue, ReleaseLocal, Abort, EndProgram, ReleaseGlobal, Exit
(***************************************************************************)
(* What slots refer to.                                                    *)
(***************************************************************************)

\* A block keeps its kind as long as somebody refers to it, and as long as
\* it refers to somebody.
KindStep ==
  /\ \A s \in Slot : own[s] \in Block => kind'[own[s]] = kind[own[s]]
  /\ \A b \in Block, i \in 1 .. Width : own[Field(b, i)] # Nil => kind'[b] = kind[b]

(* It does in every step: what is freed neither refers nor is referred to. *)
LEMMA KindSteps ==
  ASSUME CInv, [Next]_vars
  PROVE  KindStep
<1>0. HeapInv /\ kind \in [Block -> Kind]
  BY Basics DEF CInv
<1>1. ASSUME UNCHANGED kind
      PROVE  KindStep
  BY <1>1 DEF KindStep
<1>2. ASSUME NEW c \in Block, NEW k, kind[c] = "free", kind' = [kind EXCEPT ![c] = k]
      PROVE  KindStep
  <2>1. \A s \in Slot : own[s] # c
    BY <1>0, <1>2, FreeIsUnreferenced
  <2>2. \A i \in 1 .. Width : own[Field(c, i)] = Nil
    BY <1>0, <1>2 DEF HeapInv, FreeOwnsNothing
  <2> QED
    BY <1>0, <1>2, <2>1, <2>2 DEF KindStep
<1>3. CASE RunCascade
  <2>1. CASE ReleaseChild
    BY <1>1, <2>1 DEF ReleaseChild, Drop
  <2>2. CASE FreeBlock
    <3>1. PICK b \in Block : /\ b = Head(drain) /\ Owning(b) = {} /\ b = drain[1]
                             /\ 1 \in 1 .. Len(drain)
                             /\ kind' = [kind EXCEPT ![b] = "free"]
      <4>1. drain \in Seq(Block) /\ drain # <<>>
        BY <1>0, <2>2 DEF FreeBlock, HeapInv, HeapTypeOK
      <4>2. Head(drain) = drain[1] /\ Head(drain) \in Block /\ 1 \in 1 .. Len(drain)
        BY <4>1
      <4> QED
        BY <2>2, <4>2 DEF FreeBlock
    <3>2. \A s \in Slot : own[s] \in Block => own[s] # b
      BY <1>0, <3>1, OwnedIsLive
    <3>3. \A i \in 1 .. Width : own[Field(b, i)] = Nil
      BY <3>1 DEF Owning
    <3> QED
      BY <1>0, <3>1, <3>2, <3>3 DEF KindStep
  <2> QED
    BY <1>3, <2>1, <2>2 DEF RunCascade, Cascade
<1>4. ASSUME NEW c \in Block, NEW k, NEW n, Alloc(c, k, n)
      PROVE  KindStep
  BY <1>2, <1>4 DEF Alloc, Free
<1>5. ASSUME NEW x \in Name, NEW c \in Block, Bind(x, c) \/ Insert(x, c)
      PROVE  KindStep
  BY <1>1, <1>4, <1>5 DEF Bind, Insert
<1>6. ASSUME NEW x, NEW c \in Block, Insert(x, c)
      PROVE  KindStep
  BY <1>1, <1>4, <1>6 DEF Insert
<1>7. CASE \/ (\E b \in Block : PushString(b)) \/ (\E e \in Block : MakeEnv(e))
           \/ (\E c \in Block : MakeClosure(c))
  BY <1>4, <1>7 DEF PushString, MakeEnv, MakeClosure
<1>8. ASSUME NEW c \in Block, NEW x \in Name, Assign(x, c)
      PROVE  KindStep
  BY <1>5, <1>8 DEF Assign
<1>9. ASSUME NEW c \in Block, BindFn(c)
      PROVE  KindStep
  <2>1. todo.code.fn \in Name
    BY <1>9, SubjectIs DEF BindFn, Doing, op
  <2> QED
    BY <1>5, <1>9, <2>1 DEF BindFn
<1>10. ASSUME NEW c \in Block, SelfClosure(c)
       PROVE  KindStep
  BY <1>2, <1>10 DEF SelfClosure, Free
<1>11. ASSUME NEW c \in Block, BindSelf(c) \/ BindCapture(c) \/ BindParam(c)
       PROVE  KindStep
  BY <1>6, <1>11 DEF BindSelf, BindCapture, BindParam
<1>12. CASE UNCHANGED kind
  BY <1>1, <1>12
<1> QED
  BY <1>3, <1>7, <1>8, <1>9, <1>10, <1>11, <1>12
     DEF Next, vars, heap, ReleaseOperand, Drop, PushConst, LoadVar, Push, Discard, Reassign,
         Define, CaptureNext, OpenCall, OpenCallOnValue, Call, Enter, LoadCapture, Return,
         FallThrough, ReleaseLocal, BackInCaller, Abort, EndProgram, ReleaseGlobal, Exit

\* What IsVal and IsKind say of a value after the step.
ValNext(v)     == v = Nil \/ (v \in Block /\ kind'[v] \in {"str", "clos"})
KindNext(v, k) == v \in Block /\ kind'[v] = k

(* What a slot refers to keeps its kind.                                   *)
LEMMA Keeps ==
  ASSUME KindStep, NEW s \in Slot
  PROVE  /\ IsVal(own[s]) => ValNext(own[s])
         /\ \A k : IsKind(own[s], k) => KindNext(own[s], k)
BY DEF KindStep, IsVal, IsKind, ValNext, KindNext

(* Between steps of the program all operands are plain values, but for an  *)
(* env that is being built.                                                *)
LEMMA Operands ==
  ASSUME CInv, Settled, NEW i \in 1 .. MaxTemp, ~(Building /\ i = sp)
  PROVE  Temp(i) \in Slot /\ IsVal(own[Temp(i)]) /\ (i > sp => own[Temp(i)] = Nil)
<1>1. Temp(i) \in Slot
  BY SlotFamilies
<1>2. i > sp => own[Temp(i)] = Nil
  BY Above, Basics DEF Settled
<1>3. \/ IsVal(own[Temp(i)])
      \/ i > sp
      \/ i = sp /\ Building
  BY DEF CInv, RootsTyped
<1> QED
  BY <1>1, <1>2, <1>3 DEF IsVal

(* A variable holds a plain value.                                         *)
LEMMA ResolvedVal ==
  ASSUME CInv, NEW x \in Name, NEW s \in Slot, Resolves(x, s)
  PROVE  IsVal(own[s])
<1>1. CASE s = Glob(x)
  BY <1>1 DEF CInv, RootsTyped
<1>2. CASE s # Glob(x)
  <2>1. PICK l : /\ l \in Block /\ kind[l] = "cell" /\ s = Field(l, 1)
    BY <1>2, Resolved
  <2>2. own[Field(l, 1)] # Nil => IsVal(own[Field(l, 1)])
    BY <2>1, Basics DEF CInv, FieldsTyped
  <2> QED
    BY <2>1, <2>2 DEF IsVal
<1> QED
  BY <1>1, <1>2

(* The env of a body that reads its captures is live, and the capture is a *)
(* plain value.                                                            *)
LEMMA EnvIsLive ==
  ASSUME CInv, op \in {"load", "bindload"}
  PROVE  /\ IsKind(todo.env, "env")
         /\ \A i \in 1 .. Width : IsVal(own[Field(todo.env, i)])
<1>1. PICK d, l, c : /\ d = Len(frames)
                     /\ l = own[Local(d, todo.code.fn)] /\ c = own[Field(l, 1)]
                     /\ l \in Block /\ c \in Block
                     /\ todo.env \in Block /\ own[Field(c, 1)] = todo.env
  BY DEF CInv, EnvKept
<1>2. d \in 1 .. MaxDepth /\ todo.code.fn \in Name
  <2>1. frames # <<>>
    BY ControlParts DEF Subject, Knows, Entry
  <2> QED
    BY <1>1, <2>1, Heights, SubjectIs DEF Entry
<1>3. todo.code.fn \in LocalName /\ Nil \notin Block /\ 1 \in 1 .. Width
  BY <1>2, Basics DEF LocalName
<1>4. kind[l] = "cell"
  BY <1>1, <1>2, <1>3 DEF CInv, RootsTyped, IsKind
<1>5. IsVal(c)
  BY <1>1, <1>3, <1>4 DEF CInv, FieldsTyped
<1>6. kind[c] \in {"str", "clos"}
  BY <1>1, <1>3, <1>5 DEF IsVal, IsKind
<1>7. kind[c] = "clos" /\ IsKind(todo.env, "env")
  BY <1>1, <1>3, <1>6 DEF CInv, FieldsTyped
<1>8. \A i \in 1 .. Width : IsVal(own[Field(todo.env, i)])
  BY <1>7 DEF CInv, FieldsTyped, IsKind, IsVal
<1> QED
  BY <1>7, <1>8

(* A step that leaves every slot as it was.                                *)
LEMMA TypedStay ==
  ASSUME CInv, KindStep, UNCHANGED own,
         \/ sp' = sp /\ (Building => Building')
         \/ Settled /\ ~Building,
         \/ UNCHANGED frames
         \/ /\ \A x \in Name : own[Local(Len(frames), x)] = Nil
            /\ Len(frames) > 0 /\ Len(frames') = Len(frames) - 1
         \/ Len(frames') \in Nat /\ Len(frames') > Len(frames)
  PROVE  RootsTyped' /\ FieldsTyped'
<1>0. /\ CollName \notin Name /\ Len(frames) \in Nat /\ MaxDepth \in Nat
      /\ sp \in Nat /\ MaxTemp \in Nat
  BY HeapAssumption, Basics DEF HeapAssumption
<1>1. ASSUME NEW d \in 1 .. MaxDepth, NEW x \in LocalName, own[Local(d, x)] # Nil
      PROVE  d <= Len(frames') /\ x # CollName /\ KindNext(own[Local(d, x)], "cell")
  <2>1. d <= Len(frames) /\ x # CollName /\ IsKind(own[Local(d, x)], "cell")
    BY <1>1 DEF CInv, RootsTyped
  <2>2. x \in Name
    BY <2>1 DEF LocalName
  <2>3. d <= Len(frames')
    <3>1. CASE UNCHANGED frames
      BY <2>1, <3>1
    <3>2. CASE /\ \A y \in Name : own[Local(Len(frames), y)] = Nil
               /\ Len(frames) > 0 /\ Len(frames') = Len(frames) - 1
      <4>1. d # Len(frames)
        BY <1>1, <2>2, <3>2
      <4> QED
        BY <1>0, <2>1, <3>2, <4>1
    <3>3. CASE Len(frames') \in Nat /\ Len(frames') > Len(frames)
      BY <1>0, <2>1, <3>3
    <3> QED
      BY <3>1, <3>2, <3>3
  <2>4. Local(d, x) \in Slot
    BY SlotFamilies
  <2> QED
    BY <2>1, <2>3, <2>4, Keeps
<1>2. \A x \in Name : ValNext(own[Glob(x)])
  BY SlotFamilies, Keeps DEF CInv, RootsTyped
<1>3. ASSUME NEW i \in 1 .. MaxTemp
      PROVE  \/ ValNext(own[Temp(i)])
             \/ i > sp' /\ KindNext(own[Temp(i)], "cell")
             \/ i = sp' /\ Building' /\ KindNext(own[Temp(i)], "env")
  <2>1. Temp(i) \in Slot
    BY SlotFamilies
  <2>2. CASE sp' = sp /\ (Building => Building')
    <3>1. \/ IsVal(own[Temp(i)])
          \/ i > sp /\ IsKind(own[Temp(i)], "cell")
          \/ i = sp /\ Building /\ IsKind(own[Temp(i)], "env")
      BY DEF CInv, RootsTyped
    <3> QED
      BY <2>1, <2>2, <3>1, Keeps
  <2>3. CASE Settled /\ ~Building
    BY <2>1, <2>3, Operands, Keeps
  <2> QED
    BY <2>2, <2>3
<1>4. own'[Reg] = Nil
  BY DEF CInv, RootsTyped
<1>5. RootsTyped'
  BY <1>1, <1>2, <1>3, <1>4 DEF RootsTyped, ValNext, KindNext, IsVal, IsKind
<1>6. FieldsTyped'
  <2> SUFFICES ASSUME NEW b \in Block, NEW i \in 1 .. Width, own[Field(b, i)] # Nil
               PROVE  \/ kind'[b] = "clos" /\ KindNext(own[Field(b, i)], "env")
                      \/ kind'[b] \in {"cell", "env"} /\ ValNext(own[Field(b, i)])
    BY DEF FieldsTyped, ValNext, KindNext, IsVal, IsKind
  <2>1. kind'[b] = kind[b] /\ Field(b, i) \in Slot
    BY SlotFamilies DEF KindStep
  <2> QED
    BY <2>1, Keeps DEF CInv, FieldsTyped
<1> QED
  BY <1>5, <1>6
\* What each family of slots may refer to after the step.
GlobsFit == own'[Reg] = Nil /\ \A x \in Name : ValNext(own'[Glob(x)])

LocalFits(d, x) ==
  own'[Local(d, x)] # Nil =>
    d <= Len(frames') /\ x # CollName /\ KindNext(own'[Local(d, x)], "cell")

TempFits(i) ==
  \/ ValNext(own'[Temp(i)])
  \/ i > sp' /\ KindNext(own'[Temp(i)], "cell")
  \/ i = sp' /\ Building' /\ KindNext(own'[Temp(i)], "env")

FieldFits(b, i) ==
  own'[Field(b, i)] # Nil =>
    \/ kind'[b] = "clos" /\ KindNext(own'[Field(b, i)], "env")
    \/ kind'[b] \in {"cell", "env"} /\ ValNext(own'[Field(b, i)])

(* Together that is the typing of all slots.                               *)
LEMMA AllFit ==
  ASSUME GlobsFit,
         \A d \in 1 .. MaxDepth, x \in LocalName : LocalFits(d, x),
         \A i \in 1 .. MaxTemp : TempFits(i),
         \A b \in Block, i \in 1 .. Width : FieldFits(b, i)
  PROVE  RootsTyped' /\ FieldsTyped'
<1>1. RootsTyped'
  BY DEF GlobsFit, LocalFits, TempFits, RootsTyped, ValNext, KindNext, IsVal, IsKind
<1>2. FieldsTyped'
  BY DEF FieldFits, FieldsTyped, ValNext, KindNext, IsVal, IsKind
<1> QED
  BY <1>1, <1>2

(* A slot that is not written fits again.                                  *)
LEMMA StillFit ==
  ASSUME CInv, KindStep
  PROVE  /\ GlobsKept => GlobsFit
         /\ \A d \in 1 .. MaxDepth, x \in LocalName :
              UNCHANGED frames /\ own'[Local(d, x)] = own[Local(d, x)] => LocalFits(d, x)
         /\ \A b \in Block, i \in 1 .. Width :
              own'[Field(b, i)] = own[Field(b, i)] => FieldFits(b, i)
         /\ \A i \in 1 .. MaxTemp :
              /\ own'[Temp(i)] = own[Temp(i)]
              /\ \/ Settled /\ ~(Building /\ i = sp)
                 \/ sp' = sp /\ (Building => Building')
              => TempFits(i)
<1>1. ASSUME GlobsKept PROVE GlobsFit
  <2>1. \A x \in Name : Glob(x) \in Slot /\ IsVal(own[Glob(x)])
    BY SlotFamilies DEF CInv, RootsTyped
  <2>2. \A x \in Name : ValNext(own[Glob(x)])
    BY <2>1, Keeps
  <2> QED
    BY <1>1, <2>2 DEF GlobsKept, GlobsFit, CInv, RootsTyped
<1>2. ASSUME NEW d \in 1 .. MaxDepth, NEW x \in LocalName, UNCHANGED frames,
             own'[Local(d, x)] = own[Local(d, x)], own[Local(d, x)] # Nil
      PROVE  LocalFits(d, x)
  <2>1. Local(d, x) \in Slot
    BY SlotFamilies
  <2>2. d <= Len(frames) /\ x # CollName /\ IsKind(own[Local(d, x)], "cell")
    BY <1>2 DEF CInv, RootsTyped
  <2> QED
    BY <1>2, <2>1, <2>2, Keeps DEF LocalFits
<1>3. ASSUME NEW b \in Block, NEW i \in 1 .. Width, own'[Field(b, i)] = own[Field(b, i)],
             own[Field(b, i)] # Nil
      PROVE  FieldFits(b, i)
  <2>1. kind'[b] = kind[b] /\ Field(b, i) \in Slot
    BY <1>3, SlotFamilies DEF KindStep
  <2> QED
    BY <1>3, <2>1, Keeps DEF CInv, FieldsTyped, FieldFits
<1>4. ASSUME NEW i \in 1 .. MaxTemp, own'[Temp(i)] = own[Temp(i)],
             \/ Settled /\ ~(Building /\ i = sp)
             \/ sp' = sp /\ (Building => Building')
      PROVE  TempFits(i)
  <2>1. Temp(i) \in Slot
    BY SlotFamilies
  <2>2. CASE Settled /\ ~(Building /\ i = sp)
    BY <1>4, <2>1, <2>2, Operands, Keeps DEF TempFits
  <2>3. CASE sp' = sp /\ (Building => Building')
    <3>1. \/ IsVal(own[Temp(i)])
          \/ i > sp /\ IsKind(own[Temp(i)], "cell")
          \/ i = sp /\ Building /\ IsKind(own[Temp(i)], "env")
      BY DEF CInv, RootsTyped
    <3> QED
      BY <1>4, <2>1, <2>3, <3>1, Keeps DEF TempFits
  <2> QED
    BY <1>4, <2>2, <2>3
<1>5. /\ \A d, x : own'[Local(d, x)] = own[Local(d, x)] /\ own[Local(d, x)] = Nil => LocalFits(d, x)
      /\ \A b, i : own'[Field(b, i)] = own[Field(b, i)] /\ own[Field(b, i)] = Nil => FieldFits(b, i)
  BY DEF LocalFits, FieldFits
<1> QED
  BY <1>1, <1>2, <1>3, <1>4, <1>5

(* An operand is pushed.                                                   *)
LEMMA TypedPush ==
  ASSUME CInv, KindStep, Settled, ~Building, NEW v \in Value, sp < prog.temps,
         own' = Put(own, Temp(sp + 1), v), sp' = sp + 1, UNCHANGED frames,
         ValNext(v) \/ (Building' /\ KindNext(v, "env"))
  PROVE  RootsTyped' /\ FieldsTyped'
<1>1. sp + 1 \in 1 .. MaxTemp /\ own \in [Slot -> Value]
  BY Basics
<1>2. PICK k \in 1 .. MaxTemp : k = sp + 1
  BY <1>1
<1>3. own' = Put(own, Temp(k), v)
  BY <1>2
<1>4. /\ GlobsKept /\ LocalsKept /\ FieldsKept
      /\ \A i \in 1 .. MaxTemp : own'[Temp(i)] = IF i = k THEN v ELSE own[Temp(i)]
  BY <1>1, <1>3, TempPut
<1>5. ASSUME NEW i \in 1 .. MaxTemp PROVE TempFits(i)
  <2>1. CASE i = k
    BY <1>2, <1>4, <2>1 DEF TempFits
  <2>2. CASE i # k
    BY <1>4, <2>2, StillFit
  <2> QED
    BY <2>1, <2>2
<1> QED
  BY <1>4, <1>5, StillFit, AllFit DEF LocalsKept, FieldsKept

(* A reference is dropped.                                                 *)
LEMMA TypedDrop ==
  ASSUME CInv, KindStep, NEW s \in Slot, own' = Put(own, s, Nil),
         UNCHANGED <<sp, frames>>, Building => Building' /\ s # Temp(sp)
  PROVE  RootsTyped' /\ FieldsTyped'
<1>1. \A u \in Slot : own'[u] = own[u] \/ own'[u] = Nil
  BY Basics DEF Put
<1>2. ASSUME NEW x \in Name PROVE ValNext(own'[Glob(x)])
  <2>1. Glob(x) \in Slot /\ IsVal(own[Glob(x)])
    BY SlotFamilies DEF CInv, RootsTyped
  <2> QED
    BY <1>1, <2>1, Keeps DEF ValNext
<1>3. GlobsFit
  BY <1>1, <1>2, SlotFamilies DEF GlobsFit, CInv, RootsTyped
<1>4. ASSUME NEW d \in 1 .. MaxDepth, NEW x \in LocalName PROVE LocalFits(d, x)
  <2>1. own'[Local(d, x)] = own[Local(d, x)] \/ own'[Local(d, x)] = Nil
    BY <1>1, SlotFamilies
  <2> QED
    BY <2>1, StillFit DEF LocalFits
<1>5. ASSUME NEW i \in 1 .. MaxTemp PROVE TempFits(i)
  <2>1. own'[Temp(i)] = own[Temp(i)] \/ own'[Temp(i)] = Nil
    BY <1>1, SlotFamilies
  <2> QED
    BY <2>1, StillFit DEF TempFits, ValNext
<1>6. ASSUME NEW b \in Block, NEW i \in 1 .. Width PROVE FieldFits(b, i)
  <2>1. own'[Field(b, i)] = own[Field(b, i)] \/ own'[Field(b, i)] = Nil
    BY <1>1, SlotFamilies
  <2> QED
    BY <2>1, StillFit DEF FieldFits
<1> QED
  BY <1>3, <1>4, <1>5, <1>6, AllFit

(* A name is bound: a global, or a new cell of the scope.                  *)
LEMMA TypedBind ==
  ASSUME CInv, KindStep, Settled, ~Building, NEW x \in Name, NEW c \in Block, Bind(x, c),
         sp >= 1, sp' = sp - 1, UNCHANGED frames
  PROVE  RootsTyped' /\ FieldsTyped'
<1>0. /\ own \in [Slot -> Value] /\ sp \in Nat /\ 1 \in 1 .. Width
      /\ MaxTemp \in Nat /\ sp \in 1 .. MaxTemp /\ kind \in [Block -> Kind]
  BY Basics
<1>1. PICK k \in 1 .. MaxTemp : k = sp
  BY <1>0
<1>2. IsVal(own[Temp(k)]) /\ Temp(k) \in Slot /\ ValNext(own[Temp(k)])
  BY Operands, Keeps
<1>3. CASE depth = 0
  <2>1. own' = Exchange(own, Temp(k), Glob(x))
    BY <1>1, <1>3 DEF Bind
  <2>2. /\ LocalsKept /\ FieldsKept /\ own'[Reg] = own[Reg]
        /\ \A y \in Name : own'[Glob(y)] = IF y = x THEN own[Temp(k)] ELSE own[Glob(y)]
        /\ \A i \in 1 .. MaxTemp : own'[Temp(i)] = IF i = k THEN own[Glob(x)] ELSE own[Temp(i)]
    BY <1>0, <2>1, GlobSwap
  <2>3. \A y \in Name : ValNext(own[Glob(y)])
    BY SlotFamilies, Keeps DEF CInv, RootsTyped
  <2>4. GlobsFit
    BY <1>2, <2>2, <2>3 DEF GlobsFit, CInv, RootsTyped
  <2>5. ASSUME NEW i \in 1 .. MaxTemp PROVE TempFits(i)
    <3>1. CASE i = k
      BY <2>2, <2>3, <3>1 DEF TempFits
    <3>2. CASE i # k
      BY <2>2, <3>2, StillFit
    <3> QED
      BY <3>1, <3>2
  <2> QED
    BY <2>2, <2>4, <2>5, StillFit, AllFit DEF LocalsKept, FieldsKept
<1>4. CASE depth # 0
  <2>1. PICK d : d = Len(frames)
    OBVIOUS
  <2>2. /\ d \in 1 .. MaxDepth /\ x \in LocalName /\ x # CollName
    BY <1>4, <2>1, Basics, HeapAssumption DEF depth, LocalName, HeapAssumption
  <2>3. /\ Alloc(c, "cell", 1)
        /\ own' = Put(Exchange(Exchange(own, Temp(k), Field(c, 1)), Temp(k), Local(d, x)),
                      Local(d, x), c)
    BY <1>1, <1>4, <2>1 DEF Bind, depth
  <2>4. own[Field(c, 1)] = Nil /\ kind'[c] = "cell"
    BY <1>0, <2>3 DEF Alloc, Free, CInv, HeapInv, FreeOwnsNothing
  <2>5. /\ GlobsKept
        /\ \A e \in 1 .. MaxDepth, y \in LocalName :
             own'[Local(e, y)] = IF e = d /\ y = x THEN c ELSE own[Local(e, y)]
        /\ \A b \in Block, i \in 1 .. Width :
             own'[Field(b, i)] = IF b = c /\ i = 1 THEN own[Temp(k)] ELSE own[Field(b, i)]
        /\ \A i \in 1 .. MaxTemp :
             own'[Temp(i)] = IF i = k THEN own[Local(d, x)] ELSE own[Temp(i)]
    BY <1>0, <2>2, <2>3, <2>4, CellBound
  <2>6. ASSUME NEW e \in 1 .. MaxDepth, NEW y \in LocalName PROVE LocalFits(e, y)
    <3>1. CASE e = d /\ y = x
      BY <2>1, <2>2, <2>4, <2>5, <3>1 DEF LocalFits, KindNext
    <3>2. CASE ~(e = d /\ y = x)
      <4>1. own'[Local(e, y)] = own[Local(e, y)]
        BY <2>5, <3>2
      <4> QED
        BY <4>1, StillFit
    <3> QED
      BY <3>1, <3>2
  <2>7. ASSUME NEW i \in 1 .. MaxTemp PROVE TempFits(i)
    <3>1. CASE i = k
      <4>1. Local(d, x) \in Slot /\ (own[Local(d, x)] = Nil \/ IsKind(own[Local(d, x)], "cell"))
        BY <2>2, SlotFamilies DEF CInv, RootsTyped
      <4>2. own'[Temp(i)] = Nil \/ KindNext(own'[Temp(i)], "cell")
        BY <2>5, <3>1, <4>1, Keeps
      <4> QED
        BY <1>0, <1>1, <3>1, <4>2 DEF TempFits, ValNext
    <3>2. CASE i # k
      BY <2>5, <3>2, StillFit
    <3> QED
      BY <3>1, <3>2
  <2>8. ASSUME NEW b \in Block, NEW i \in 1 .. Width PROVE FieldFits(b, i)
    <3>1. CASE b = c /\ i = 1
      BY <1>2, <2>4, <2>5, <3>1 DEF FieldFits
    <3>2. CASE ~(b = c /\ i = 1)
      <4>1. own'[Field(b, i)] = own[Field(b, i)]
        BY <2>5, <3>2
      <4> QED
        BY <4>1, StillFit
    <3> QED
      BY <3>1, <3>2
  <2> QED
    BY <2>5, <2>6, <2>7, <2>8, StillFit, AllFit
<1> QED
  BY <1>3, <1>4
(* scope.insert.                                                           *)
LEMMA TypedInsert ==
  ASSUME CInv, KindStep, Settled, ~Building, NEW x \in Name, NEW c \in Block, Insert(x, c),
         sp >= 1, Len(frames) > 0, UNCHANGED frames
  PROVE  RootsTyped' /\ FieldsTyped'
<1>0. /\ own \in [Slot -> Value] /\ sp \in Nat /\ 1 \in 1 .. Width
      /\ MaxTemp \in Nat /\ sp \in 1 .. MaxTemp /\ kind \in [Block -> Kind]
  BY Basics
<1>1. PICK k \in 1 .. MaxTemp, d \in Nat : k = sp /\ d = Len(frames)
  BY <1>0
<1>2. /\ d \in 1 .. MaxDepth /\ x \in LocalName /\ x # CollName
  BY <1>1, Basics, HeapAssumption DEF LocalName, HeapAssumption
<1>3. ValNext(own[Temp(k)])
  BY Operands, Keeps
<1>4. /\ Alloc(c, "cell", 1)
      /\ own' = Put(Exchange(own, Temp(k), Field(c, 1)), Local(d, x), c)
  BY <1>1 DEF Insert, depth
<1>5. own[Field(c, 1)] = Nil /\ kind'[c] = "cell"
  BY <1>0, <1>4 DEF Alloc, Free, CInv, HeapInv, FreeOwnsNothing
<1>6. /\ GlobsKept
      /\ \A e \in 1 .. MaxDepth, y \in LocalName :
           own'[Local(e, y)] = IF e = d /\ y = x THEN c ELSE own[Local(e, y)]
      /\ \A b \in Block, i \in 1 .. Width :
           own'[Field(b, i)] = IF b = c /\ i = 1 THEN own[Temp(k)] ELSE own[Field(b, i)]
      /\ \A i \in 1 .. MaxTemp : own'[Temp(i)] = IF i = k THEN Nil ELSE own[Temp(i)]
  BY <1>0, <1>2, <1>4, <1>5, Inserted
<1>7. ASSUME NEW e \in 1 .. MaxDepth, NEW y \in LocalName PROVE LocalFits(e, y)
  <2>1. CASE e = d /\ y = x
    BY <1>1, <1>2, <1>5, <1>6, <2>1 DEF LocalFits, KindNext
  <2>2. CASE ~(e = d /\ y = x)
    <3>1. own'[Local(e, y)] = own[Local(e, y)]
      BY <1>6, <2>2
    <3> QED
      BY <3>1, StillFit
  <2> QED
    BY <2>1, <2>2
<1>8. ASSUME NEW i \in 1 .. MaxTemp PROVE TempFits(i)
  <2>1. CASE i = k
    BY <1>6, <2>1 DEF TempFits, ValNext
  <2>2. CASE i # k
    BY <1>6, <2>2, StillFit
  <2> QED
    BY <2>1, <2>2
<1>9. ASSUME NEW b \in Block, NEW i \in 1 .. Width PROVE FieldFits(b, i)
  <2>1. CASE b = c /\ i = 1
    BY <1>3, <1>5, <1>6, <2>1 DEF FieldFits
  <2>2. CASE ~(b = c /\ i = 1)
    <3>1. own'[Field(b, i)] = own[Field(b, i)]
      BY <1>6, <2>2
    <3> QED
      BY <3>1, StillFit
  <2> QED
    BY <2>1, <2>2
<1> QED
  BY <1>6, <1>7, <1>8, <1>9, StillFit, AllFit

(* A variable is assigned.                                                 *)
LEMMA TypedReassign ==
  ASSUME CInv, KindStep, NEW x \in Name, Reassign(x)
  PROVE  RootsTyped' /\ FieldsTyped'
<1>0. /\ own \in [Slot -> Value] /\ sp \in Nat /\ 1 \in 1 .. Width
      /\ MaxTemp \in Nat /\ sp \in 1 .. MaxTemp
      /\ Settled /\ ~Building /\ UNCHANGED <<kind, frames>>
  BY Basics, Heights DEF Reassign, Evaluated, Ready, Doing, Building, op
<1>1. PICK k \in 1 .. MaxTemp, s \in Slot :
        k = sp /\ Resolves(x, s) /\ own' = Exchange(own, Temp(k), s)
  BY <1>0 DEF Reassign
<1>2. ValNext(own[Temp(k)]) /\ ValNext(own[s])
  BY <1>0, <1>1, Operands, ResolvedVal, Keeps
<1>3. CASE s = Glob(x)
  <2>1. own' = Exchange(own, Temp(k), Glob(x))
    BY <1>1, <1>3
  <2>2. /\ LocalsKept /\ FieldsKept /\ own'[Reg] = own[Reg]
        /\ \A y \in Name : own'[Glob(y)] = IF y = x THEN own[Temp(k)] ELSE own[Glob(y)]
        /\ \A i \in 1 .. MaxTemp : own'[Temp(i)] = IF i = k THEN own[Glob(x)] ELSE own[Temp(i)]
    BY <1>0, <2>1, GlobSwap
  <2>3. \A y \in Name : ValNext(own[Glob(y)])
    BY SlotFamilies, Keeps DEF CInv, RootsTyped
  <2>4. GlobsFit
    BY <1>2, <2>2, <2>3 DEF GlobsFit, CInv, RootsTyped
  <2>5. ASSUME NEW i \in 1 .. MaxTemp PROVE TempFits(i)
    <3>1. CASE i = k
      BY <2>2, <2>3, <3>1 DEF TempFits
    <3>2. CASE i # k
      BY <1>0, <2>2, <3>2, StillFit
    <3> QED
      BY <3>1, <3>2
  <2> QED
    BY <1>0, <2>2, <2>4, <2>5, StillFit, AllFit DEF LocalsKept, FieldsKept
<1>4. CASE s # Glob(x)
  <2>1. PICK l \in Block : kind[l] = "cell" /\ s = Field(l, 1)
    BY <1>1, <1>4, Resolved
  <2>2. own' = Exchange(own, Temp(k), Field(l, 1))
    BY <1>1, <2>1
  <2>3. /\ LocalsKept /\ GlobsKept
        /\ \A b \in Block, i \in 1 .. Width :
             own'[Field(b, i)] = IF b = l /\ i = 1 THEN own[Temp(k)] ELSE own[Field(b, i)]
        /\ \A i \in 1 .. MaxTemp :
             own'[Temp(i)] = IF i = k THEN own[Field(l, 1)] ELSE own[Temp(i)]
    BY <1>0, <2>2, FieldSwap
  <2>4. ASSUME NEW b \in Block, NEW i \in 1 .. Width PROVE FieldFits(b, i)
    <3>1. CASE b = l /\ i = 1
      BY <1>0, <1>2, <2>1, <2>3, <3>1 DEF FieldFits
    <3>2. CASE ~(b = l /\ i = 1)
      <4>1. own'[Field(b, i)] = own[Field(b, i)]
        BY <2>3, <3>2
      <4> QED
        BY <4>1, StillFit
    <3> QED
      BY <3>1, <3>2
  <2>5. ASSUME NEW i \in 1 .. MaxTemp PROVE TempFits(i)
    <3>1. CASE i = k
      BY <1>2, <2>1, <2>3, <3>1 DEF TempFits
    <3>2. CASE i # k
      BY <1>0, <2>3, <3>2, StillFit
    <3> QED
      BY <3>1, <3>2
  <2> QED
    BY <1>0, <2>3, <2>4, <2>5, StillFit, AllFit DEF LocalsKept
<1> QED
  BY <1>3, <1>4

(* The argument and the callee change places.                              *)
LEMMA TypedCall ==
  ASSUME CInv, KindStep, Call
  PROVE  RootsTyped' /\ FieldsTyped'
<1>0. /\ own \in [Slot -> Value] /\ sp \in Nat /\ MaxTemp \in Nat /\ Floor \in 0 .. sp
      /\ sp \in 0 .. MaxTemp
      /\ Settled /\ ~Building /\ UNCHANGED <<kind, frames>>
  BY Basics, Heights DEF Call, Ready, Doing, Building, op
<1>1. PICK k \in 1 .. MaxTemp, m \in 1 .. MaxTemp : k = Floor /\ m = sp
  BY <1>0, CalleeIs DEF Call
<1>2. own' = Exchange(own, Temp(k), Temp(m))
  BY <1>1 DEF Call
<1>3. /\ LocalsKept /\ GlobsKept /\ FieldsKept
      /\ \A i \in 1 .. MaxTemp :
           own'[Temp(i)] = IF i = m THEN own[Temp(k)]
                           ELSE IF i = k THEN own[Temp(m)] ELSE own[Temp(i)]
  BY <1>0, <1>2, TempSwap
<1>4. \A i \in 1 .. MaxTemp : ValNext(own[Temp(i)])
  BY <1>0, Operands, Keeps
<1>5. \A i \in 1 .. MaxTemp : TempFits(i)
  BY <1>3, <1>4 DEF TempFits
<1> QED
  BY <1>0, <1>3, <1>5, StillFit, AllFit DEF LocalsKept, FieldsKept

(* A capture goes into the env.                                            *)
LEMMA TypedCapture ==
  ASSUME CInv, KindStep, CaptureNext
  PROVE  RootsTyped' /\ FieldsTyped'
<1>0. /\ own \in [Slot -> Value] /\ Doing("capture") /\ UNCHANGED <<kind, frames, sp>>
      /\ op = "capture" /\ Settled
  BY Basics DEF CaptureNext, Doing, op
<1>1. PICK e, i, v : e = Top /\ i = len[e] + 1 /\ v = Captured(todo.code.caps[i])
  OBVIOUS
<1>2. /\ e \in Block /\ kind[e] = "env" /\ i \in 1 .. Width /\ v \in Value /\ IsVal(v)
  BY <1>0, <1>1, CaptureSlots
<1>3. own' = Put(own, Field(e, i), v) /\ todo'.code = todo.code /\ op' \in {"closure", "capture"}
  <2>1. PICK o \in {"closure", "capture"} : todo' = [todo EXCEPT !.op = o]
    BY DEF CaptureNext
  <2>2. todo' = Do(o, todo.code, todo.env, todo.n)
    BY <2>1, TodoEdits, ControlParts
  <2>3. own' = Put(own, Field(e, i), v)
    BY <1>1 DEF CaptureNext
  <2> QED
    BY <2>2, <2>3 DEF Do, op
<1>4. Building'
  BY <1>0, <1>3, ControlParts DEF Building, Subject, Knows
<1>5. /\ GlobsKept /\ LocalsKept /\ TempsKept
      /\ \A c \in Block, j \in 1 .. Width :
           own'[Field(c, j)] = IF c = e /\ j = i THEN v ELSE own[Field(c, j)]
  BY <1>0, <1>2, <1>3, FieldPut
<1>6. ASSUME NEW c \in Block, NEW j \in 1 .. Width PROVE FieldFits(c, j)
  <2>1. CASE c = e /\ j = i
    BY <1>0, <1>2, <1>5, <2>1 DEF FieldFits, IsVal, IsKind, ValNext
  <2>2. CASE ~(c = e /\ j = i)
    <3>1. own'[Field(c, j)] = own[Field(c, j)]
      BY <1>5, <2>2
    <3> QED
      BY <3>1, StillFit
  <2> QED
    BY <2>1, <2>2
<1> QED
  BY <1>0, <1>4, <1>5, <1>6, StillFit, AllFit DEF LocalsKept, TempsKept

(* make_closure over an env, or the self closure of a body.                *)
LEMMA TypedWrap ==
  ASSUME CInv, KindStep, Settled, NEW k \in 1 .. MaxTemp, NEW c \in Block, NEW e \in Value,
         kind'[c] = "clos", UNCHANGED frames,
         e = Nil \/ KindNext(e, "env"),
         GlobsKept, LocalsKept,
         \A b \in Block, i \in 1 .. Width :
           own'[Field(b, i)] = IF b = c /\ i = 1 THEN e ELSE own[Field(b, i)],
         \A i \in 1 .. MaxTemp : own'[Temp(i)] = IF i = k THEN c ELSE own[Temp(i)],
         Building => k = sp
  PROVE  RootsTyped' /\ FieldsTyped'
<1>1. ASSUME NEW b \in Block, NEW j \in 1 .. Width PROVE FieldFits(b, j)
  <2>1. CASE b = c /\ j = 1
    BY <2>1 DEF FieldFits
  <2>2. CASE ~(b = c /\ j = 1)
    <3>1. own'[Field(b, j)] = own[Field(b, j)]
      BY <2>2
    <3> QED
      BY <3>1, StillFit
  <2> QED
    BY <2>1, <2>2
<1>2. ASSUME NEW i \in 1 .. MaxTemp PROVE TempFits(i)
  <2>1. CASE i = k
    BY <2>1 DEF TempFits, ValNext
  <2>2. CASE i # k
    <3>1. own'[Temp(i)] = own[Temp(i)] /\ ~(Building /\ i = sp)
      BY <2>2
    <3> QED
      BY <3>1, StillFit
  <2> QED
    BY <2>1, <2>2
<1> QED
  BY <1>1, <1>2, StillFit, AllFit DEF LocalsKept
(* A closure is made.                                                      *)
LEMMA TypedClosure ==
  ASSUME CInv, KindStep, NEW c \in Block, MakeClosure(c)
  PROVE  RootsTyped' /\ FieldsTyped'
<1>0. /\ own \in [Slot -> Value] /\ kind \in [Block -> Kind] /\ MaxTemp \in Nat /\ sp \in Nat
      /\ 1 \in 1 .. Width /\ sp \in 0 .. MaxTemp /\ prog.temps \in 0 .. MaxTemp
      /\ Base \in 0 .. sp /\ c \in Value /\ Nil \in Value
  BY Basics, Heights DEF Value
<1>1. /\ op = "closure" /\ Settled /\ Alloc(c, "clos", 1) /\ UNCHANGED frames
      /\ (Building <=> todo.code.caps # <<>>) /\ op' = "bind"
  <2>1. todo' = Do("bind", todo.code, todo.env, todo.n)
    BY TodoEdits, ControlParts DEF MakeClosure
  <2> QED
    BY <2>1 DEF MakeClosure, Doing, op, Building, Do
<1>2. kind'[c] = "clos" /\ own[Field(c, 1)] = Nil
  BY <1>0, <1>1 DEF Alloc, Free, CInv, HeapInv, FreeOwnsNothing
<1>3. CASE todo.code.caps = <<>>
  <2>1. /\ sp < prog.temps /\ own' = Put(own, Temp(sp + 1), c) /\ sp' = sp + 1
    BY <1>3 DEF MakeClosure
  <2> QED
    BY <1>0, <1>1, <1>2, <1>3, <2>1, TypedPush DEF ValNext
<1>4. CASE todo.code.caps # <<>>
  <2>1. /\ own' = Put(Exchange(own, Temp(sp), Field(c, 1)), Temp(sp), c) /\ sp' = sp
    BY <1>4 DEF MakeClosure
  <2>2. sp = Base + 1
    BY <1>1, <1>4, ControlParts DEF Position, Place
  <2>3. PICK k \in 1 .. MaxTemp : k = sp
    BY <1>0, <2>2
  <2>4. own' = Put(Exchange(own, Temp(k), Field(c, 1)), Temp(k), c)
    BY <2>1, <2>3
  <2>5. /\ LocalsKept /\ GlobsKept
        /\ \A b \in Block, i \in 1 .. Width :
             own'[Field(b, i)] = IF b = c /\ i = 1 THEN own[Temp(k)] ELSE own[Field(b, i)]
        /\ \A i \in 1 .. MaxTemp : own'[Temp(i)] = IF i = k THEN c ELSE own[Temp(i)]
    BY <1>0, <2>4, Wrapped
  <2>6. PICK e \in Value : e = own[Temp(k)]
    BY <1>0, SlotFamilies
  <2>7. KindNext(e, "env")
    <3>1. IsKind(own[Temp(sp)], "env")
      BY <1>1, <1>4 DEF CInv, BuiltAlone
    <3> QED
      BY <2>3, <2>6, <3>1, SlotFamilies, Keeps
  <2>8. \A b \in Block, i \in 1 .. Width :
          own'[Field(b, i)] = IF b = c /\ i = 1 THEN e ELSE own[Field(b, i)]
    BY <2>5, <2>6
  <2> QED
    BY <1>1, <1>2, <2>3, <2>5, <2>7, <2>8, TypedWrap
<1> QED
  BY <1>3, <1>4

(* The self closure is made.                                               *)
LEMMA TypedSelf ==
  ASSUME CInv, KindStep, NEW c \in Block, SelfClosure(c)
  PROVE  RootsTyped' /\ FieldsTyped'
<1>0. /\ own \in [Slot -> Value] /\ kind \in [Block -> Kind] /\ MaxTemp \in Nat /\ sp \in Nat
      /\ 1 \in 1 .. Width /\ prog.temps \in 0 .. MaxTemp /\ todo.env \in Value
  BY Basics, ControlParts
<1>1. /\ op = "self" /\ Settled /\ ~Building /\ UNCHANGED frames /\ sp < prog.temps
      /\ own' = Put(Put(own, Field(c, 1), todo.env), Temp(sp + 1), c)
      /\ kind' = [kind EXCEPT ![c] = "clos"] /\ kind[c] = "free"
  BY DEF SelfClosure, Doing, op, Building, Free
<1>2. PICK k \in 1 .. MaxTemp, e \in Value : k = sp + 1 /\ e = todo.env
  BY <1>0, <1>1
<1>3. own' = Put(Put(own, Field(c, 1), e), Temp(k), c)
  BY <1>1, <1>2
<1>4. /\ LocalsKept /\ GlobsKept
      /\ \A b \in Block, i \in 1 .. Width :
           own'[Field(b, i)] = IF b = c /\ i = 1 THEN e ELSE own[Field(b, i)]
      /\ \A i \in 1 .. MaxTemp : own'[Temp(i)] = IF i = k THEN c ELSE own[Temp(i)]
  BY <1>0, <1>3, SelfMade
<1>5. kind'[c] = "clos"
  BY <1>0, <1>1
<1>6. e = Nil \/ KindNext(e, "env")
  <2>1. e # Nil => e \in Block /\ kind[e] = "env" /\ e # c
    BY <1>1, <1>2 DEF CInv, EnvKept, Value
  <2> QED
    BY <1>0, <1>1, <2>1 DEF KindNext
<1> QED
  BY <1>1, <1>4, <1>5, <1>6, TypedWrap

(* Every step leaves in each slot what belongs there: cells in scopes, an  *)
(* env in closures, plain values elsewhere.                                *)
LEMMA TypedSteps ==
  ASSUME CInv, [Next]_vars
  PROVE  RootsTyped' /\ FieldsTyped'
<1>0. /\ KindStep /\ own \in [Slot -> Value] /\ kind \in [Block -> Kind]
      /\ sp \in 0 .. MaxTemp /\ MaxTemp \in Nat
      /\ Base \in 0 .. sp /\ frames \in Seq(0 .. MaxTemp) /\ Len(frames) \in Nat /\ Nil \in Value
  <2>1. KindStep
    BY KindSteps
  <2>2. frames \in Seq(0 .. MaxTemp)
    BY ControlParts
  <2> QED
    BY <2>1, <2>2, Basics, Heights
<1>1. ASSUME UNCHANGED <<own, sp, frames, todo>>
      PROVE  RootsTyped' /\ FieldsTyped'
  BY <1>0, <1>1, TypedStay DEF Building, op
<1>2. CASE UNCHANGED vars \/ Abort \/ EndProgram \/ Exit
  BY <1>1, <1>2 DEF vars, heap, Abort, EndProgram, Exit
<1>3. CASE PushConst \/ FallThrough \/ Discard \/ Return \/ OpenCallOnValue
           \/ \E f \in Fn, q \in CaptureList : Define(f, q)
  <2>1. /\ UNCHANGED own /\ UNCHANGED frames /\ Settled /\ op = "none"
    BY <1>3 DEF PushConst, FallThrough, Discard, Return, OpenCallOnValue, Define, heap, Ready,
                Doing, AtStatement, Evaluated, op
  <2> QED
    BY <1>0, <2>1, TypedStay DEF Building
<1>4. CASE Enter
  <2>1. (Len(frames') \in Nat /\ Len(frames') > Len(frames)) \/ UNCHANGED frames
    BY <1>0, <1>4 DEF Enter
  <2>2. UNCHANGED own /\ Settled /\ ~Building
    BY <1>4 DEF Enter, heap, Doing, op, Building
  <2> QED
    BY <1>0, <2>1, <2>2, TypedStay
<1>5. CASE BackInCaller
  <2>1. frames # <<>>
    BY <1>5, ControlParts DEF BackInCaller, Doing, op, Subject, Knows
  <2>2. /\ \A x \in Name : own[Local(Len(frames), x)] = Nil
        /\ Len(frames) > 0 /\ Len(frames') = Len(frames) - 1
    <3>1. frames' = SubSeq(frames, 1, Len(frames) - 1)
      BY <1>5 DEF BackInCaller, depth
    <3> QED
      BY <1>0, <1>5, <2>1, <3>1, Shorter DEF BackInCaller, depth
  <2>3. UNCHANGED own /\ Settled /\ ~Building
    BY <1>5 DEF BackInCaller, heap, Doing, op, Building
  <2> QED
    BY <1>0, <2>2, <2>3, TypedStay
<1>6. ASSUME NEW s \in Slot, Drop(s), UNCHANGED <<sp, frames, todo>>, Building => s # Temp(sp)
      PROVE  RootsTyped' /\ FieldsTyped'
  BY <1>0, <1>6, TypedDrop DEF Drop, Building, op
<1>7. CASE ReleaseOperand
  <2>1. PICK i \in Due : Drop(Temp(i))
    BY <1>7 DEF ReleaseOperand
  <2>2. Temp(i) \in Slot /\ i # sp
    BY <1>0, SlotFamilies DEF Due
  <2>3. Temp(i) # Temp(sp)
    BY <2>2, SameSlot
  <2> QED
    BY <1>6, <1>7, <2>1, <2>2, <2>3 DEF ReleaseOperand
<1>8. CASE RunCascade
  <2>1. CASE ReleaseChild
    <3>1. PICK b \in Block, i \in 1 .. Width : Drop(Field(b, i))
      <4>1. Head(drain) \in Block
        BY <2>1 DEF ReleaseChild, CInv, HeapInv, HeapTypeOK
      <4> QED
        BY <2>1, <4>1 DEF ReleaseChild, Owning
    <3>2. Field(b, i) \in Slot /\ Field(b, i) # Temp(sp)
      BY SlotFamilies, OtherSlot
    <3> QED
      BY <1>6, <1>8, <3>1, <3>2 DEF RunCascade
  <2>2. CASE FreeBlock
    BY <1>1, <1>8, <2>2 DEF FreeBlock, RunCascade
  <2> QED
    BY <1>8, <2>1, <2>2 DEF RunCascade, Cascade
<1>9. CASE ReleaseLocal
  <2>1. PICK x \in Name : Drop(Local(depth, x))
    BY <1>9 DEF ReleaseLocal
  <2>2. op = "return" /\ frames # <<>>
    BY <1>9, ControlParts DEF ReleaseLocal, Doing, op, Subject, Knows
  <2>3. Local(depth, x) \in Slot
    BY <2>2, Heights, SlotFamilies DEF depth, LocalName
  <2> QED
    BY <1>6, <1>9, <2>1, <2>2, <2>3 DEF ReleaseLocal, Building
<1>10. CASE ReleaseGlobal
  <2>1. PICK x \in Name : Drop(Glob(x))
    BY <1>10 DEF ReleaseGlobal
  <2> QED
    BY <1>6, <1>10, <2>1, SlotFamilies, OtherSlot DEF ReleaseGlobal
<1>11. ASSUME NEW b \in Block, PushString(b) PROVE RootsTyped' /\ FieldsTyped'
  <2>1. /\ Settled /\ ~Building /\ sp < prog.temps /\ own' = Put(own, Temp(sp + 1), b)
        /\ sp' = sp + 1 /\ UNCHANGED frames /\ kind' = [kind EXCEPT ![b] = "str"]
    BY <1>11 DEF PushString, Ready, Doing, Building, op, Alloc
  <2>2. ValNext(b) /\ b \in Value
    BY <1>0, <2>1 DEF ValNext, Value
  <2> QED
    BY <1>0, <2>1, <2>2, TypedPush
<1>12. ASSUME NEW x \in Name, LoadVar(x) \/ OpenCall(x) PROVE RootsTyped' /\ FieldsTyped'
  <2>1. PICK s \in Slot : Resolves(x, s) /\ Push(own[s])
    BY <1>12 DEF LoadVar, OpenCall
  <2>2. PICK v \in Value : v = own[s] /\ ValNext(v)
    BY <1>0, <2>1, ResolvedVal, Keeps
  <2>3. /\ Settled /\ ~Building /\ sp < prog.temps /\ own' = Put(own, Temp(sp + 1), v)
        /\ sp' = sp + 1 /\ UNCHANGED frames
    BY <1>12, <2>1, <2>2 DEF LoadVar, OpenCall, Push, Ready, Doing, Building, op
  <2> QED
    BY <1>0, <2>2, <2>3, TypedPush
<1>13. CASE LoadCapture
  <2>1. op = "load"
    BY <1>13 DEF LoadCapture, Doing, op
  <2>2. /\ Field(todo.env, todo.n + 1) \in Slot /\ todo.n + 1 \in 1 .. Width
    BY <1>13, LoadSlot DEF LoadCapture
  <2>3. IsVal(own[Field(todo.env, todo.n + 1)])
    BY <2>1, <2>2, EnvIsLive
  <2>4. PICK v \in Value : v = own[Field(todo.env, todo.n + 1)] /\ ValNext(v)
    BY <1>0, <2>2, <2>3, Keeps
  <2>5. /\ Settled /\ ~Building /\ sp < prog.temps /\ own' = Put(own, Temp(sp + 1), v)
        /\ sp' = sp + 1 /\ UNCHANGED frames
    BY <1>13, <2>1, <2>4 DEF LoadCapture, Push, Doing, Building
  <2> QED
    BY <1>0, <2>4, <2>5, TypedPush
<1>14. ASSUME NEW e \in Block, MakeEnv(e) PROVE RootsTyped' /\ FieldsTyped'
  <2>1. /\ op = "env" /\ Settled /\ ~Building /\ sp < prog.temps /\ own' = Put(own, Temp(sp + 1), e)
        /\ sp' = sp + 1 /\ UNCHANGED frames /\ kind' = [kind EXCEPT ![e] = "env"]
    BY <1>14 DEF MakeEnv, Doing, Building, op, Alloc
  <2>2. Building'
    <3>1. todo' = Do("capture", todo.code, todo.env, todo.n)
      BY <1>14, TodoEdits, ControlParts DEF MakeEnv
    <3> QED
      BY <3>1 DEF Building, op, Do
  <2>3. KindNext(e, "env") /\ e \in Value
    BY <1>0, <2>1 DEF KindNext, Value
  <2> QED
    BY <1>0, <2>1, <2>2, <2>3, TypedPush
<1>15. CASE CaptureNext
  BY <1>0, <1>15, TypedCapture
<1>16. ASSUME NEW c \in Block, MakeClosure(c) PROVE RootsTyped' /\ FieldsTyped'
  BY <1>0, <1>16, TypedClosure
<1>17. ASSUME NEW c \in Block, NEW x \in Name, Assign(x, c) PROVE RootsTyped' /\ FieldsTyped'
  <2>1. /\ Settled /\ ~Building /\ Bind(x, c) /\ sp = Base + 1 /\ sp' = sp - 1 /\ UNCHANGED frames
    BY <1>17 DEF Assign, Evaluated, Ready, Doing, Building, op
  <2> QED
    BY <1>0, <2>1, TypedBind
<1>18. ASSUME NEW c \in Block, BindFn(c) PROVE RootsTyped' /\ FieldsTyped'
  <2>1. /\ op = "bind" /\ Settled /\ ~Building /\ Bind(todo.code.fn, c) /\ sp' = sp - 1
        /\ UNCHANGED frames
    BY <1>18 DEF BindFn, Doing, Building, op
  <2>2. sp = Base + 1 /\ todo.code.fn \in Name
    BY <2>1, ControlParts, SubjectIs DEF Position, Place
  <2> QED
    BY <1>0, <2>1, <2>2, TypedBind
<1>19. ASSUME NEW x \in Name, Reassign(x) PROVE RootsTyped' /\ FieldsTyped'
  BY <1>0, <1>19, TypedReassign
<1>20. CASE Call
  BY <1>0, <1>20, TypedCall
<1>21. ASSUME NEW c \in Block, SelfClosure(c) PROVE RootsTyped' /\ FieldsTyped'
  BY <1>0, <1>21, TypedSelf
<1>22. ASSUME NEW c \in Block, BindSelf(c) \/ BindCapture(c) \/ BindParam(c)
       PROVE  RootsTyped' /\ FieldsTyped'
  <2>1. PICK x \in Name : /\ Insert(x, c) /\ sp >= 1 /\ Len(frames) > 0
    BY <1>22, EntryBinds DEF BindSelf, BindCapture, BindParam
  <2>2. Settled /\ ~Building /\ UNCHANGED frames
    BY <1>22 DEF BindSelf, BindCapture, BindParam, Doing, Building, op
  <2> QED
    BY <1>0, <2>1, <2>2, TypedInsert
<1> QED
  BY <1>2, <1>3, <1>4, <1>5, <1>7, <1>8, <1>9, <1>10, <1>11, <1>12, <1>13, <1>14, <1>15, <1>16,
     <1>17, <1>18, <1>19, <1>20, <1>21, <1>22 DEF Next
(***************************************************************************)
(* The env that is being built, and the env of a body that is entered.     *)
(***************************************************************************)

\* A release on the way: only references above the operands and those of
\* blocks that nobody refers to any more are given back.
Releasing == ReleaseOperand \/ RunCascade

Kept(b) ==
  /\ \A i \in 1 .. Width : own'[Field(b, i)] = own[Field(b, i)]
  /\ len'[b] = len[b]

(* What a step of a release leaves alone.                                  *)
LEMMA Released ==
  ASSUME CInv, Releasing
  PROVE  /\ UNCHANGED <<sp, calls, frames, todo, status, prog>>
         /\ \A s \in Slot : own'[s] = own[s] \/ own'[s] = Nil
         /\ \A i \in 1 .. sp : own'[Temp(i)] = own[Temp(i)]
         /\ LocalsKept /\ GlobsKept
         /\ \A b \in Block : rc[b] # 0 => Kept(b)
         /\ \A b \in Block : /\ rc'[b] # 0 => rc[b] # 0
                             /\ kind'[b] \in {kind[b], "free"}
                             /\ code'[b] = code[b] \/ kind'[b] = "free"
<1>0. /\ own \in [Slot -> Value] /\ kind \in [Block -> Kind] /\ rc \in [Block -> Nat]
      /\ len \in [Block -> 0 .. Width] /\ sp \in 0 .. MaxTemp /\ MaxTemp \in Nat
      /\ code \in [Block -> Code] /\ Nil \in Value /\ drain \in Seq(Block) /\ HeapInv
  BY Basics, ControlParts DEF CInv, HeapInv, HeapTypeOK
<1>1. UNCHANGED <<sp, calls, frames, todo, status, prog>>
  BY DEF Releasing, ReleaseOperand, RunCascade
<1>2. CASE ReleaseOperand
  <2>1. PICK k \in sp + 1 .. MaxTemp : Drop(Temp(k))
    BY <1>2 DEF ReleaseOperand, Due
  <2>2. k \in 1 .. MaxTemp /\ k > sp
    BY <1>0, <2>1
  <2>3. own' = Put(own, Temp(k), Nil)
    BY <2>1 DEF Drop
  <2>4. /\ LocalsKept /\ GlobsKept /\ FieldsKept
        /\ \A i \in 1 .. MaxTemp : own'[Temp(i)] = IF i = k THEN Nil ELSE own[Temp(i)]
    BY <1>0, <2>2, <2>3, TempPut
  <2>5. \A i \in 1 .. sp : own'[Temp(i)] = own[Temp(i)]
    BY <1>0, <2>2, <2>4
  <2>6. \A s \in Slot : own'[s] = own[s] \/ own'[s] = Nil
    BY <1>0, <2>3 DEF Put
  <2>7. UNCHANGED <<kind, len, code>> /\ own[Temp(k)] \in Block
        /\ rc' = [rc EXCEPT ![own[Temp(k)]] = @ - 1]
    BY <1>2, <2>1 DEF Drop, ReleaseOperand
  <2>8. \A b \in Block : rc'[b] # 0 => rc[b] # 0
    <3>1. rc[own[Temp(k)]] # 0
      <4>1. Temp(k) \in Slot
        BY <2>2, SlotFamilies
      <4>2. rc[own[Temp(k)]] >= 1
        BY <1>0, <2>7, <4>1, OwnedIsLive
      <4> QED
        BY <1>0, <2>7, <4>2
    <3> QED
      BY <1>0, <2>7, <3>1
  <2> QED
    BY <1>1, <2>4, <2>5, <2>6, <2>7, <2>8 DEF FieldsKept, Kept
<1>3. CASE RunCascade
  <2>1. /\ drain # <<>> => Head(drain) \in Block /\ rc[Head(drain)] = 0
        /\ code' = [b \in Block |-> IF kind'[b] = "free" THEN NoCode ELSE code[b]]
    <3>1. drain # <<>> => Head(drain) = drain[1] /\ 1 \in 1 .. Len(drain) /\ Head(drain) \in Block
      BY <1>0
    <3> QED
      BY <1>0, <1>3, <3>1 DEF RunCascade, HeapInv, DrainIsDead
  <2>2. CASE ReleaseChild
    <3>1. PICK h \in Block, k \in 1 .. Width : rc[h] = 0 /\ Drop(Field(h, k))
      BY <2>1, <2>2 DEF ReleaseChild, Owning
    <3>2. own' = Put(own, Field(h, k), Nil)
      BY <3>1 DEF Drop
    <3>3. /\ LocalsKept /\ GlobsKept /\ TempsKept
          /\ \A c \in Block, i \in 1 .. Width :
               own'[Field(c, i)] = IF c = h /\ i = k THEN Nil ELSE own[Field(c, i)]
      BY <1>0, <3>2, FieldPut
    <3>4. \A i \in 1 .. sp : own'[Temp(i)] = own[Temp(i)]
      BY <1>0, <3>3 DEF TempsKept
    <3>5. \A s \in Slot : own'[s] = own[s] \/ own'[s] = Nil
      BY <1>0, <3>2 DEF Put
    <3>6. UNCHANGED <<kind, len>> /\ own[Field(h, k)] \in Block
          /\ rc' = [rc EXCEPT ![own[Field(h, k)]] = @ - 1]
      BY <3>1 DEF Drop
    <3>7. \A b \in Block : rc'[b] # 0 => rc[b] # 0
      <4>1. Field(h, k) \in Slot /\ rc[own[Field(h, k)]] # 0
        BY <1>0, <3>6, SlotFamilies, OwnedIsLive
      <4> QED
        BY <1>0, <3>6, <4>1
    <3> QED
      BY <1>1, <2>1, <3>1, <3>3, <3>4, <3>5, <3>6, <3>7 DEF Kept
  <2>3. CASE FreeBlock
    <3>1. PICK h \in Block : /\ rc[h] = 0 /\ kind' = [kind EXCEPT ![h] = "free"]
                             /\ len' = [len EXCEPT ![h] = 0] /\ UNCHANGED <<rc, own>>
      BY <2>1, <2>3 DEF FreeBlock
    <3>2. \A b \in Block : kind'[b] \in {kind[b], "free"} /\ (b # h => len'[b] = len[b])
      BY <1>0, <3>1
    <3> QED
      BY <1>1, <2>1, <3>1, <3>2 DEF Kept, LocalsKept, GlobsKept
  <2> QED
    BY <1>3, <2>2, <2>3 DEF RunCascade, Cascade
<1> QED
  BY <1>2, <1>3 DEF Releasing

\* The steps of a definition.
Definition == {"env", "capture", "closure", "bind"}

(* Only the steps of a definition are about one, but for releases on the   *)
(* way.                                                                    *)
LEMMA DefinitionSteps ==
  ASSUME CInv, [Next]_vars
  PROVE  \/ op' \notin Definition
         \/ UNCHANGED <<heap, sp, frames, todo>>
         \/ Releasing
         \/ \E f \in Fn, q \in CaptureList : Define(f, q)
         \/ \E e \in Block : MakeEnv(e)
         \/ CaptureNext
         \/ \E c \in Block : MakeClosure(c)
<1>0. status \in {"ending", "ended"} => op = "none"
  BY DEF CInv, Control, Final
<1>1. CASE op = "none" /\ UNCHANGED todo
  BY <1>1 DEF op, Definition
<1>2. CASE \/ PushConst \/ Discard \/ OpenCallOnValue \/ EndProgram
           \/ (\E b \in Block : PushString(b))
           \/ (\E x \in Name : LoadVar(x) \/ OpenCall(x) \/ Reassign(x))
           \/ (\E x \in Name, c \in Block : Assign(x, c))
  <2>1. op = "none" /\ UNCHANGED todo
    BY <1>2 DEF PushConst, Discard, OpenCallOnValue, EndProgram, PushString, LoadVar, OpenCall,
                Reassign, Assign, Evaluated, AtStatement, Ready, Doing, op
  <2> QED
    BY <1>1, <2>1
<1>3. CASE ReleaseGlobal \/ Exit
  BY <1>0, <1>1, <1>3 DEF ReleaseGlobal, Exit
<1>4. CASE ReleaseLocal
  <2>1. op' = "return"
    BY <1>4 DEF ReleaseLocal, Doing, op
  <2> QED
    BY <2>1 DEF Definition
<1>5. CASE Abort \/ UNCHANGED vars
  BY <1>5 DEF Abort, vars
<1>6. CASE (\E c \in Block : BindFn(c) \/ BindParam(c)) \/ BackInCaller
  <2>1. op' = "none"
    BY <1>6 DEF BindFn, BindParam, BackInCaller, Idle, Do, op
  <2> QED
    BY <2>1 DEF Definition
<1>7. CASE Call
  <2>1. op' = "enter"
    BY <1>7 DEF Call, Do, op
  <2> QED
    BY <2>1 DEF Definition
<1>8. CASE Enter
  <2>1. op' \in {"enter", "self"}
    <3>1. todo' = todo \/ todo' = [todo EXCEPT !.op = "self"]
      BY <1>8 DEF Enter
    <3>2. todo' = todo \/ todo' = Do("self", todo.code, todo.env, todo.n)
      BY <3>1, TodoEdits, ControlParts
    <3> QED
      BY <1>8, <3>2 DEF Enter, Doing, op, Do
  <2> QED
    BY <2>1 DEF Definition
<1>9. CASE (\E c \in Block : SelfClosure(c)) \/ LoadCapture
  <2>1. op' \in {"bindself", "bindload"}
    <3>1. todo' = Do("bindself", todo.code, todo.env, todo.n)
          \/ todo' = Do("bindload", todo.code, todo.env, todo.n)
      BY <1>9, TodoEdits, ControlParts DEF SelfClosure, LoadCapture
    <3> QED
      BY <3>1 DEF op, Do
  <2> QED
    BY <2>1 DEF Definition
<1>10. CASE \E c \in Block : BindSelf(c) \/ BindCapture(c)
  <2>1. PICK m : todo' = NextEntry(m)
    BY <1>10 DEF BindSelf, BindCapture
  <2>2. todo' \in {Do("load", todo.code, todo.env, m), Idle, Do("param", todo.code, todo.env, 0)}
    BY <2>1, TodoEdits, ControlParts DEF NextEntry
  <2>3. op' \in {"load", "none", "param"}
    BY <2>2 DEF op, Do, Idle
  <2> QED
    BY <2>3 DEF Definition
<1>11. CASE Return \/ FallThrough
  <2>1. op' = "return"
    BY <1>11, TodoEdits, ControlParts DEF Return, FallThrough, Do, op
  <2> QED
    BY <2>1 DEF Definition
<1> QED
  BY <1>2, <1>3, <1>4, <1>5, <1>6, <1>7, <1>8, <1>9, <1>10, <1>11 DEF Next, Releasing


(* While an env is built nothing else refers to it, and the variables it   *)
(* takes its captures from stay in their scope.  A release on the way:     *)
LEMMA BuiltReleasing ==
  ASSUME CInv, KindStep, Releasing
  PROVE  BuiltAlone'
<1>0. /\ own \in [Slot -> Value] /\ rc \in [Block -> Nat] /\ MaxTemp \in Nat
      /\ sp \in 0 .. MaxTemp /\ Nil \notin Block /\ Nil \in Value
      /\ Len(frames) \in 0 .. MaxDepth /\ HeapInv /\ 1 \in 1 .. Width
  BY Basics DEF CInv
<1>1. /\ UNCHANGED <<sp, frames, todo>>
      /\ \A s \in Slot : own'[s] = own[s] \/ own'[s] = Nil
      /\ \A i \in 1 .. sp : own'[Temp(i)] = own[Temp(i)]
      /\ LocalsKept
      /\ \A b \in Block : rc[b] # 0 => Kept(b)
  BY Released
<1>2. op \in Definition \ {"env"} /\ (op = "closure" => Building) =>
        sp \in 1 .. MaxTemp /\ Temp(sp) \in Slot /\ own'[Temp(sp)] = own[Temp(sp)]
  <2>1. op \in Definition \ {"env"} /\ (op = "closure" => Building) => sp = Base + 1
    BY ControlParts DEF Position, Place, Building, Definition
  <2> QED
    BY <1>0, <1>1, <2>1, Heights, SlotFamilies
<1>3. UNCHANGED <<op, Building>>
  BY <1>1 DEF op, Building
<1>4. ASSUME Building
      PROVE  /\ KindNext(own'[Temp(sp)], "env")
             /\ \A s \in Slot : own'[s] = own'[Temp(sp)] => s = Temp(sp)
             /\ own[Temp(sp)] \in Block /\ Kept(own[Temp(sp)])
  <2>1. Temp(sp) \in Slot /\ own'[Temp(sp)] = own[Temp(sp)]
    BY <1>2, <1>4 DEF Building, Definition
  <2>2. /\ IsKind(own[Temp(sp)], "env") /\ own[Temp(sp)] \in Block
        /\ \A s \in Slot : own[s] = own[Temp(sp)] => s = Temp(sp)
    BY <1>4 DEF CInv, BuiltAlone, IsKind
  <2>3. KindNext(own'[Temp(sp)], "env")
    BY <2>1, <2>2, Keeps
  <2>4. rc[own[Temp(sp)]] # 0
    BY <1>0, <2>1, <2>2, OwnedIsLive
  <2>5. ASSUME NEW s \in Slot, own'[s] = own'[Temp(sp)] PROVE s = Temp(sp)
    BY <1>0, <1>1, <2>1, <2>2, <2>5
  <2> QED
    BY <1>1, <2>2, <2>3, <2>4, <2>5
<1>5. ASSUME op = "capture"
      PROVE  /\ len'[own'[Temp(sp)]] < Len(todo.code.caps)
             /\ \A i \in 1 .. Width :
                  i > len'[own'[Temp(sp)]] => own'[Field(own'[Temp(sp)], i)] = Nil
  <2>1. Building /\ own'[Temp(sp)] = own[Temp(sp)]
    BY <1>2, <1>5 DEF Building, Definition
  <2>2. Kept(own[Temp(sp)])
    BY <1>4, <2>1
  <2> QED
    BY <1>5, <2>1, <2>2 DEF CInv, BuiltAlone, Kept
<1>6. ASSUME op \in {"env", "capture"}
      PROVE  /\ Len(frames) > 0
             /\ \A i \in 1 .. Len(todo.code.caps) :
                  own'[Local(Len(frames), todo.code.caps[i])] # Nil
  <2>1. /\ Len(frames) > 0
        /\ \A i \in 1 .. Len(todo.code.caps) : own[Local(Len(frames), todo.code.caps[i])] # Nil
    BY <1>6 DEF CInv, BuiltAlone
  <2>2. \A i \in 1 .. Len(todo.code.caps) : todo.code.caps[i] \in LocalName
    <3>1. todo.code.caps \in Seq(Name)
      BY <1>6, SubjectIs
    <3> QED
      BY <3>1, ElementOfSeq DEF LocalName
  <2>3. Len(frames) \in 1 .. MaxDepth
    BY <1>0, <2>1
  <2> QED
    BY <1>1, <2>1, <2>2, <2>3 DEF LocalsKept
<1>7. op = "bind" => own'[Temp(sp)] # Nil
  BY <1>2 DEF CInv, BuiltAlone, Definition
<1>8. UNCHANGED <<sp, frames, todo, op>> /\ (Building' <=> Building)
  BY <1>1, <1>3
<1> QED
  BY <1>4, <1>5, <1>6, <1>7, <1>8 DEF BuiltAlone, KindNext, IsKind

(* An env is allocated.                                                    *)
LEMMA BuiltEnv ==
  ASSUME CInv, NEW e \in Block, MakeEnv(e)
  PROVE  BuiltAlone'
<1>0. /\ own \in [Slot -> Value] /\ kind \in [Block -> Kind] /\ MaxTemp \in Nat
      /\ len \in [Block -> 0 .. Width]
      /\ sp \in 0 .. MaxTemp /\ prog.temps \in 0 .. MaxTemp
      /\ HeapInv /\ Nil \notin Block /\ e \in Value /\ Len(frames) \in 0 .. MaxDepth
  BY Basics DEF CInv, Value
<1>1. /\ op = "env" /\ sp < prog.temps /\ kind[e] = "free"
      /\ kind' = [kind EXCEPT ![e] = "env"] /\ len' = [len EXCEPT ![e] = 0]
      /\ own' = Put(own, Temp(sp + 1), e) /\ sp' = sp + 1
      /\ UNCHANGED frames
      /\ todo' = Do("capture", todo.code, todo.env, todo.n)
  BY TodoEdits, ControlParts DEF MakeEnv, Doing, op, Alloc, Free
<1>2. PICK k \in 1 .. MaxTemp : k = sp + 1
  BY <1>0, <1>1
<1>3. own' = Put(own, Temp(k), e)
  BY <1>1, <1>2
<1>4. /\ LocalsKept /\ FieldsKept
      /\ \A i \in 1 .. MaxTemp : own'[Temp(i)] = IF i = k THEN e ELSE own[Temp(i)]
  BY <1>0, <1>3, TempPut
<1>5. \A s \in Slot : own'[s] = e => s = Temp(k)
  <2>1. \A s \in Slot : own[s] # e
    BY <1>0, <1>1, FreeIsUnreferenced
  <2> QED
    BY <1>0, <1>3, <2>1 DEF Put
<1>6. own'[Temp(sp')] = e /\ kind'[e] = "env" /\ len'[e] = 0
  BY <1>0, <1>1, <1>2, <1>4
<1>7. todo.code.caps \in Seq(Name) /\ todo.code.caps # <<>>
  BY <1>1, SubjectIs, ControlParts DEF Subject, Knows
<1>8. \A i \in 1 .. Width : own'[Field(e, i)] = Nil
  BY <1>0, <1>1, <1>4 DEF HeapInv, FreeOwnsNothing, FieldsKept
<1>9. /\ Len(frames) > 0
      /\ \A i \in 1 .. Len(todo.code.caps) : own'[Local(Len(frames), todo.code.caps[i])] # Nil
  <2>1. /\ Len(frames) > 0
        /\ \A i \in 1 .. Len(todo.code.caps) : own[Local(Len(frames), todo.code.caps[i])] # Nil
    BY <1>1 DEF CInv, BuiltAlone
  <2>2. \A i \in 1 .. Len(todo.code.caps) : todo.code.caps[i] \in LocalName
    BY <1>7, ElementOfSeq DEF LocalName
  <2>3. Len(frames) \in 1 .. MaxDepth
    BY <1>0, <2>1
  <2> QED
    BY <1>4, <2>1, <2>2, <2>3 DEF LocalsKept
<1>10. op' = "capture" /\ todo'.code = todo.code /\ Len(todo.code.caps) > 0
  BY <1>1, <1>7 DEF Do, op
<1>11. Temp(sp') = Temp(k)
  BY <1>1, <1>2
<1> QED
  BY <1>1, <1>5, <1>6, <1>8, <1>9, <1>10, <1>11 DEF BuiltAlone, IsKind, Building

(* A capture goes into it.                                                 *)
LEMMA BuiltCapture ==
  ASSUME CInv, KindStep, CaptureNext
  PROVE  BuiltAlone'
<1>0. /\ own \in [Slot -> Value] /\ kind \in [Block -> Kind] /\ MaxTemp \in Nat
      /\ len \in [Block -> 0 .. Width]
      /\ sp \in 0 .. MaxTemp /\ Nil \notin Block /\ Len(frames) \in 0 .. MaxDepth
      /\ Doing("capture") /\ op = "capture" /\ Building
  BY Basics DEF CaptureNext, Doing, op, Building
<1>1. PICK e, i, v : e = Top /\ i = len[e] + 1 /\ v = Captured(todo.code.caps[i])
  OBVIOUS
<1>2. /\ e \in Block /\ kind[e] = "env" /\ i \in 1 .. Width /\ i \in 1 .. Len(todo.code.caps)
      /\ v \in Value /\ IsVal(v)
  BY <1>0, <1>1, CaptureSlots
<1>3. /\ own' = Put(own, Field(e, i), v) /\ len' = [len EXCEPT ![e] = i]
      /\ UNCHANGED <<kind, sp, frames>>
      /\ todo' = [todo EXCEPT !.op = IF i = Len(todo.code.caps) THEN "closure" ELSE "capture"]
  BY <1>1 DEF CaptureNext
<1>4. PICK o : /\ o = IF i = Len(todo.code.caps) THEN "closure" ELSE "capture"
               /\ todo' = [todo EXCEPT !.op = o]
  BY <1>3
<1>5. op' = o /\ todo'.code = todo.code
  <2>1. todo' = Do(o, todo.code, todo.env, todo.n)
    BY <1>4, TodoEdits, ControlParts
  <2> QED
    BY <2>1 DEF Do, op
<1>6. /\ LocalsKept /\ TempsKept
      /\ \A c \in Block, j \in 1 .. Width :
           own'[Field(c, j)] = IF c = e /\ j = i THEN v ELSE own[Field(c, j)]
  BY <1>0, <1>2, <1>3, FieldPut
<1>7. sp \in 1 .. MaxTemp /\ Temp(sp) \in Slot /\ own'[Temp(sp)] = e /\ own[Temp(sp)] = e
  <2>1. sp = Base + 1
    BY <1>0, ControlParts DEF Position, Place
  <2>2. sp \in 1 .. MaxTemp /\ Temp(sp) \in Slot
    BY <1>0, <2>1, Heights, SlotFamilies
  <2> QED
    BY <1>1, <1>6, <2>2 DEF TempsKept, Top
<1>8. \A s \in Slot : own'[s] = e => s = Temp(sp)
  <2>1. \A s \in Slot : own[s] = e => s = Temp(sp)
    BY <1>0, <1>7 DEF CInv, BuiltAlone
  <2>2. v # e
    BY <1>2, <1>0 DEF IsVal, IsKind
  <2> QED
    BY <1>0, <1>3, <2>1, <2>2 DEF Put
<1>9. todo.code.caps \in Seq(Name) /\ Len(todo.code.caps) \in Nat
  BY <1>0, SubjectIs
<1>10. op' = "capture" => i < Len(todo.code.caps)
  BY <1>2, <1>4, <1>5, <1>9
<1>11. len'[e] = i /\ \A j \in 1 .. Width : j > i => own'[Field(e, j)] = Nil
  <2>1. \A j \in 1 .. Width : j > len[e] => own[Field(e, j)] = Nil
    BY <1>0, <1>7 DEF CInv, BuiltAlone
  <2>2. len[e] \in 0 .. Width
    BY <1>0, <1>2
  <2> QED
    BY <1>0, <1>1, <1>2, <1>3, <1>6, <2>1, <2>2
<1>12. /\ Len(frames) > 0
       /\ \A j \in 1 .. Len(todo.code.caps) : own'[Local(Len(frames), todo.code.caps[j])] # Nil
  <2>1. /\ Len(frames) > 0
        /\ \A j \in 1 .. Len(todo.code.caps) : own[Local(Len(frames), todo.code.caps[j])] # Nil
    BY <1>0 DEF CInv, BuiltAlone
  <2>2. \A j \in 1 .. Len(todo.code.caps) : todo.code.caps[j] \in LocalName
    BY <1>9, ElementOfSeq DEF LocalName
  <2>3. Len(frames) \in 1 .. MaxDepth
    BY <1>0, <2>1
  <2> QED
    BY <1>6, <2>1, <2>2, <2>3 DEF LocalsKept
<1>13. op' \in {"closure", "capture"}
  BY <1>4, <1>5
<1> QED
  BY <1>2, <1>3, <1>5, <1>7, <1>8, <1>10, <1>11, <1>12, <1>13 DEF BuiltAlone, IsKind

(* Every step keeps the env that is built private.                         *)
LEMMA BuiltSteps ==
  ASSUME CInv, [Next]_vars
  PROVE  BuiltAlone'
<1>0. KindStep
  BY KindSteps
<1>1. CASE op' \notin Definition
  BY <1>1 DEF BuiltAlone, Building, Definition
<1>2. CASE UNCHANGED <<heap, sp, frames, todo>>
  <2>1. BuiltAlone
    BY DEF CInv
  <2>2. UNCHANGED <<own, kind, len, sp, frames, todo>>
    BY <1>2 DEF heap
  <2> QED
    BY <2>1, <2>2 DEF BuiltAlone, Building, IsKind, op
<1>3. ASSUME NEW f \in Fn, NEW q \in CaptureList, Define(f, q)
      PROVE  BuiltAlone'
  <2>1. PICK o : /\ o = IF q = <<>> THEN "closure" ELSE "env"
                 /\ todo' = Do(o, [fn |-> f, caps |-> q], Nil, 0)
    BY <1>3 DEF Define
  <2>2. op' = o /\ todo'.code.caps = q
    BY <2>1 DEF Do, op
  <2>3. UNCHANGED <<own, frames>>
    BY <1>3 DEF Define, heap
  <2>4. q # <<>> => Len(frames) > 0
    <3>1. q # <<>> => 1 \in 1 .. Len(q)
      <4>1. PICK n \in 0 .. Width : q \in [1 .. n -> Name]
        BY DEF CaptureList
      <4>2. q = [i \in 1 .. n |-> q[i]] /\ n \in Nat /\ Len(q) = n
        BY <4>1, Basics
      <4>3. n = 0 => q = <<>>
        BY <4>2
      <4> QED
        BY <4>2, <4>3
    <3> QED
      BY <1>3, <3>1 DEF Define, depth
  <2>5. \A i \in 1 .. Len(q) : own[Local(Len(frames), q[i])] # Nil
    BY <1>3 DEF Define, depth
  <2> QED
    BY <2>1, <2>2, <2>3, <2>4, <2>5 DEF BuiltAlone, Building
<1>4. ASSUME NEW c \in Block, MakeClosure(c)
      PROVE  BuiltAlone'
  <2>0. /\ own \in [Slot -> Value] /\ MaxTemp \in Nat /\ sp \in 0 .. MaxTemp
        /\ prog.temps \in 0 .. MaxTemp /\ 1 \in 1 .. Width /\ Nil \notin Block /\ c \in Value
    BY Basics DEF Value
  <2>1. op = "closure" /\ op' = "bind"
    <3>1. todo' = Do("bind", todo.code, todo.env, todo.n)
      BY <1>4, TodoEdits, ControlParts DEF MakeClosure
    <3> QED
      BY <1>4, <3>1 DEF MakeClosure, Doing, op, Do
  <2>2. own'[Temp(sp')] = c
    <3>1. CASE todo.code.caps = <<>>
      <4>1. PICK k \in 1 .. MaxTemp : k = sp + 1 /\ sp < prog.temps
        BY <1>4, <2>0, <3>1 DEF MakeClosure
      <4>2. own' = Put(own, Temp(k), c) /\ sp' = k
        BY <1>4, <3>1, <4>1 DEF MakeClosure
      <4> QED
        BY <2>0, <4>1, <4>2, TempPut
    <3>2. CASE todo.code.caps # <<>>
      <4>1. sp = Base + 1
        BY <2>1, <3>2, ControlParts DEF Position, Place
      <4>2. PICK k \in 1 .. MaxTemp : k = sp
        BY <2>0, <4>1, Heights
      <4>3. own' = Put(Exchange(own, Temp(k), Field(c, 1)), Temp(k), c) /\ sp' = k
        BY <1>4, <3>2, <4>2 DEF MakeClosure
      <4> QED
        BY <2>0, <4>3, Wrapped
    <3> QED
      BY <3>1, <3>2
  <2> QED
    BY <2>0, <2>1, <2>2 DEF BuiltAlone, Building
<1> QED
  BY <1>0, <1>1, <1>2, <1>3, <1>4, DefinitionSteps, BuiltReleasing, BuiltEnv, BuiltCapture

(***************************************************************************)
(* Closures have the env they need.                                        *)
(***************************************************************************)

\* A block that is a closure was that closure before.
SameClosure(b) ==
  kind'[b] = "clos" /\ rc'[b] # 0 =>
    /\ kind[b] = "clos" /\ rc[b] # 0 /\ code'[b] = code[b]
    /\ own'[Field(b, 1)] = own[Field(b, 1)]

\* A closure that has what it needs.
Equipped(b) == code'[b].fn \in Fn /\ (code'[b].caps # <<>> => own'[Field(b, 1)] # Nil)

(* A block that is a closure, the same or a new one.                       *)
LEMMA WholeWhen ==
  ASSUME CInv, \A b \in Block : SameClosure(b) \/ Equipped(b)
  PROVE  ClosuresWhole'
<1> SUFFICES ASSUME NEW b \in Block, kind'[b] = "clos", rc'[b] # 0
             PROVE  Equipped(b)
  BY DEF ClosuresWhole, Equipped
<1>1. CASE SameClosure(b)
  BY <1>1 DEF SameClosure, Equipped, CInv, HasEnv, ClosuresWhole
<1> QED
  BY <1>1

(* The callees of the open calls are below what a step writes.             *)
LEMMA CalleesStay ==
  ASSUME CInv, KindStep, UNCHANGED calls,
         \A j \in 1 .. Len(calls) : own'[Temp(calls[j])] = own[Temp(calls[j])]
  PROVE  CalleesAre'
<1>1. ASSUME NEW j \in 1 .. Len(calls)
      PROVE  KindNext(own[Temp(calls[j])], "clos")
  <2>1. Temp(calls[j]) \in Slot
    BY Heights, SlotFamilies
  <2>2. IsKind(own[Temp(calls[j])], "clos")
    BY DEF CInv, HasEnv, CalleesAre
  <2> QED
    BY <2>1, <2>2, Keeps
<1> QED
  BY <1>1 DEF CalleesAre, KindNext, IsKind

\* The temporaries but one are as they were, and closures are whole.
WrittenAt(k) ==
  /\ \A i \in 1 .. MaxTemp : i # k => own'[Temp(i)] = own[Temp(i)]
  /\ \A b \in Block : SameClosure(b) \/ Equipped(b)

(* A step that writes a temporary above the open calls.                    *)
LEMMA WholeAt ==
  ASSUME CInv, KindStep, UNCHANGED calls, NEW k, WrittenAt(k),
         \A j \in 1 .. Len(calls) : calls[j] # k
  PROVE  ClosuresWhole' /\ CalleesAre'
<1>1. \A j \in 1 .. Len(calls) : own'[Temp(calls[j])] = own[Temp(calls[j])]
  BY Heights DEF WrittenAt
<1> QED
  BY <1>1, WholeWhen, CalleesStay DEF WrittenAt

(* No open call has its callee above the operands, nor above those of the  *)
(* caller while a statement is executed or a body entered.                 *)
LEMMA AboveCalls ==
  ASSUME CInv
  PROVE  /\ \A j \in 1 .. Len(calls) : calls[j] # sp + 1
         /\ (Floor = Base \/ op \notin {"none", "enter"}) /\ sp > Base =>
              \A j \in 1 .. Len(calls) : calls[j] # sp
<1>1. \A j \in 1 .. Len(calls) : calls[j] \in Nat /\ calls[j] <= sp /\ sp \in Nat /\ Base \in Nat
  <2>1. sp \in Nat /\ Base \in Nat /\ MaxTemp \in Nat
    BY Heights, Basics
  <2>2. \A j \in 1 .. Len(calls) : calls[j] <= sp
    BY ControlParts DEF Stack
  <2>3. \A j \in 1 .. Len(calls) : calls[j] \in Nat
    BY <2>1, Heights
  <2> QED
    BY <2>1, <2>2, <2>3
<1>2. Floor = Base \/ op \notin {"none", "enter"} => \A j \in 1 .. Len(calls) : calls[j] <= Base
  BY NoOpenCall
<1> QED
  BY <1>1, <1>2

(* A retained value had an owner already.                                  *)
LEMMA RetainedBefore ==
  ASSUME CInv, NEW s \in Slot, rc' = Retain(own[s]), NEW b \in Block, rc'[b] # 0
  PROVE  rc[b] # 0
<1>1. rc \in [Block -> Nat] /\ HeapInv
  BY Basics DEF CInv
<1>2. CASE own[s] \in Block
  <2>1. rc[own[s]] >= 1
    BY <1>1, <1>2, OwnedIsLive
  <2> QED
    BY <1>1, <1>2, <2>1 DEF Retain
<1>3. CASE own[s] \notin Block
  BY <1>3 DEF Retain
<1> QED
  BY <1>2, <1>3

(* A value is pushed.                                                      *)
LEMMA WrittenPush ==
  ASSUME CInv, NEW s \in Slot, Push(own[s]), UNCHANGED code
  PROVE  WrittenAt(sp + 1) /\ FieldsKept /\ LocalsKept
<1>0. own \in [Slot -> Value] /\ sp \in 0 .. MaxTemp /\ prog.temps \in 0 .. MaxTemp
      /\ MaxTemp \in Nat /\ 1 \in 1 .. Width
  BY Basics
<1>1. PICK k \in 1 .. MaxTemp, v \in Value : k = sp + 1 /\ v = own[s]
  BY <1>0 DEF Push
<1>2. own' = Put(own, Temp(k), v) /\ rc' = Retain(own[s]) /\ UNCHANGED kind
  BY <1>1 DEF Push
<1>3. /\ LocalsKept /\ FieldsKept
      /\ \A i \in 1 .. MaxTemp : own'[Temp(i)] = IF i = k THEN v ELSE own[Temp(i)]
  BY <1>0, <1>2, TempPut
<1>4. \A b \in Block : SameClosure(b)
  BY <1>0, <1>2, <1>3, RetainedBefore DEF SameClosure, FieldsKept
<1> QED
  BY <1>1, <1>3, <1>4 DEF WrittenAt

(* A block of another kind is allocated.                                   *)
LEMMA OtherKind ==
  ASSUME CInv, NEW c \in Block, NEW k, NEW n, Alloc(c, k, n), k # "clos", UNCHANGED code,
         \A b \in Block \ {c} : own'[Field(b, 1)] = own[Field(b, 1)]
  PROVE  \A b \in Block : SameClosure(b)
<1>1. kind \in [Block -> Kind] /\ rc \in [Block -> Nat]
  BY Basics
<1>2. kind' = [kind EXCEPT ![c] = k] /\ rc' = [rc EXCEPT ![c] = 1]
  BY DEF Alloc
<1> QED
  BY <1>1, <1>2 DEF SameClosure

(* A fresh block is pushed.                                                *)
LEMMA WrittenFresh ==
  ASSUME CInv, NEW c \in Block, NEW t, Alloc(c, t, 0), t # "clos", UNCHANGED code,
         sp < prog.temps, own' = Put(own, Temp(sp + 1), c)
  PROVE  WrittenAt(sp + 1)
<1>0. own \in [Slot -> Value] /\ sp \in 0 .. MaxTemp /\ prog.temps \in 0 .. MaxTemp
      /\ MaxTemp \in Nat /\ 1 \in 1 .. Width /\ c \in Value
  BY Basics DEF Value
<1>1. PICK k \in 1 .. MaxTemp : k = sp + 1
  BY <1>0
<1>2. own' = Put(own, Temp(k), c)
  BY <1>1
<1>3. /\ FieldsKept
      /\ \A i \in 1 .. MaxTemp : own'[Temp(i)] = IF i = k THEN c ELSE own[Temp(i)]
  BY <1>0, <1>2, TempPut
<1>4. \A b \in Block : SameClosure(b)
  BY <1>0, <1>3, OtherKind DEF FieldsKept
<1> QED
  BY <1>1, <1>3, <1>4 DEF WrittenAt

(* A variable is bound, in a cell of its own or as a global.               *)
LEMMA WrittenBind ==
  ASSUME CInv, NEW x \in Name, NEW c \in Block, Bind(x, c), sp >= 1, UNCHANGED code
  PROVE  WrittenAt(sp)
<1>0. /\ own \in [Slot -> Value] /\ sp \in 1 .. MaxTemp /\ MaxTemp \in Nat /\ 1 \in 1 .. Width
      /\ Len(frames) \in 0 .. MaxDepth
  BY Basics
<1>1. PICK k \in 1 .. MaxTemp, d \in Nat : k = sp /\ d = Len(frames)
  BY <1>0
<1>2. CASE d = 0
  <2>1. own' = Exchange(own, Temp(k), Glob(x)) /\ UNCHANGED <<kind, rc>>
    BY <1>1, <1>2 DEF Bind, depth
  <2>2. /\ FieldsKept
        /\ \A i \in 1 .. MaxTemp : own'[Temp(i)] = IF i = k THEN own[Glob(x)] ELSE own[Temp(i)]
    BY <1>0, <2>1, GlobSwap
  <2>3. \A b \in Block : SameClosure(b)
    BY <1>0, <2>1, <2>2 DEF SameClosure, FieldsKept
  <2> QED
    BY <1>1, <2>2, <2>3 DEF WrittenAt
<1>3. CASE d # 0
  <2>1. d \in 1 .. MaxDepth /\ x \in LocalName
    BY <1>0, <1>1, <1>3 DEF LocalName
  <2>2. /\ Alloc(c, "cell", 1)
        /\ own' = Put(Exchange(Exchange(own, Temp(k), Field(c, 1)), Temp(k), Local(d, x)),
                      Local(d, x), c)
    BY <1>1, <1>3 DEF Bind, depth
  <2>3. own[Field(c, 1)] = Nil
    BY <1>0, <2>2 DEF Alloc, Free, CInv, HeapInv, FreeOwnsNothing
  <2>4. /\ \A b \in Block, i \in 1 .. Width :
             own'[Field(b, i)] = IF b = c /\ i = 1 THEN own[Temp(k)] ELSE own[Field(b, i)]
        /\ \A i \in 1 .. MaxTemp :
             own'[Temp(i)] = IF i = k THEN own[Local(d, x)] ELSE own[Temp(i)]
    BY <1>0, <2>1, <2>2, <2>3, CellBound
  <2>5. \A b \in Block \ {c} : own'[Field(b, 1)] = own[Field(b, 1)]
    BY <1>0, <2>4
  <2>6. \A b \in Block : SameClosure(b)
    BY <2>2, <2>5, OtherKind
  <2> QED
    BY <1>1, <2>4, <2>6 DEF WrittenAt
<1> QED
  BY <1>2, <1>3

\* What scope.insert leaves of the scopes and of the fields.
InsertedAt(d, x, c) ==
  /\ c \in Block /\ kind[c] = "free"
  /\ \A e \in 1 .. MaxDepth, y \in LocalName :
       own'[Local(e, y)] = IF e = d /\ y = x THEN c ELSE own[Local(e, y)]
  /\ \A b \in Block, i \in 1 .. Width :
       own'[Field(b, i)] = IF b = c /\ i = 1 THEN own[Temp(sp)] ELSE own[Field(b, i)]

(* A name is bound as a body is entered.                                   *)
LEMMA WrittenInsert ==
  ASSUME CInv, NEW x \in Name, NEW c \in Block, Insert(x, c), sp >= 1, Len(frames) > 0,
         UNCHANGED code
  PROVE  WrittenAt(sp) /\ InsertedAt(Len(frames), x, c)
<1>0. /\ own \in [Slot -> Value] /\ sp \in 1 .. MaxTemp /\ MaxTemp \in Nat /\ 1 \in 1 .. Width
      /\ Len(frames) \in 0 .. MaxDepth
  BY Basics
<1>1. PICK k \in 1 .. MaxTemp, d \in 1 .. MaxDepth : k = sp /\ d = Len(frames)
  BY <1>0
<1>2. x \in LocalName
  BY DEF LocalName
<1>3. /\ Alloc(c, "cell", 1) /\ kind[c] = "free"
      /\ own' = Put(Exchange(own, Temp(k), Field(c, 1)), Local(d, x), c)
  BY <1>1 DEF Insert, depth, Alloc, Free
<1>4. own[Field(c, 1)] = Nil
  BY <1>0, <1>3 DEF CInv, HeapInv, FreeOwnsNothing
<1>5. /\ \A e \in 1 .. MaxDepth, y \in LocalName :
           own'[Local(e, y)] = IF e = d /\ y = x THEN c ELSE own[Local(e, y)]
      /\ \A b \in Block, i \in 1 .. Width :
           own'[Field(b, i)] = IF b = c /\ i = 1 THEN own[Temp(k)] ELSE own[Field(b, i)]
      /\ \A i \in 1 .. MaxTemp : own'[Temp(i)] = IF i = k THEN Nil ELSE own[Temp(i)]
  BY <1>0, <1>2, <1>3, <1>4, Inserted
<1>6. \A b \in Block \ {c} : own'[Field(b, 1)] = own[Field(b, 1)]
  BY <1>0, <1>5
<1>7. \A b \in Block : SameClosure(b)
  BY <1>3, <1>6, OtherKind
<1>8. InsertedAt(d, x, c)
  BY <1>1, <1>3, <1>5 DEF InsertedAt
<1> QED
  BY <1>1, <1>5, <1>7, <1>8 DEF WrittenAt

(* A variable is assigned.                                                 *)
LEMMA WrittenReassign ==
  ASSUME CInv, NEW x \in Name, Reassign(x)
  PROVE  WrittenAt(sp)
<1>0. /\ own \in [Slot -> Value] /\ MaxTemp \in Nat /\ 1 \in 1 .. Width
      /\ sp \in 1 .. MaxTemp /\ UNCHANGED <<kind, rc, code>>
  BY Basics, Heights DEF Reassign, Evaluated
<1>1. PICK k \in 1 .. MaxTemp, s \in Slot :
        k = sp /\ Resolves(x, s) /\ own' = Exchange(own, Temp(k), s)
  BY <1>0 DEF Reassign
<1>2. CASE s = Glob(x)
  <2>1. own' = Exchange(own, Temp(k), Glob(x))
    BY <1>1, <1>2
  <2>2. /\ FieldsKept
        /\ \A i \in 1 .. MaxTemp : own'[Temp(i)] = IF i = k THEN own[Glob(x)] ELSE own[Temp(i)]
    BY <1>0, <2>1, GlobSwap
  <2>3. \A b \in Block : SameClosure(b)
    BY <1>0, <2>2 DEF SameClosure, FieldsKept
  <2> QED
    BY <1>1, <2>2, <2>3 DEF WrittenAt
<1>3. CASE s # Glob(x)
  <2>1. PICK l \in Block : kind[l] = "cell" /\ s = Field(l, 1)
    BY <1>1, <1>3, Resolved
  <2>2. own' = Exchange(own, Temp(k), Field(l, 1))
    BY <1>1, <2>1
  <2>3. /\ \A b \in Block, i \in 1 .. Width :
             own'[Field(b, i)] = IF b = l /\ i = 1 THEN own[Temp(k)] ELSE own[Field(b, i)]
        /\ \A i \in 1 .. MaxTemp :
             own'[Temp(i)] = IF i = k THEN own[Field(l, 1)] ELSE own[Temp(i)]
    BY <1>0, <2>2, FieldSwap
  <2>4. \A b \in Block : SameClosure(b)
    BY <1>0, <2>1, <2>3 DEF SameClosure
  <2> QED
    BY <1>1, <2>3, <2>4 DEF WrittenAt
<1> QED
  BY <1>2, <1>3

(* A closure is made, with its env when it captures.                       *)
LEMMA WholeClosure ==
  ASSUME CInv, KindStep, NEW c \in Block, MakeClosure(c)
  PROVE  ClosuresWhole' /\ CalleesAre'
<1>0. /\ own \in [Slot -> Value] /\ kind \in [Block -> Kind] /\ rc \in [Block -> Nat]
      /\ MaxTemp \in Nat /\ sp \in 0 .. MaxTemp /\ prog.temps \in 0 .. MaxTemp
      /\ 1 \in 1 .. Width /\ c \in Value /\ code \in [Block -> Code] /\ Nil \notin Block
  BY Basics, ControlParts DEF Value
<1>1. /\ op = "closure" /\ kind' = [kind EXCEPT ![c] = "clos"] /\ rc' = [rc EXCEPT ![c] = 1]
      /\ code' = [code EXCEPT ![c] = todo.code] /\ UNCHANGED calls
  BY DEF MakeClosure, Doing, op, Alloc
<1>2. code'[c].fn \in Fn /\ code'[c].caps = todo.code.caps
  BY <1>0, <1>1, SubjectIs
<1>3. ASSUME NEW b \in Block \ {c}, own'[Field(b, 1)] = own[Field(b, 1)]
      PROVE  SameClosure(b)
  BY <1>0, <1>1, <1>3 DEF SameClosure
<1>4. CASE todo.code.caps = <<>>
  <2>1. PICK k \in 1 .. MaxTemp : k = sp + 1 /\ sp < prog.temps
    BY <1>0, <1>4 DEF MakeClosure
  <2>2. own' = Put(own, Temp(k), c)
    BY <1>4, <2>1 DEF MakeClosure
  <2>3. /\ FieldsKept
        /\ \A i \in 1 .. MaxTemp : own'[Temp(i)] = IF i = k THEN c ELSE own[Temp(i)]
    BY <1>0, <2>2, TempPut
  <2>4. WrittenAt(k)
    BY <1>0, <1>2, <1>3, <1>4, <2>3 DEF WrittenAt, Equipped, FieldsKept
  <2> QED
    BY <1>1, <2>1, <2>4, WholeAt, AboveCalls
<1>5. CASE todo.code.caps # <<>>
  <2>1. sp = Base + 1 /\ Base \in Nat
    BY <1>0, <1>1, <1>5, ControlParts, Heights DEF Position, Place
  <2>2. PICK k \in 1 .. MaxTemp : k = sp
    BY <1>0, <2>1
  <2>3. own' = Put(Exchange(own, Temp(k), Field(c, 1)), Temp(k), c)
    BY <1>5, <2>2 DEF MakeClosure
  <2>4. /\ \A b \in Block, i \in 1 .. Width :
             own'[Field(b, i)] = IF b = c /\ i = 1 THEN own[Temp(k)] ELSE own[Field(b, i)]
        /\ \A i \in 1 .. MaxTemp : own'[Temp(i)] = IF i = k THEN c ELSE own[Temp(i)]
    BY <1>0, <2>3, Wrapped
  <2>5. own[Temp(k)] # Nil
    BY <1>0, <1>1, <1>5, <2>2 DEF CInv, BuiltAlone, Building, IsKind
  <2>6. WrittenAt(k)
    BY <1>0, <1>2, <1>3, <2>4, <2>5 DEF WrittenAt, Equipped
  <2>7. sp > Base
    BY <2>1
  <2> QED
    BY <1>1, <2>2, <2>6, <2>7, WholeAt, AboveCalls
<1> QED
  BY <1>4, <1>5

(* The self closure is made.                                               *)
LEMMA WholeSelf ==
  ASSUME CInv, KindStep, NEW c \in Block, SelfClosure(c)
  PROVE  ClosuresWhole' /\ CalleesAre'
<1>0. /\ own \in [Slot -> Value] /\ kind \in [Block -> Kind] /\ rc \in [Block -> Nat]
      /\ MaxTemp \in Nat /\ sp \in 0 .. MaxTemp /\ prog.temps \in 0 .. MaxTemp
      /\ 1 \in 1 .. Width /\ code \in [Block -> Code] /\ todo.env \in Value
  BY Basics, ControlParts
<1>1. /\ op = "self" /\ sp < prog.temps /\ kind' = [kind EXCEPT ![c] = "clos"]
      /\ own' = Put(Put(own, Field(c, 1), todo.env), Temp(sp + 1), c)
      /\ code' = [code EXCEPT ![c] = todo.code] /\ UNCHANGED calls
      /\ rc' = EnvShared(c)
  BY DEF SelfClosure, Doing, op
<1>2. PICK k \in 1 .. MaxTemp, e \in Value : k = sp + 1 /\ e = todo.env
  BY <1>0, <1>1
<1>3. own' = Put(Put(own, Field(c, 1), e), Temp(k), c)
  BY <1>1, <1>2
<1>4. /\ \A b \in Block, i \in 1 .. Width :
           own'[Field(b, i)] = IF b = c /\ i = 1 THEN e ELSE own[Field(b, i)]
      /\ \A i \in 1 .. MaxTemp : own'[Temp(i)] = IF i = k THEN c ELSE own[Temp(i)]
  BY <1>0, <1>3, SelfMade
<1>5. Equipped(c)
  <2>1. code'[c].fn \in Fn /\ code'[c].caps = todo.code.caps
    BY <1>0, <1>1, SubjectIs DEF Entry
  <2>2. todo.code.caps # <<>> => e # Nil
    BY <1>1, <1>2 DEF CInv, HasEnv, EnvGiven
  <2> QED
    BY <1>0, <1>4, <2>1, <2>2 DEF Equipped
<1>6. ASSUME NEW b \in Block, b # c PROVE SameClosure(b)
  <2>1. kind'[b] = kind[b] /\ code'[b] = code[b] /\ own'[Field(b, 1)] = own[Field(b, 1)]
    BY <1>0, <1>1, <1>4, <1>6
  <2>2. CASE b = todo.env
    <3>1. kind[b] = "env"
      BY <1>0, <1>1, <2>2, Basics DEF CInv, EnvKept
    <3> QED
      BY <2>1, <3>1 DEF SameClosure
  <2>3. CASE b # todo.env
    <3>1. rc'[b] = rc[b]
      BY <1>1, <1>6, <2>3 DEF EnvShared
    <3> QED
      BY <2>1, <3>1 DEF SameClosure
  <2> QED
    BY <2>2, <2>3
<1>7. WrittenAt(sp + 1)
  BY <1>2, <1>4, <1>5, <1>6 DEF WrittenAt
<1> QED
  BY <1>1, <1>7, WholeAt, AboveCalls

(* A capture is taken.                                                     *)
LEMMA WholeCapture ==
  ASSUME CInv, KindStep, CaptureNext
  PROVE  ClosuresWhole' /\ CalleesAre'
<1>0. /\ own \in [Slot -> Value] /\ Doing("capture") /\ UNCHANGED <<kind, code, calls>>
      /\ 1 \in 1 .. Width
  BY Basics DEF CaptureNext
<1>1. PICK e, i, d, x : /\ e = Top /\ i = len[e] + 1 /\ d = Len(frames)
                        /\ x = todo.code.caps[i]
  OBVIOUS
<1>2. /\ e \in Block /\ kind[e] = "env" /\ i \in 1 .. Width /\ d \in 1 .. MaxDepth /\ x \in Name
      /\ own[Local(d, x)] \in Block /\ Captured(x) \in Value
  BY <1>0, <1>1, CaptureSlots
<1>3. PICK s \in Slot : s = Field(own[Local(d, x)], 1) /\ own[s] = Captured(x)
  BY <1>0, <1>1, <1>2, SlotFamilies DEF Captured, depth
<1>4. own' = Put(own, Field(e, i), Captured(x)) /\ rc' = Retain(own[s])
  BY <1>1, <1>3 DEF CaptureNext
<1>5. /\ TempsKept
      /\ \A b \in Block, j \in 1 .. Width :
           own'[Field(b, j)] = IF b = e /\ j = i THEN Captured(x) ELSE own[Field(b, j)]
  BY <1>0, <1>2, <1>4, FieldPut
<1>6. \A b \in Block : SameClosure(b)
  BY <1>0, <1>2, <1>4, <1>5, RetainedBefore DEF SameClosure
<1>7. \A j \in 1 .. Len(calls) : own'[Temp(calls[j])] = own[Temp(calls[j])]
  BY <1>5, Heights DEF TempsKept
<1> QED
  BY <1>0, <1>6, <1>7, WholeWhen, CalleesStay

(* A call is opened on a value.                                            *)
LEMMA WholeOpen ==
  ASSUME CInv, KindStep, NEW h \in 1 .. MaxTemp, calls' = Append(calls, h),
         KindNext(own'[Temp(h)], "clos"),
         \A j \in 1 .. Len(calls) : own'[Temp(calls[j])] = own[Temp(calls[j])]
  PROVE  CalleesAre'
<1>1. calls \in Seq(1 .. MaxTemp)
  BY ControlParts
<1>2. ASSUME NEW j \in 1 .. Len(calls)
      PROVE  KindNext(own[Temp(calls[j])], "clos")
  <2>1. Temp(calls[j]) \in Slot /\ IsKind(own[Temp(calls[j])], "clos")
    BY Heights, SlotFamilies DEF CInv, HasEnv, CalleesAre
  <2> QED
    BY <2>1, Keeps
<1>3. ASSUME NEW j \in 1 .. Len(calls')
      PROVE  KindNext(own'[Temp(calls'[j])], "clos")
  <2>1. CASE j \in 1 .. Len(calls)
    <3>1. calls'[j] = calls[j]
      BY <1>1, <2>1
    <3> QED
      BY <1>2, <2>1, <3>1
  <2>2. CASE j \notin 1 .. Len(calls)
    <3>1. calls'[j] = h
      BY <1>1, <2>2
    <3> QED
      BY <3>1
  <2> QED
    BY <2>1, <2>2
<1> QED
  BY <1>3 DEF CalleesAre, KindNext, IsKind

(* The calls that stay open when one is made.                              *)
LEMMA WholeCall ==
  ASSUME CInv, KindStep, Call
  PROVE  ClosuresWhole' /\ CalleesAre'
<1>0. /\ own \in [Slot -> Value] /\ MaxTemp \in Nat /\ Floor \in 0 .. sp /\ 1 \in 1 .. Width
      /\ sp \in 0 .. MaxTemp /\ UNCHANGED <<kind, rc, code>> /\ calls \in Seq(1 .. MaxTemp)
      /\ InCall /\ calls # <<>>
  BY Basics, Heights, ControlParts DEF Call, InCall
<1>1. PICK k \in 1 .. MaxTemp, m \in 1 .. MaxTemp : k = Floor /\ m = sp
  BY <1>0, CalleeIs
<1>2. own' = Exchange(own, Temp(k), Temp(m))
  BY <1>1 DEF Call
<1>3. /\ FieldsKept
      /\ \A i \in 1 .. MaxTemp :
           own'[Temp(i)] = IF i = m THEN own[Temp(k)]
                           ELSE IF i = k THEN own[Temp(m)] ELSE own[Temp(i)]
  BY <1>0, <1>2, TempSwap
<1>4. \A b \in Block : SameClosure(b)
  BY <1>0, <1>3 DEF SameClosure, FieldsKept
<1>5. /\ Len(calls') = Len(calls) - 1
      /\ \A j \in 1 .. Len(calls) - 1 : calls'[j] = calls[j] /\ j \in 1 .. Len(calls)
      /\ Len(calls) \in Nat \ {0}
  BY <1>0, Shorter DEF Call
<1>6. ASSUME NEW j \in 1 .. Len(calls')
      PROVE  IsKind(own[Temp(calls[j])], "clos") /\ own'[Temp(calls'[j])] = own[Temp(calls[j])]
  <2>1. /\ j \in 1 .. Len(calls) /\ j < Len(calls) /\ calls'[j] = calls[j]
        /\ Len(calls) \in 1 .. Len(calls)
    BY <1>5
  <2>2. calls[j] < calls[Len(calls)] /\ calls[j] \in 1 .. MaxTemp
    BY <2>1, ControlParts, Heights DEF Stack
  <2>3. calls[j] < k /\ k <= m
    BY <1>0, <1>1, <2>2, CalleeIs
  <2>4. calls[j] # k /\ calls[j] # m
    BY <2>2, <2>3
  <2> QED
    BY <1>3, <2>1, <2>2, <2>4 DEF CInv, HasEnv, CalleesAre
<1>7. CalleesAre'
  BY <1>0, <1>6 DEF CalleesAre, IsKind
<1> QED
  BY <1>4, <1>7, WholeWhen

(* Every step leaves whole what it does not write.                         *)
LEMMA WholeSteps ==
  ASSUME CInv, [Next]_vars
  PROVE  ClosuresWhole' /\ CalleesAre'
<1>0. /\ KindStep /\ own \in [Slot -> Value] /\ kind \in [Block -> Kind] /\ rc \in [Block -> Nat]
      /\ sp \in 0 .. MaxTemp /\ MaxTemp \in Nat /\ 1 \in 1 .. Width
      /\ prog.temps \in 0 .. MaxTemp /\ HeapInv
  BY KindSteps, Basics DEF CInv
<1>1. ASSUME UNCHANGED <<own, kind, rc, code, calls>>
      PROVE  ClosuresWhole' /\ CalleesAre'
  <2>1. \A b \in Block : SameClosure(b)
    BY <1>1 DEF SameClosure
  <2> QED
    BY <1>0, <1>1, <2>1, WholeWhen, CalleesStay
<1>2. CASE UNCHANGED vars \/ Abort \/ EndProgram \/ Exit \/ PushConst \/ FallThrough \/ Discard
           \/ Return \/ Enter \/ BackInCaller \/ \E f \in Fn, q \in CaptureList : Define(f, q)
  BY <1>1, <1>2 DEF vars, heap, Abort, EndProgram, Exit, PushConst, FallThrough, Discard, Return,
                    Enter, BackInCaller, Define
<1>3. CASE Releasing
  <2>1. \A b \in Block : SameClosure(b)
    <3> SUFFICES ASSUME NEW b \in Block, kind'[b] = "clos", rc'[b] # 0
                 PROVE  /\ kind[b] = "clos" /\ rc[b] # 0 /\ code'[b] = code[b]
                        /\ own'[Field(b, 1)] = own[Field(b, 1)]
      BY DEF SameClosure
    <3>1. rc[b] # 0 /\ kind'[b] \in {kind[b], "free"} /\ (code'[b] = code[b] \/ kind'[b] = "free")
      BY <1>3, Released
    <3>2. Kept(b)
      BY <1>3, <3>1, Released
    <3> QED
      BY <1>0, <3>1, <3>2 DEF Kept
  <2>2. \A j \in 1 .. Len(calls) : own'[Temp(calls[j])] = own[Temp(calls[j])]
    <3>1. \A j \in 1 .. Len(calls) : calls[j] \in 1 .. MaxTemp /\ calls[j] <= sp
      BY Heights, ControlParts DEF Stack
    <3>2. \A j \in 1 .. Len(calls) : calls[j] \in 1 .. sp
      BY <1>0, <3>1
    <3> QED
      BY <1>3, <3>2, Released
  <2> QED
    BY <1>0, <1>3, <2>1, <2>2, Released, WholeWhen, CalleesStay
<1>4. ASSUME NEW s \in Slot, Drop(s), \A i : s # Temp(i), \A b \in Block : \A i : s # Field(b, i),
             UNCHANGED <<code, calls>>
      PROVE  ClosuresWhole' /\ CalleesAre'
  <2>1. /\ own' = Put(own, s, Nil) /\ UNCHANGED kind /\ own[s] \in Block
        /\ rc' = [rc EXCEPT ![own[s]] = @ - 1]
    BY <1>4 DEF Drop
  <2>2. \A u \in Slot : u # s => own'[u] = own[u]
    BY <1>0, <2>1 DEF Put
  <2>3. TempsKept /\ FieldsKept
    BY <1>4, <2>2, SlotFamilies DEF TempsKept, FieldsKept
  <2>4. \A b \in Block : rc'[b] # 0 => rc[b] # 0
    <3>1. rc[own[s]] # 0
      BY <1>0, <2>1, OwnedIsLive
    <3> QED
      BY <1>0, <2>1, <3>1
  <2>5. \A b \in Block : SameClosure(b)
    BY <1>0, <1>4, <2>1, <2>3, <2>4 DEF SameClosure, FieldsKept
  <2>6. \A j \in 1 .. Len(calls) : own'[Temp(calls[j])] = own[Temp(calls[j])]
    BY <2>3, Heights DEF TempsKept
  <2> QED
    BY <1>0, <1>4, <2>5, <2>6, WholeWhen, CalleesStay
<1>5. CASE ReleaseLocal
  <2>1. PICK x \in Name : Drop(Local(depth, x))
    BY <1>5 DEF ReleaseLocal
  <2>2. op = "return" /\ frames # <<>>
    BY <1>5, ControlParts DEF ReleaseLocal, Doing, op, Subject, Knows
  <2>3. Local(depth, x) \in Slot
    BY <2>2, Heights, SlotFamilies DEF depth, LocalName
  <2> QED
    BY <1>4, <1>5, <2>1, <2>3, OtherSlot DEF ReleaseLocal
<1>6. CASE ReleaseGlobal
  <2>1. PICK x \in Name : Drop(Glob(x))
    BY <1>6 DEF ReleaseGlobal
  <2> QED
    BY <1>4, <1>6, <2>1, SlotFamilies, OtherSlot DEF ReleaseGlobal
<1>7. ASSUME NEW b \in Block, PushString(b) PROVE ClosuresWhole' /\ CalleesAre'
  <2>1. /\ sp < prog.temps /\ Alloc(b, "str", 0) /\ own' = Put(own, Temp(sp + 1), b)
        /\ UNCHANGED <<code, calls>>
    BY <1>7 DEF PushString
  <2> QED
    BY <1>0, <2>1, WrittenFresh, WholeAt, AboveCalls
<1>8. ASSUME NEW e \in Block, MakeEnv(e) PROVE ClosuresWhole' /\ CalleesAre'
  <2>1. /\ sp < prog.temps /\ Alloc(e, "env", 0) /\ own' = Put(own, Temp(sp + 1), e)
        /\ UNCHANGED <<code, calls>>
    BY <1>8 DEF MakeEnv
  <2> QED
    BY <1>0, <2>1, WrittenFresh, WholeAt, AboveCalls
<1>9. ASSUME NEW x \in Name, LoadVar(x) PROVE ClosuresWhole' /\ CalleesAre'
  <2>1. PICK s \in Slot : Push(own[s]) /\ UNCHANGED <<code, calls>>
    BY <1>9 DEF LoadVar
  <2> QED
    BY <1>0, <2>1, WrittenPush, WholeAt, AboveCalls
<1>10. CASE LoadCapture
  <2>1. PICK s \in Slot : Push(own[s]) /\ UNCHANGED <<code, calls>>
    BY <1>10, LoadSlot DEF LoadCapture
  <2> QED
    BY <1>0, <2>1, WrittenPush, WholeAt, AboveCalls
<1>11. ASSUME NEW x \in Name, OpenCall(x) PROVE ClosuresWhole' /\ CalleesAre'
  <2>1. PICK s \in Slot : /\ IsKind(own[s], "clos") /\ Push(own[s]) /\ UNCHANGED code
                          /\ calls' = Append(calls, sp + 1)
    BY <1>11 DEF OpenCall
  <2>2. PICK h \in 1 .. MaxTemp, v \in Value : h = sp + 1 /\ v = own[s] /\ KindNext(v, "clos")
    BY <1>0, <2>1, Keeps DEF Push
  <2>3. own' = Put(own, Temp(h), v) /\ calls' = Append(calls, h)
    BY <2>1, <2>2 DEF Push
  <2>4. \A i \in 1 .. MaxTemp : own'[Temp(i)] = IF i = h THEN v ELSE own[Temp(i)]
    BY <1>0, <2>3, TempPut
  <2>5. \A j \in 1 .. Len(calls) : own'[Temp(calls[j])] = own[Temp(calls[j])]
    BY <2>2, <2>4, AboveCalls, Heights
  <2>6. WrittenAt(sp + 1)
    BY <2>1, WrittenPush
  <2> QED
    BY <1>0, <2>2, <2>3, <2>4, <2>5, <2>6, WholeWhen, WholeOpen DEF WrittenAt
<1>12. CASE OpenCallOnValue
  <2>1. /\ UNCHANGED <<own, kind, rc, code>> /\ calls' = Append(calls, sp) /\ sp > Floor
        /\ IsKind(own[Temp(sp)], "clos")
    BY <1>12 DEF OpenCallOnValue, heap, Top
  <2>2. PICK h \in 1 .. MaxTemp : h = sp
    BY <1>0, <2>1, Heights
  <2>3. \A b \in Block : SameClosure(b)
    BY <2>1 DEF SameClosure
  <2>4. KindNext(own'[Temp(h)], "clos")
    BY <2>1, <2>2 DEF IsKind, KindNext
  <2> QED
    BY <1>0, <2>1, <2>2, <2>3, <2>4, WholeWhen, WholeOpen
<1>13. ASSUME WrittenAt(sp), sp > Base, Floor = Base \/ op \notin {"none", "enter"},
              UNCHANGED calls
       PROVE  ClosuresWhole' /\ CalleesAre'
  BY <1>0, <1>13, WholeAt, AboveCalls
<1>14. ASSUME NEW c \in Block, NEW x \in Name, Assign(x, c) PROVE ClosuresWhole' /\ CalleesAre'
  <2>1. /\ Bind(x, c) /\ sp = Base + 1 /\ Base \in Nat /\ Floor = Base /\ UNCHANGED <<code, calls>>
    BY <1>14, Heights DEF Assign, Evaluated
  <2>2. sp >= 1 /\ sp > Base
    BY <2>1
  <2> QED
    BY <1>13, <2>1, <2>2, WrittenBind
<1>15. ASSUME NEW c \in Block, BindFn(c) PROVE ClosuresWhole' /\ CalleesAre'
  <2>1. op = "bind" /\ Bind(todo.code.fn, c) /\ UNCHANGED <<code, calls>>
    BY <1>15 DEF BindFn, Doing, op
  <2>2. sp = Base + 1 /\ Base \in Nat /\ todo.code.fn \in Name
    BY <1>0, <2>1, ControlParts, SubjectIs, Heights DEF Position, Place
  <2>3. sp >= 1 /\ sp > Base
    BY <2>2
  <2> QED
    BY <1>13, <2>1, <2>2, <2>3, WrittenBind
<1>16. ASSUME NEW x \in Name, Reassign(x) PROVE ClosuresWhole' /\ CalleesAre'
  <2>1. sp = Base + 1 /\ Base \in Nat /\ Floor = Base /\ UNCHANGED calls
    BY <1>16, Heights DEF Reassign, Evaluated
  <2>2. sp > Base
    BY <2>1
  <2> QED
    BY <1>13, <1>16, <2>1, <2>2, WrittenReassign
<1>17. ASSUME NEW c \in Block, BindSelf(c) \/ BindCapture(c) \/ BindParam(c)
       PROVE  ClosuresWhole' /\ CalleesAre'
  <2>1. PICK x \in Name : /\ Insert(x, c) /\ sp >= 1 /\ Len(frames) > 0
    BY <1>17, EntryBinds DEF BindSelf, BindCapture, BindParam
  <2>2. UNCHANGED <<code, calls>> /\ op \in {"bindself", "bindload", "param"}
    BY <1>17 DEF BindSelf, BindCapture, BindParam, Doing, op
  <2>3. sp > Base
    <3>1. Arity(todo.code.fn) \in {0, 1} /\ Base \in Nat
      BY <2>2, SubjectIs, Heights, <1>0 DEF Entry
    <3> QED
      BY <2>2, <3>1, ControlParts DEF Position, Place
  <2> QED
    BY <1>13, <2>1, <2>2, <2>3, WrittenInsert
<1> QED
  BY <1>0, <1>2, <1>3, <1>5, <1>6, <1>7, <1>8, <1>9, <1>10, <1>11, <1>12, <1>14, <1>15, <1>16,
     <1>17, WholeCapture, WholeClosure, WholeSelf, WholeCall DEF Next, Releasing

\* The steps in which a body has not bound all its names yet.
Unbound == Entry \cup {"enter"}

(* Only a call and the steps of an entry are about one, but for releases   *)
(* on the way.                                                             *)
LEMMA UnboundSteps ==
  ASSUME CInv, [Next]_vars
  PROVE  \/ op' \notin Unbound
         \/ UNCHANGED <<heap, sp, frames, todo>>
         \/ Releasing
         \/ Call
         \/ Enter
         \/ \E c \in Block : SelfClosure(c)
         \/ \E c \in Block : BindSelf(c)
         \/ LoadCapture
         \/ \E c \in Block : BindCapture(c)
<1>0. status \in {"ending", "ended"} => op = "none"
  BY DEF CInv, Control, Final
<1>1. CASE op = "none" /\ UNCHANGED todo
  BY <1>1 DEF op, Unbound, Entry
<1>2. CASE \/ PushConst \/ Discard \/ OpenCallOnValue \/ EndProgram
           \/ (\E b \in Block : PushString(b))
           \/ (\E x \in Name : LoadVar(x) \/ OpenCall(x) \/ Reassign(x))
           \/ (\E x \in Name, c \in Block : Assign(x, c))
  <2>1. op = "none" /\ UNCHANGED todo
    BY <1>2 DEF PushConst, Discard, OpenCallOnValue, EndProgram, PushString, LoadVar, OpenCall,
                Reassign, Assign, Evaluated, AtStatement, Ready, Doing, op
  <2> QED
    BY <1>1, <2>1
<1>3. CASE ReleaseGlobal \/ Exit
  BY <1>0, <1>1, <1>3 DEF ReleaseGlobal, Exit
<1>4. CASE ReleaseLocal
  <2>1. op' = "return"
    BY <1>4 DEF ReleaseLocal, Doing, op
  <2> QED
    BY <2>1 DEF Unbound, Entry
<1>5. CASE Abort \/ UNCHANGED vars
  BY <1>5 DEF Abort, vars
<1>6. CASE (\E c \in Block : BindFn(c) \/ BindParam(c)) \/ BackInCaller
  <2>1. op' = "none"
    BY <1>6 DEF BindFn, BindParam, BackInCaller, Idle, Do, op
  <2> QED
    BY <2>1 DEF Unbound, Entry
<1>7. CASE \E f \in Fn, q \in CaptureList : Define(f, q)
  <2>1. op' \in {"closure", "env"}
    BY <1>7 DEF Define, Do, op
  <2> QED
    BY <2>1 DEF Unbound, Entry
<1>8. CASE (\E e \in Block : MakeEnv(e)) \/ CaptureNext \/ (\E c \in Block : MakeClosure(c))
  <2>1. PICK o \in {"capture", "closure", "bind"} : todo' = [todo EXCEPT !.op = o]
    BY <1>8 DEF MakeEnv, CaptureNext, MakeClosure
  <2>2. op' = o
    BY <2>1, TodoEdits, ControlParts DEF Do, op
  <2> QED
    BY <2>2 DEF Unbound, Entry
<1>9. CASE Return \/ FallThrough
  <2>1. op' = "return"
    BY <1>9, TodoEdits, ControlParts DEF Return, FallThrough, Do, op
  <2> QED
    BY <2>1 DEF Unbound, Entry
<1> QED
  BY <1>2, <1>3, <1>4, <1>5, <1>6, <1>7, <1>8, <1>9 DEF Next, Releasing

(* A body is called with the env it needs, until it has bound it.          *)
LEMMA GivenSteps ==
  ASSUME CInv, [Next]_vars
  PROVE  EnvGiven'
<1>0. kind \in [Block -> Kind] /\ Nil \notin Block /\ todo.env \in Value
      /\ own \in [Slot -> Value]
  BY Basics, ControlParts
<1>1. CASE op' \notin Unbound
  BY <1>1 DEF EnvGiven, Unbound, Entry
<1>2. CASE UNCHANGED <<heap, sp, frames, todo>>
  BY <1>2 DEF CInv, HasEnv, EnvGiven, heap, op
<1>3. CASE Releasing
  <2>1. UNCHANGED todo /\ \A b \in Block : kind'[b] \in {kind[b], "free"}
    BY <1>3, Released
  <2>2. EnvGiven
    BY DEF CInv, HasEnv
  <2>3. op = "enter" /\ todo.env # Nil => kind'[todo.env] \in {"env", "free"}
    BY <1>0, <2>1, <2>2 DEF EnvGiven, Value
  <2>4. UNCHANGED op
    BY <2>1 DEF op
  <2> QED
    BY <2>1, <2>2, <2>3, <2>4 DEF EnvGiven
<1>4. CASE Call
  <2>1. /\ op' = "enter" /\ todo'.code = code[Callee] /\ todo'.env = own[Field(Callee, 1)]
        /\ UNCHANGED kind /\ InCall
    BY <1>4 DEF Call, Do, op
  <2> QED
    BY <2>1, CalleeIs DEF EnvGiven
<1>6. ASSUME NEW o, todo' = [todo EXCEPT !.op = o]
      PROVE  op' = o /\ todo'.code = todo.code /\ todo'.env = todo.env
  <2>1. todo' = Do(o, todo.code, todo.env, todo.n)
    BY <1>6, TodoEdits, ControlParts
  <2> QED
    BY <2>1 DEF Do, op
<1>7. CASE Enter
  <2>1. op = "enter" /\ UNCHANGED heap
    BY <1>7 DEF Enter, Doing, op
  <2>2. CASE todo' = todo
    BY <2>1, <2>2 DEF CInv, HasEnv, EnvGiven, heap, op
  <2>3. CASE todo' = [todo EXCEPT !.op = "self"]
    <3>1. op' = "self" /\ todo'.code = todo.code /\ todo'.env = todo.env
      BY <1>6, <2>3
    <3> QED
      BY <2>1, <3>1 DEF CInv, HasEnv, EnvGiven
  <2> QED
    BY <1>7, <2>2, <2>3 DEF Enter
<1>8. CASE \E c \in Block : SelfClosure(c)
  <2>1. op = "self" /\ op' = "bindself" /\ todo'.code = todo.code /\ todo'.env = todo.env
    BY <1>6, <1>8 DEF SelfClosure, Doing, op
  <2> QED
    BY <2>1 DEF CInv, HasEnv, EnvGiven
<1>9. CASE LoadCapture
  <2>1. op' = "bindload"
    BY <1>6, <1>9 DEF LoadCapture
  <2> QED
    BY <2>1 DEF EnvGiven
<1>10. CASE \E c \in Block : BindSelf(c) \/ BindCapture(c)
  <2>1. PICK m : todo' = NextEntry(m)
    BY <1>10 DEF BindSelf, BindCapture
  <2>2. todo' \in {Do("load", todo.code, todo.env, m), Idle, Do("param", todo.code, todo.env, 0)}
    BY <2>1, TodoEdits, ControlParts DEF NextEntry
  <2>3. op' \in {"load", "none", "param"}
    BY <2>2 DEF op, Do, Idle
  <2> QED
    BY <2>3 DEF EnvGiven
<1> QED
  BY <1>1, <1>2, <1>3, <1>4, <1>7, <1>8, <1>9, <1>10, UnboundSteps

(* The body that is entered owns its env through its self closure.  A      *)
(* release on the way:                                                     *)
LEMMA KeptReleasing ==
  ASSUME CInv, KindStep, Releasing
  PROVE  EnvKept'
<1>0. /\ own \in [Slot -> Value] /\ rc \in [Block -> Nat] /\ sp \in 0 .. MaxTemp
      /\ MaxTemp \in Nat /\ HeapInv /\ 1 \in 1 .. Width /\ EnvKept
  BY Basics DEF CInv
<1>1. /\ UNCHANGED <<sp, frames, todo>>
      /\ \A i \in 1 .. sp : own'[Temp(i)] = own[Temp(i)]
      /\ LocalsKept
      /\ \A b \in Block : rc[b] # 0 => Kept(b)
  BY Released
<1>2. op # "self"
  BY <1>0 DEF Releasing, ReleaseOperand, RunCascade, Cascade, ReleaseChild, FreeBlock, EnvKept
<1>3. ASSUME op = "bindself"
      PROVE  /\ KindNext(own'[Temp(sp)], "clos")
             /\ own'[Field(own'[Temp(sp)], 1)] = todo.env
  <2>1. sp \in 1 .. MaxTemp
    <3>1. sp = Base + Arity(todo.code.fn) + 1 /\ Arity(todo.code.fn) \in {0, 1} /\ Base \in Nat
      BY <1>0, <1>3, ControlParts, SubjectIs, Heights DEF Position, Place, Entry
    <3> QED
      BY <1>0, <3>1
  <2>2. Temp(sp) \in Slot /\ own'[Temp(sp)] = own[Temp(sp)]
    BY <1>0, <1>1, <2>1, SlotFamilies
  <2>3. IsKind(own[Temp(sp)], "clos") /\ own[Field(own[Temp(sp)], 1)] = todo.env
    BY <1>0, <1>3 DEF EnvKept
  <2>4. own[Temp(sp)] \in Block /\ rc[own[Temp(sp)]] >= 1
    BY <1>0, <2>2, <2>3, OwnedIsLive DEF IsKind
  <2>5. Kept(own[Temp(sp)])
    BY <1>0, <1>1, <2>4
  <2>6. KindNext(own[Temp(sp)], "clos")
    BY <2>2, <2>3, Keeps
  <2> QED
    BY <1>0, <2>2, <2>3, <2>5, <2>6 DEF Kept
<1>4. ASSUME op \in {"load", "bindload"}, NEW l, NEW c, l = own'[Local(Len(frames), todo.code.fn)],
             c = own'[Field(l, 1)]
      PROVE  l \in Block /\ c \in Block /\ todo.env \in Block /\ own'[Field(c, 1)] = todo.env
  <2>1. PICK m, d : m = own[Local(Len(frames), todo.code.fn)] /\ d = own[Field(m, 1)]
    OBVIOUS
  <2>2. m \in Block /\ d \in Block /\ todo.env \in Block /\ own[Field(d, 1)] = todo.env
    BY <1>0, <1>4, <2>1 DEF EnvKept
  <2>3. Len(frames) \in 1 .. MaxDepth /\ todo.code.fn \in LocalName
    <3>1. frames # <<>>
      BY <1>4, ControlParts DEF Subject, Knows, Entry
    <3> QED
      BY <1>4, <3>1, Heights, SubjectIs DEF Entry, LocalName
  <2>4. l = m /\ Local(Len(frames), todo.code.fn) \in Slot
    BY <1>1, <1>4, <2>1, <2>3, SlotFamilies DEF LocalsKept
  <2>5. Kept(m) /\ Field(m, 1) \in Slot
    <3>1. rc[m] >= 1
      BY <1>0, <2>1, <2>2, <2>4, OwnedIsLive
    <3> QED
      BY <1>0, <1>1, <2>2, <3>1, SlotFamilies
  <2>6. c = d
    BY <1>0, <1>4, <2>1, <2>4, <2>5 DEF Kept
  <2>7. Kept(d)
    <3>1. rc[d] >= 1
      BY <1>0, <2>1, <2>2, <2>5, OwnedIsLive
    <3> QED
      BY <1>0, <1>1, <2>2, <3>1
  <2> QED
    BY <1>0, <2>2, <2>4, <2>6, <2>7 DEF Kept
<1>5. UNCHANGED <<sp, frames, todo, op>>
  BY <1>1 DEF op
<1> QED
  BY <1>2, <1>3, <1>4, <1>5 DEF EnvKept, KindNext, IsKind

(* The self closure is made over the env of the body.                      *)
LEMMA KeptSelf ==
  ASSUME CInv, NEW c \in Block, SelfClosure(c)
  PROVE  EnvKept'
<1>0. /\ own \in [Slot -> Value] /\ kind \in [Block -> Kind]
      /\ MaxTemp \in Nat /\ sp \in 0 .. MaxTemp /\ prog.temps \in 0 .. MaxTemp
      /\ 1 \in 1 .. Width /\ todo.env \in Value
  BY Basics, ControlParts
<1>1. /\ sp < prog.temps /\ kind' = [kind EXCEPT ![c] = "clos"] /\ sp' = sp + 1
      /\ own' = Put(Put(own, Field(c, 1), todo.env), Temp(sp + 1), c)
      /\ todo' = Do("bindself", todo.code, todo.env, todo.n)
  BY TodoEdits, ControlParts DEF SelfClosure
<1>2. PICK k \in 1 .. MaxTemp, e \in Value : k = sp + 1 /\ e = todo.env
  BY <1>0, <1>1
<1>3. own' = Put(Put(own, Field(c, 1), e), Temp(k), c) /\ sp' = k
  BY <1>1, <1>2
<1>4. /\ \A b \in Block, i \in 1 .. Width :
           own'[Field(b, i)] = IF b = c /\ i = 1 THEN e ELSE own[Field(b, i)]
      /\ \A i \in 1 .. MaxTemp : own'[Temp(i)] = IF i = k THEN c ELSE own[Temp(i)]
  BY <1>0, <1>3, SelfMade
<1>5. own'[Temp(sp')] = c /\ kind'[c] = "clos" /\ own'[Field(c, 1)] = e
  BY <1>0, <1>1, <1>3, <1>4
<1>6. op' = "bindself" /\ todo'.env = e
  BY <1>1, <1>2 DEF Do, op
<1> QED
  BY <1>5, <1>6 DEF EnvKept, IsKind

(* The self closure is bound to the function's own name.                   *)
LEMMA KeptBindSelf ==
  ASSUME CInv, NEW c \in Block, BindSelf(c)
  PROVE  EnvKept'
<1>0. /\ own \in [Slot -> Value] /\ kind \in [Block -> Kind] /\ 1 \in 1 .. Width
      /\ sp \in 0 .. MaxTemp /\ todo.env \in Value /\ Nil \notin Block
      /\ Len(frames) \in 0 .. MaxDepth
      /\ todo.code.caps \in Seq(Name)
  BY Basics, ControlParts DEF Code
<1>1. /\ op = "bindself" /\ Insert(todo.code.fn, c) /\ todo' = NextEntry(0)
      /\ UNCHANGED <<frames, code>>
  BY DEF BindSelf, Doing, op
<1>2. /\ sp >= 1 /\ Len(frames) > 0 /\ todo.code.fn \in Name
  BY EntryBinds DEF BindSelf
<1>3. /\ InsertedAt(Len(frames), todo.code.fn, c) /\ todo.code.fn \in LocalName
      /\ Len(frames) \in 1 .. MaxDepth
  BY <1>0, <1>1, <1>2, WrittenInsert DEF LocalName
<1>4. \/ op' \in {"none", "param"}
      \/ op' = "load" /\ todo'.code = todo.code /\ todo'.env = todo.env /\ todo.code.caps # <<>>
  <2>1. CASE 0 < Len(todo.code.caps)
    <3>1. todo' = Do("load", todo.code, todo.env, 0)
      BY <1>1, <2>1, TodoEdits, ControlParts DEF NextEntry
    <3> QED
      BY <1>0, <2>1, <3>1 DEF Do, op
  <2>2. CASE ~(0 < Len(todo.code.caps))
    <3>1. todo' \in {Idle, Do("param", todo.code, todo.env, 0)}
      BY <1>1, <2>2, TodoEdits, ControlParts DEF NextEntry
    <3> QED
      BY <3>1 DEF Do, Idle, op
  <2> QED
    BY <2>1, <2>2
<1>5. CASE op' \in {"none", "param"}
  BY <1>5 DEF EnvKept
<1>6. CASE op' = "load" /\ todo'.code = todo.code /\ todo'.env = todo.env /\ todo.code.caps # <<>>
  <2>1. PICK s : s = own[Temp(sp)] /\ s \in Block /\ kind[s] = "clos" /\ own[Field(s, 1)] = todo.env
    BY <1>1 DEF CInv, EnvKept, IsKind
  <2>2. todo.env \in Block
    <3>1. todo.env # Nil
      BY <1>1, <1>6 DEF CInv, HasEnv, EnvGiven
    <3> QED
      BY <1>0, <3>1 DEF Value
  <2>3. own'[Local(Len(frames), todo.code.fn)] = c /\ own'[Field(c, 1)] = s /\ c \in Block
    BY <1>0, <1>3, <2>1 DEF InsertedAt
  <2>4. own'[Field(s, 1)] = todo.env
    <3>1. s # c
      BY <1>3, <2>1 DEF InsertedAt
    <3> QED
      BY <1>0, <1>3, <2>1, <3>1 DEF InsertedAt
  <2> QED
    BY <1>1, <1>6, <2>1, <2>2, <2>3, <2>4 DEF EnvKept
<1> QED
  BY <1>4, <1>5, <1>6

(* A capture is bound next to it.                                          *)
LEMMA KeptCapture ==
  ASSUME CInv, NEW c \in Block, BindCapture(c)
  PROVE  EnvKept'
<1>0. /\ own \in [Slot -> Value] /\ kind \in [Block -> Kind] /\ 1 \in 1 .. Width
      /\ sp \in 0 .. MaxTemp /\ HeapInv /\ Len(frames) \in 0 .. MaxDepth
  BY Basics DEF CInv
<1>1. /\ op = "bindload" /\ Insert(todo.code.caps[todo.n + 1], c) /\ todo' = NextEntry(todo.n + 1)
      /\ UNCHANGED <<frames, code>>
  BY DEF BindCapture, Doing, op
<1>2. PICK x \in Name : /\ x = todo.code.caps[todo.n + 1] /\ sp >= 1 /\ Len(frames) > 0
                        /\ todo.n + 1 \in 1 .. Len(todo.code.caps)
  BY EntryBinds DEF BindCapture
<1>3. x # todo.code.fn /\ todo.code.fn \in LocalName
  BY <1>1, <1>2, SubjectIs DEF CInv, Codes, CodeOK, Entry, LocalName
<1>4. InsertedAt(Len(frames), x, c) /\ Len(frames) \in 1 .. MaxDepth
  <2>1. Insert(x, c) /\ UNCHANGED code
    BY <1>1, <1>2
  <2> QED
    BY <1>0, <1>2, <2>1, WrittenInsert
<1>5. \/ op' \in {"none", "param"}
      \/ op' = "load" /\ todo'.code = todo.code /\ todo'.env = todo.env
  <2>1. CASE todo.n + 1 < Len(todo.code.caps)
    <3>1. todo' = [todo EXCEPT !.op = "load", !.n = todo.n + 1]
      BY <1>1, <2>1 DEF NextEntry
    <3>2. todo' = Do("load", todo.code, todo.env, todo.n + 1)
      BY <3>1, TodoEdits, ControlParts
    <3> QED
      BY <3>2 DEF Do, op
  <2>2. CASE ~(todo.n + 1 < Len(todo.code.caps))
    <3>1. todo' \in {Idle, Do("param", todo.code, todo.env, 0)}
      BY <1>1, <2>2, TodoEdits, ControlParts DEF NextEntry
    <3> QED
      BY <3>1 DEF Do, Idle, op
  <2> QED
    BY <2>1, <2>2
<1>6. CASE op' \in {"none", "param"}
  BY <1>6 DEF EnvKept
<1>7. CASE op' = "load" /\ todo'.code = todo.code /\ todo'.env = todo.env
  <2>1. PICK l, s : /\ l = own[Local(Len(frames), todo.code.fn)] /\ s = own[Field(l, 1)]
                    /\ l \in Block /\ s \in Block /\ todo.env \in Block
                    /\ own[Field(s, 1)] = todo.env
    BY <1>1 DEF CInv, EnvKept
  <2>2. /\ Local(Len(frames), todo.code.fn) \in Slot /\ Field(l, 1) \in Slot
    BY <1>0, <1>3, <1>4, <2>1, SlotFamilies
  <2>3. l # c /\ s # c
    BY <1>0, <1>4, <2>1, <2>2, OwnedIsLive DEF InsertedAt
  <2>4. own'[Local(Len(frames), todo.code.fn)] = l
    BY <1>3, <1>4, <2>1 DEF InsertedAt
  <2>5. own'[Field(l, 1)] = s /\ own'[Field(s, 1)] = todo.env
    BY <1>0, <1>4, <2>1, <2>3 DEF InsertedAt
  <2> QED
    BY <1>1, <1>7, <2>1, <2>4, <2>5 DEF EnvKept
<1> QED
  BY <1>5, <1>6, <1>7

(* Every step leaves the env of the body that is entered with its owner.   *)
LEMMA KeptSteps ==
  ASSUME CInv, [Next]_vars
  PROVE  EnvKept'
<1>0. KindStep /\ 1 \in 1 .. Width /\ Nil \notin Block /\ todo.env \in Value
  BY KindSteps, Basics, ControlParts
<1>1. CASE op' \notin Unbound
  BY <1>1 DEF EnvKept, Unbound, Entry
<1>2. CASE UNCHANGED <<heap, sp, frames, todo>>
  <2>1. UNCHANGED <<own, kind, drain, sp, frames, todo, op, Due>>
    BY <1>2 DEF heap, op, Due
  <2> QED
    BY <2>1 DEF CInv, EnvKept, IsKind
<1>3. CASE Call
  <2>1. op' = "enter"
    BY <1>3 DEF Call, Do, op
  <2> QED
    BY <2>1 DEF EnvKept
<1>4. CASE Enter
  <2>1. op = "enter" /\ Settled /\ UNCHANGED <<own, kind, drain, sp, Due>>
    BY <1>4 DEF Enter, Doing, op, heap, Due
  <2>2. CASE todo' = todo
    <3>1. op' = "enter"
      BY <2>1, <2>2 DEF op
    <3> QED
      BY <3>1 DEF EnvKept
  <2>3. CASE todo' # todo
    <3>1. ~(todo.env \in Block /\ Free(todo.env)) /\ todo' = [todo EXCEPT !.op = "self"]
      BY <1>4, <2>3 DEF Enter
    <3>2. op' = "self" /\ todo'.env = todo.env
      <4>1. todo' = Do("self", todo.code, todo.env, todo.n)
        BY <3>1, TodoEdits, ControlParts
      <4> QED
        BY <4>1 DEF Do, op
    <3>3. todo.env # Nil => kind[todo.env] = "env"
      BY <1>0, <2>1, <3>1 DEF CInv, HasEnv, EnvGiven, Free, Value
    <3> QED
      BY <2>1, <3>2, <3>3 DEF EnvKept, Settled
  <2> QED
    BY <2>2, <2>3
<1>5. CASE LoadCapture
  <2>1. op = "load" /\ todo' = Do("bindload", todo.code, todo.env, todo.n) /\ UNCHANGED <<code, frames>>
    BY <1>5, TodoEdits, ControlParts DEF LoadCapture, Doing, op
  <2>2. PICK t \in Slot : Push(own[t])
    BY <1>5, LoadSlot DEF LoadCapture
  <2>3. FieldsKept /\ LocalsKept
    BY <2>1, <2>2, WrittenPush
  <2>4. PICK l, s : /\ l = own[Local(Len(frames), todo.code.fn)] /\ s = own[Field(l, 1)]
                    /\ l \in Block /\ s \in Block /\ todo.env \in Block
                    /\ own[Field(s, 1)] = todo.env
    BY <2>1 DEF CInv, EnvKept
  <2>5. Len(frames) \in 1 .. MaxDepth /\ todo.code.fn \in LocalName
    <3>1. frames # <<>>
      BY <2>1, ControlParts DEF Subject, Knows, Entry
    <3> QED
      BY <2>1, <3>1, Heights, SubjectIs DEF Entry, LocalName
  <2>6. own'[Local(Len(frames), todo.code.fn)] = l /\ own'[Field(l, 1)] = s
        /\ own'[Field(s, 1)] = todo.env
    BY <1>0, <2>3, <2>4, <2>5 DEF LocalsKept, FieldsKept
  <2>7. op' = "bindload" /\ todo'.code = todo.code /\ todo'.env = todo.env
    BY <2>1 DEF Do, op
  <2> QED
    BY <2>1, <2>4, <2>6, <2>7 DEF EnvKept
<1> QED
  BY <1>0, <1>1, <1>2, <1>3, <1>4, <1>5, UnboundSteps, KeptReleasing, KeptSelf, KeptBindSelf,
     KeptCapture

(***************************************************************************)
(* The invariant of every program.                                         *)
(***************************************************************************)

(* The machine starts in it.                                               *)
LEMMA ClosuresStart == Init => CInv
<1> SUFFICES ASSUME Init PROVE CInv
  OBVIOUS
<1>1. HeapInv
  BY HeapStart DEF Init
<1>2. /\ todo = Idle /\ todo.op = "none" /\ todo.code = NoCode /\ todo.env = Nil /\ todo.n = 0
      /\ sp = 0 /\ calls = <<>> /\ frames = <<>> /\ status = "running" /\ ran = 0
      /\ prog \in Programs /\ prog \in Program
      /\ code = [b \in Block |-> NoCode]
      /\ kind = [b \in Block |-> "free"] /\ own = [s \in Slot |-> Nil]
  BY FnAssumption DEF Init, Idle, Do, HeapInit, FnAssumption
<1>3. /\ MaxTemp \in Nat /\ MaxDepth \in Nat /\ Width \in Nat /\ Nil \notin Block
      /\ prog.calls \in 0 .. MaxDepth /\ prog.statements \in Nat
  BY <1>2, HeapAssumption DEF HeapAssumption, Program
<1>4. NoCode \in Code /\ <<>> \in Seq(1 .. MaxTemp) /\ <<>> \in Seq(0 .. MaxTemp) /\ Len(<<>>) = 0
  BY DEF NoCode, Code
<1>5. ClosTypeOK
  BY <1>1, <1>2, <1>3, <1>4 DEF ClosTypeOK, HeapInv, Ops, Value
<1>6. Stack /\ Position /\ Subject /\ Final
  BY <1>2, <1>3, <1>4 DEF Stack, Position, Place, Subject, Knows, Final, op, Entry, Idle
<1>7. Codes
  BY <1>2, NoCodeOK DEF Codes
<1>8. \A s \in Slot : own[s] = Nil
  BY <1>2
<1>9. RootsTyped
  BY <1>8, SlotFamilies DEF RootsTyped, IsVal
<1>10. FieldsTyped
  BY <1>8, SlotFamilies DEF FieldsTyped
<1>11. BuiltAlone /\ EnvKept
  BY <1>2 DEF BuiltAlone, EnvKept, Building, op
<1>12. HasEnv
  BY <1>2, <1>4 DEF HasEnv, ClosuresWhole, CalleesAre, EnvGiven, op
<1> QED
  BY <1>1, <1>5, <1>6, <1>7, <1>9, <1>10, <1>11, <1>12 DEF CInv, Control

(* And every step keeps it.                                                *)
LEMMA ClosuresNext == CInv /\ [Next]_vars => CInv'
<1> SUFFICES ASSUME CInv, [Next]_vars PROVE CInv'
  OBVIOUS
<1>1. HeapInv'
  BY HeapSteps
<1>2. Control'
  BY <1>1, ControlSteps, FinalSteps, ControlIs
<1>3. HasEnv'
  BY WholeSteps, GivenSteps DEF HasEnv
<1> QED
  BY <1>1, <1>2, <1>3, CodesSteps, TypedSteps, BuiltSteps, KeptSteps DEF CInv

(***************************************************************************)
(* No cycle is built.                                                      *)
(***************************************************************************)

FieldsBut(c) == \A b \in Block \ {c}, i \in 1 .. Width : own'[Field(b, i)] = own[Field(b, i)]

\* No field refers to a block.
NoParent(c) == \A p \in Block, i \in 1 .. Width : own'[Field(p, i)] # c

\* Fields are given up, or those of a block that no field refers to are
\* written.
FieldsGrowOutwards ==
  \/ \A b \in Block, i \in 1 .. Width : own'[Field(b, i)] \in {own[Field(b, i)], Nil}
  \/ \E c \in Block : FieldsBut(c) /\ NoParent(c)

(* So no cycle is closed.                                                  *)
LEMMA OutwardsAcyclic ==
  ASSUME own \in [Slot -> Value], own' \in [Slot -> Value], Acyclic(own), FieldsGrowOutwards
  PROVE  Acyclic(own')
<1>1. CASE \A b \in Block, i \in 1 .. Width : own'[Field(b, i)] \in {own[Field(b, i)], Nil}
  <2>1. \A b \in Block : Children(own', {b}) \subseteq Children(own, {b})
    BY <1>1 DEF Children
  <2> QED
    BY <2>1, AcyclicStep
<1>2. ASSUME NEW c \in Block, FieldsBut(c), NoParent(c)
      PROVE  Acyclic(own')
  <2>1. \A b \in Block \ {c} : Children(own', {b}) \subseteq Children(own, {b})
    BY <1>2 DEF Children, FieldsBut
  <2>2. \A b \in Block : \/ Children(own', {b}) \subseteq Children(own, {b})
                         \/ \A p \in Block, i \in 1 .. Width : own'[Field(p, i)] # b
    BY <1>2, <2>1 DEF NoParent
  <2> QED
    BY <2>2, AcyclicStep
<1> QED
  BY <1>1, <1>2 DEF FieldsGrowOutwards

(* No field refers to a cell.                                              *)
LEMMA CellNoParent ==
  ASSUME FieldsTyped', NEW c \in Block, kind'[c] = "cell"
  PROVE  NoParent(c)
<1>1. Nil \notin Block
  BY HeapAssumption DEF HeapAssumption
<1> QED
  BY <1>1 DEF FieldsTyped, NoParent, IsKind, IsVal

(* A binding writes the fields of a cell at most.                          *)
LEMMA OutwardsBind ==
  ASSUME CInv, FieldsTyped', NEW x \in Name, NEW c \in Block, Bind(x, c), sp >= 1
  PROVE  FieldsGrowOutwards
<1>0. /\ own \in [Slot -> Value] /\ sp \in 1 .. MaxTemp /\ MaxTemp \in Nat /\ 1 \in 1 .. Width
      /\ Len(frames) \in 0 .. MaxDepth
  BY Basics
<1>1. PICK k \in 1 .. MaxTemp, d \in Nat : k = sp /\ d = Len(frames)
  BY <1>0
<1>2. CASE d = 0
  <2>1. own' = Exchange(own, Temp(k), Glob(x))
    BY <1>1, <1>2 DEF Bind, depth
  <2>2. FieldsKept
    BY <1>0, <2>1, GlobSwap
  <2> QED
    BY <2>2 DEF FieldsGrowOutwards, FieldsKept
<1>3. CASE d # 0
  <2>1. d \in 1 .. MaxDepth /\ x \in LocalName
    BY <1>0, <1>1, <1>3 DEF LocalName
  <2>2. /\ Alloc(c, "cell", 1)
        /\ own' = Put(Exchange(Exchange(own, Temp(k), Field(c, 1)), Temp(k), Local(d, x)),
                      Local(d, x), c)
    BY <1>1, <1>3 DEF Bind, depth
  <2>3. own[Field(c, 1)] = Nil /\ kind'[c] = "cell"
    BY <1>0, <2>2, Basics DEF Alloc, Free, CInv, HeapInv, FreeOwnsNothing
  <2>4. \A b \in Block, i \in 1 .. Width :
          own'[Field(b, i)] = IF b = c /\ i = 1 THEN own[Temp(k)] ELSE own[Field(b, i)]
    BY <1>0, <2>1, <2>2, <2>3, CellBound
  <2>5. FieldsBut(c)
    BY <2>4 DEF FieldsBut
  <2> QED
    BY <2>3, <2>5, CellNoParent DEF FieldsGrowOutwards
<1> QED
  BY <1>2, <1>3

(* So does an assignment.                                                  *)
LEMMA OutwardsReassign ==
  ASSUME CInv, FieldsTyped', NEW x \in Name, Reassign(x)
  PROVE  FieldsGrowOutwards
<1>0. /\ own \in [Slot -> Value] /\ MaxTemp \in Nat /\ 1 \in 1 .. Width
      /\ sp \in 1 .. MaxTemp /\ UNCHANGED kind
  BY Basics, Heights DEF Reassign, Evaluated
<1>1. PICK k \in 1 .. MaxTemp, s \in Slot :
        k = sp /\ Resolves(x, s) /\ own' = Exchange(own, Temp(k), s)
  BY <1>0 DEF Reassign
<1>2. CASE s = Glob(x)
  <2>1. own' = Exchange(own, Temp(k), Glob(x))
    BY <1>1, <1>2
  <2>2. FieldsKept
    BY <1>0, <2>1, GlobSwap
  <2> QED
    BY <2>2 DEF FieldsGrowOutwards, FieldsKept
<1>3. CASE s # Glob(x)
  <2>1. PICK l \in Block : kind[l] = "cell" /\ s = Field(l, 1)
    BY <1>1, <1>3, Resolved
  <2>2. own' = Exchange(own, Temp(k), Field(l, 1))
    BY <1>1, <2>1
  <2>3. \A b \in Block, i \in 1 .. Width :
          own'[Field(b, i)] = IF b = l /\ i = 1 THEN own[Temp(k)] ELSE own[Field(b, i)]
    BY <1>0, <2>2, FieldSwap
  <2>4. FieldsBut(l)
    BY <2>3 DEF FieldsBut
  <2> QED
    BY <1>0, <2>1, <2>4, CellNoParent DEF FieldsGrowOutwards
<1> QED
  BY <1>2, <1>3

(* A capture goes into an env that only a temporary refers to.             *)
LEMMA OutwardsCapture ==
  ASSUME CInv, BuiltAlone', CaptureNext
  PROVE  FieldsGrowOutwards
<1>0. /\ own \in [Slot -> Value] /\ Doing("capture") /\ op = "capture" /\ UNCHANGED sp
  BY Basics DEF CaptureNext, Doing, op
<1>1. PICK e, i, v : e = Top /\ i = len[e] + 1 /\ v = Captured(todo.code.caps[i])
  OBVIOUS
<1>2. e \in Block /\ i \in 1 .. Width /\ v \in Value
  BY <1>0, <1>1, CaptureSlots
<1>3. own' = Put(own, Field(e, i), v)
  BY <1>1 DEF CaptureNext
<1>4. /\ TempsKept
      /\ \A b \in Block, j \in 1 .. Width :
           own'[Field(b, j)] = IF b = e /\ j = i THEN v ELSE own[Field(b, j)]
  BY <1>0, <1>2, <1>3, FieldPut
<1>5. Building'
  <2>1. PICK o \in {"closure", "capture"} : todo' = [todo EXCEPT !.op = o]
    BY DEF CaptureNext
  <2>2. todo' = Do(o, todo.code, todo.env, todo.n)
    BY <2>1, TodoEdits, ControlParts
  <2>3. op' = o /\ todo'.code = todo.code
    BY <2>2 DEF Do, op
  <2>4. todo.code.caps # <<>>
    BY <1>0, ControlParts DEF Subject, Knows
  <2> QED
    BY <2>1, <2>3, <2>4 DEF Building
<1>6. own'[Temp(sp)] = e
  <2>1. sp \in 1 .. MaxTemp
    <3>1. sp = Base + 1 /\ Base \in Nat /\ sp \in 0 .. MaxTemp /\ MaxTemp \in Nat
      BY <1>0, ControlParts, Heights, Basics DEF Position, Place
    <3> QED
      BY <3>1
  <2> QED
    BY <1>1, <1>4, <2>1 DEF TempsKept, Top
<1>7. NoParent(e)
  <2>1. \A s \in Slot : own'[s] = e => s = Temp(sp)
    BY <1>0, <1>5, <1>6 DEF BuiltAlone
  <2> QED
    BY <2>1, SlotFamilies, OtherSlot DEF NoParent
<1>8. FieldsBut(e)
  BY <1>4 DEF FieldsBut
<1> QED
  BY <1>2, <1>7, <1>8 DEF FieldsGrowOutwards

(* A fresh block has no parent.                                            *)
LEMMA FreshNoParent ==
  ASSUME CInv, NEW c \in Block, kind[c] = "free", NEW v, v # c,
         \A b \in Block, i \in 1 .. Width :
           own'[Field(b, i)] = IF b = c /\ i = 1 THEN v ELSE own[Field(b, i)]
  PROVE  FieldsGrowOutwards
<1>1. \A s \in Slot : own[s] # c
  BY FreeIsUnreferenced DEF CInv
<1>2. NoParent(c)
  BY <1>1, SlotFamilies DEF NoParent
<1>3. FieldsBut(c)
  BY DEF FieldsBut
<1> QED
  BY <1>2, <1>3 DEF FieldsGrowOutwards

(* A closure is made over an env that exists.                              *)
LEMMA OutwardsClosure ==
  ASSUME CInv, NEW c \in Block, MakeClosure(c) \/ SelfClosure(c)
  PROVE  FieldsGrowOutwards
<1>0. /\ own \in [Slot -> Value] /\ sp \in 0 .. MaxTemp /\ MaxTemp \in Nat /\ 1 \in 1 .. Width
      /\ prog.temps \in 0 .. MaxTemp /\ c \in Value /\ todo.env \in Value
  BY Basics, ControlParts DEF Value
<1>1. kind[c] = "free" /\ \A s \in Slot : own[s] # c
  <2>1. kind[c] = "free"
    BY DEF MakeClosure, SelfClosure, Alloc, Free
  <2> QED
    BY <2>1, FreeIsUnreferenced DEF CInv
<1>2. CASE SelfClosure(c)
  <2>1. PICK k \in 1 .. MaxTemp, e \in Value : k = sp + 1 /\ e = todo.env
    BY <1>0, <1>2 DEF SelfClosure
  <2>2. own' = Put(Put(own, Field(c, 1), e), Temp(k), c)
    BY <1>2, <2>1 DEF SelfClosure
  <2>3. \A b \in Block, i \in 1 .. Width :
          own'[Field(b, i)] = IF b = c /\ i = 1 THEN e ELSE own[Field(b, i)]
    BY <1>0, <2>2, SelfMade
  <2>4. e # c
    BY <1>2, <2>1, SelfStep
  <2> QED
    BY <1>1, <2>3, <2>4, FreshNoParent
<1>3. CASE MakeClosure(c) /\ todo.code.caps = <<>>
  <2>1. PICK k \in 1 .. MaxTemp : k = sp + 1
    BY <1>0, <1>3 DEF MakeClosure
  <2>2. own' = Put(own, Temp(k), c)
    BY <1>3, <2>1 DEF MakeClosure
  <2>3. FieldsKept
    BY <1>0, <2>2, TempPut
  <2> QED
    BY <2>3 DEF FieldsGrowOutwards, FieldsKept
<1>4. CASE MakeClosure(c) /\ todo.code.caps # <<>>
  <2>1. op = "closure"
    BY <1>4 DEF MakeClosure, Doing, op
  <2>2. sp = Base + 1 /\ Base \in 0 .. sp
    BY <1>4, <2>1, ControlParts, Heights DEF Position, Place
  <2>3. PICK k \in 1 .. MaxTemp : k = sp
    BY <1>0, <2>2
  <2>4. own' = Put(Exchange(own, Temp(k), Field(c, 1)), Temp(k), c)
    BY <1>4, <2>3 DEF MakeClosure
  <2>5. \A b \in Block, i \in 1 .. Width :
          own'[Field(b, i)] = IF b = c /\ i = 1 THEN own[Temp(k)] ELSE own[Field(b, i)]
    BY <1>0, <2>4, Wrapped
  <2>6. PICK v : v = own[Temp(k)]
    OBVIOUS
  <2>7. v # c
    BY <1>1, <2>6, SlotFamilies
  <2>8. \A b \in Block, i \in 1 .. Width :
          own'[Field(b, i)] = IF b = c /\ i = 1 THEN v ELSE own[Field(b, i)]
    BY <2>5, <2>6
  <2> QED
    BY <1>1, <2>7, <2>8, FreshNoParent
<1> QED
  BY <1>2, <1>3, <1>4

(* In every step fields grow outwards.                                     *)
LEMMA OutwardsSteps ==
  ASSUME CInv, CInv', [Next]_vars
  PROVE  FieldsGrowOutwards
<1>0. /\ own \in [Slot -> Value] /\ sp \in 0 .. MaxTemp /\ MaxTemp \in Nat /\ 1 \in 1 .. Width
      /\ prog.temps \in 0 .. MaxTemp /\ FieldsTyped' /\ BuiltAlone'
      /\ kind \in [Block -> Kind] /\ Len(frames) \in 0 .. MaxDepth
  BY Basics DEF CInv
<1>1. CASE FieldsKept
  BY <1>1 DEF FieldsKept, FieldsGrowOutwards
<1>2. ASSUME NEW s \in Slot, own' = Put(own, s, Nil)
      PROVE  FieldsGrowOutwards
  <2>1. \A u \in Slot : own'[u] \in {own[u], Nil}
    BY <1>0, <1>2 DEF Put
  <2> QED
    BY <2>1, SlotFamilies DEF FieldsGrowOutwards
<1>3. CASE UNCHANGED own
  BY <1>1, <1>3 DEF FieldsKept
<1>4. CASE UNCHANGED vars \/ Abort \/ EndProgram \/ Exit \/ PushConst \/ FallThrough \/ Discard
           \/ Return \/ Enter \/ BackInCaller \/ OpenCallOnValue
           \/ \E f \in Fn, q \in CaptureList : Define(f, q)
  BY <1>3, <1>4 DEF vars, heap, Abort, EndProgram, Exit, PushConst, FallThrough, Discard, Return,
                    Enter, BackInCaller, Define, OpenCallOnValue
<1>5. CASE Releasing
  <2>1. \A s \in Slot : own'[s] \in {own[s], Nil}
    BY <1>5, Released
  <2> QED
    BY <2>1, SlotFamilies DEF FieldsGrowOutwards
<1>6. CASE ReleaseLocal
  <2>1. PICK x \in Name : Drop(Local(depth, x))
    BY <1>6 DEF ReleaseLocal
  <2>2. op = "return" /\ frames # <<>>
    BY <1>6, ControlParts DEF ReleaseLocal, Doing, op, Subject, Knows
  <2>3. Local(depth, x) \in Slot
    BY <2>2, Heights, SlotFamilies DEF depth, LocalName
  <2> QED
    BY <1>2, <2>1, <2>3 DEF Drop
<1>7. CASE ReleaseGlobal
  <2>1. PICK x \in Name : Drop(Glob(x))
    BY <1>7 DEF ReleaseGlobal
  <2> QED
    BY <1>2, <2>1, SlotFamilies DEF Drop
<1>8. ASSUME NEW b \in Block, PushString(b) \/ MakeEnv(b) PROVE FieldsGrowOutwards
  <2>1. PICK k \in 1 .. MaxTemp, v \in Value : k = sp + 1 /\ v = b
    BY <1>0, <1>8 DEF PushString, MakeEnv, Value
  <2>2. own' = Put(own, Temp(k), v)
    BY <1>8, <2>1 DEF PushString, MakeEnv
  <2> QED
    BY <1>0, <1>1, <2>2, TempPut
<1>9. CASE LoadCapture \/ \E x \in Name : LoadVar(x) \/ OpenCall(x)
  <2>1. PICK s \in Slot : Push(own[s])
    BY <1>9, LoadSlot DEF LoadCapture, LoadVar, OpenCall
  <2>2. PICK k \in 1 .. MaxTemp, v \in Value : k = sp + 1 /\ v = own[s]
    BY <1>0, <2>1 DEF Push
  <2>3. own' = Put(own, Temp(k), v)
    BY <2>1, <2>2 DEF Push
  <2> QED
    BY <1>0, <1>1, <2>3, TempPut
<1>10. ASSUME NEW c \in Block, NEW x \in Name, Assign(x, c) PROVE FieldsGrowOutwards
  <2>1. Bind(x, c) /\ sp = Base + 1 /\ Base \in Nat
    BY <1>0, <1>10, Heights DEF Assign, Evaluated
  <2> QED
    BY <1>0, <2>1, OutwardsBind
<1>11. ASSUME NEW c \in Block, BindFn(c) PROVE FieldsGrowOutwards
  <2>1. op = "bind" /\ Bind(todo.code.fn, c)
    BY <1>11 DEF BindFn, Doing, op
  <2>2. sp = Base + 1 /\ Base \in Nat /\ todo.code.fn \in Name
    BY <1>0, <2>1, ControlParts, SubjectIs, Heights DEF Position, Place
  <2> QED
    BY <1>0, <2>1, <2>2, OutwardsBind
<1>12. ASSUME NEW c \in Block, BindSelf(c) \/ BindCapture(c) \/ BindParam(c)
       PROVE  FieldsGrowOutwards
  <2>1. PICK x \in Name : /\ Insert(x, c) /\ sp >= 1 /\ Len(frames) > 0 /\ UNCHANGED code
    BY <1>12, EntryBinds DEF BindSelf, BindCapture, BindParam
  <2>2. InsertedAt(Len(frames), x, c)
    BY <2>1, WrittenInsert
  <2>3. FieldsBut(c)
    BY <1>0, <2>2 DEF FieldsBut, InsertedAt
  <2>4. kind'[c] = "cell"
    BY <1>0, <2>1 DEF Insert, Alloc
  <2> QED
    BY <1>0, <2>3, <2>4, CellNoParent DEF FieldsGrowOutwards
<1>13. CASE Call
  <2>1. PICK k \in 1 .. MaxTemp, m \in 1 .. MaxTemp : k = Floor /\ m = sp
    BY <1>0, <1>13, CalleeIs, Heights DEF Call
  <2>2. own' = Exchange(own, Temp(k), Temp(m))
    BY <1>13, <2>1 DEF Call
  <2> QED
    BY <1>0, <1>1, <2>2, TempSwap
<1> QED
  BY <1>0, <1>4, <1>5, <1>6, <1>7, <1>8, <1>9, <1>10, <1>11, <1>12, <1>13, OutwardsReassign,
     OutwardsCapture, OutwardsClosure DEF Next, Releasing

(***************************************************************************)
(* What a program that has ended leaves.                                   *)
(***************************************************************************)

(* The count of outstanding blocks is right after every step.              *)
LEMMA FunctionsWeight ==
  ASSUME CInv, LiveInv, [Next]_vars
  PROVE  LiveInv'
<1>0. HeapInv /\ HeapTypeOK /\ {"str", "env", "clos", "cell"} \subseteq Kind \ {"free", "arr"}
  BY DEF CInv, HeapInv, Kind
<1>1. CASE UNCHANGED <<kind, cap, gcLive>>
  BY <1>1, WeightStutter
<1>2. ASSUME NEW b \in Block, NEW k \in {"str", "env", "clos", "cell"}, NEW n, Alloc(b, k, n),
             gcLive' = gcLive + 1, UNCHANGED cap
      PROVE  LiveInv'
  <2>1. k \in Kind \ {"free", "arr"}
    BY <1>0
  <2> QED
    BY <1>0, <1>2, <2>1, AllocPlain
<1>3. CASE RunCascade
  BY <1>0, <1>3, CascadeWeight DEF RunCascade
<1>4. ASSUME NEW c \in Block, SelfClosure(c) PROVE LiveInv'
  <2>1. /\ kind[c] = "free" /\ kind' = [kind EXCEPT ![c] = "clos"] /\ gcLive' = gcLive + 1
        /\ UNCHANGED cap
    BY <1>4 DEF SelfClosure, Free
  <2>2. cap[c] = 0 /\ cap' = [cap EXCEPT ![c] = 0]
    BY <1>0, <2>1 DEF LiveInv, BuffersOfArrays, HeapTypeOK
  <2>3. gcLive' = gcLive - Weight(c) + 1 + Buffers(0)
    BY <1>0, <2>1 DEF Weight, Live, Buffered, Buffers, HeapTypeOK
  <2>4. PICK k \in Kind : k = "clos" /\ k # "free" /\ k # "arr"
    BY DEF Kind
  <2>5. PICK z \in Nat : z = 0
    OBVIOUS
  <2>6. /\ kind' = [kind EXCEPT ![c] = k]
        /\ cap' = [cap EXCEPT ![c] = z]
        /\ k # "arr" => z = 0
        /\ gcLive' = gcLive - Weight(c) + (IF k # "free" THEN 1 ELSE 0) + Buffers(z)
    BY <2>1, <2>2, <2>3, <2>4, <2>5
  <2> QED
    BY <1>0, <2>6, WeightStep
<1>5. ASSUME NEW x, NEW c \in Block, Bind(x, c) \/ Insert(x, c) PROVE LiveInv'
  BY <1>1, <1>2, <1>5 DEF Bind, Insert
<1>6. ASSUME NEW c \in Block, PushString(c) \/ MakeEnv(c) \/ MakeClosure(c) PROVE LiveInv'
  BY <1>2, <1>6 DEF PushString, MakeEnv, MakeClosure
<1>7. ASSUME NEW c \in Block,
             (\E x \in Name : Assign(x, c)) \/ BindFn(c) \/ BindSelf(c) \/ BindCapture(c) \/ BindParam(c)
      PROVE  LiveInv'
  BY <1>5, <1>7 DEF Assign, BindFn, BindSelf, BindCapture, BindParam
<1> QED
  BY <1>1, <1>3, <1>4, <1>6, <1>7
     DEF Next, vars, heap, ReleaseOperand, Drop, PushConst, LoadVar, Push, Discard, Reassign,
         Define, CaptureNext, OpenCall, OpenCallOnValue, Call, Enter, LoadCapture, Return,
         FallThrough, ReleaseLocal, BackInCaller, Abort, EndProgram, ReleaseGlobal, Exit

\* The names a body that is entered has bound so far: its own, then the
\* first n of its captures.
BoundAtMost(n) ==
  \A x \in Name :
    own[Local(Len(frames), x)] # Nil =>
      x = todo.code.fn \/ \E i \in 1 .. n : x = todo.code.caps[i]

EntryLocals ==
  /\ op \in {"self", "bindself"} => \A x \in Name : own[Local(Len(frames), x)] = Nil
  /\ op \in {"load", "bindload"} => BoundAtMost(todo.n)
  /\ op = "param" => BoundAtMost(Len(todo.code.caps))

(* A binding adds its name to those.                                       *)
LEMMA OneMoreBound ==
  ASSUME CInv, NEW n \in Nat, NEW m \in Nat, n <= m, NEW x \in Name, NEW c \in Block,
         InsertedAt(Len(frames), x, c), Len(frames) > 0, UNCHANGED frames,
         todo'.code = todo.code,
         x = todo.code.fn \/ \E i \in 1 .. m : x = todo.code.caps[i],
         BoundAtMost(n)
  PROVE  BoundAtMost(m)'
<1>0. Len(frames) \in 1 .. MaxDepth
  BY Basics
<1> SUFFICES ASSUME NEW y \in Name, own'[Local(Len(frames), y)] # Nil
             PROVE  y = todo.code.fn \/ \E i \in 1 .. m : y = todo.code.caps[i]
  BY DEF BoundAtMost
<1>1. CASE y = x
  BY <1>1
<1>2. CASE y # x
  <2>1. own[Local(Len(frames), y)] # Nil
    BY <1>0, <1>2 DEF InsertedAt, LocalName
  <2>2. y = todo.code.fn \/ \E i \in 1 .. n : y = todo.code.caps[i]
    BY <2>1 DEF BoundAtMost
  <2> QED
    BY <2>2
<1> QED
  BY <1>1, <1>2

(* A body binds each name once.                                            *)
LEMMA EntrySteps ==
  ASSUME CInv, CInv', EntryLocals, [Next]_vars
  PROVE  EntryLocals'
<1>0. /\ own \in [Slot -> Value] /\ sp \in 0 .. MaxTemp /\ MaxTemp \in Nat /\ 1 \in 1 .. Width
      /\ prog.temps \in 0 .. MaxTemp /\ Len(frames) \in 0 .. MaxDepth /\ todo.n \in Nat
      /\ todo.code.caps \in Seq(Name) /\ Len(todo.code.caps) \in Nat /\ todo.env \in Value
      /\ Width \in Nat
  <2>1. todo.n \in 0 .. Width /\ todo.code \in Code /\ Width \in Nat
    BY ControlParts, Basics
  <2>2. todo.n \in Nat /\ todo.code.caps \in Seq(Name) /\ Len(todo.code.caps) \in Nat
    BY <2>1 DEF Code
  <2> QED
    BY <2>1, <2>2, Basics, ControlParts
<1>1. CASE op' \notin Unbound
  BY <1>1 DEF EntryLocals, Unbound, Entry
<1>2. ASSUME LocalsKept, UNCHANGED <<frames, todo>>
      PROVE  EntryLocals'
  <2>1. CASE Len(frames) = 0
    <3>1. frames = <<>>
      BY <2>1, ControlParts
    <3>2. op \notin Entry
      BY <3>1, ControlParts DEF Subject, Knows
    <3> QED
      BY <1>2, <3>2 DEF EntryLocals, Entry, op
  <2>2. CASE Len(frames) # 0
    <3>1. \A x \in Name : own'[Local(Len(frames), x)] = own[Local(Len(frames), x)]
      BY <1>0, <1>2, <2>2 DEF LocalsKept, LocalName
    <3> QED
      BY <1>2, <3>1 DEF EntryLocals, BoundAtMost, op
  <2> QED
    BY <2>1, <2>2
<1>3. CASE UNCHANGED <<heap, sp, frames, todo>>
  BY <1>2, <1>3 DEF heap, LocalsKept
<1>4. CASE Releasing
  BY <1>2, <1>4, Released
<1>5. CASE Call
  <2>1. op' = "enter"
    BY <1>5 DEF Call, Do, op
  <2> QED
    BY <2>1 DEF EntryLocals
<1>6. CASE Enter
  <2>1. op = "enter" /\ UNCHANGED own
    BY <1>6 DEF Enter, Doing, op, heap
  <2>2. CASE todo' = todo
    <3>1. op' = "enter"
      BY <2>1, <2>2 DEF op
    <3> QED
      BY <3>1 DEF EntryLocals
  <2>3. CASE todo' # todo
    <3>1. frames' = Append(frames, sp - Arity(todo.code.fn)) /\ todo' = [todo EXCEPT !.op = "self"]
      BY <1>6, <2>3 DEF Enter
    <3>2. Len(frames') = Len(frames) + 1 /\ Len(frames') \in 0 .. MaxDepth
      <4>1. Len(frames') <= MaxDepth
        BY DEF CInv, Control, ClosTypeOK
      <4>2. Len(frames') = Len(frames) + 1
        BY <3>1, ControlParts
      <4> QED
        BY <1>0, <4>1, <4>2, Basics
    <3>3. \A x \in Name : own[Local(Len(frames'), x)] = Nil
      <4>1. Len(frames') \in 1 .. MaxDepth /\ ~(Len(frames') <= Len(frames))
        BY <1>0, <3>2
      <4> QED
        BY <4>1 DEF CInv, RootsTyped, LocalName
    <3>4. op' = "self"
      <4>1. todo' = Do("self", todo.code, todo.env, todo.n)
        BY <3>1, TodoEdits, ControlParts
      <4> QED
        BY <4>1 DEF Do, op
    <3> QED
      BY <2>1, <3>3, <3>4 DEF EntryLocals
  <2> QED
    BY <2>2, <2>3
<1>7. ASSUME NEW c \in Block, SelfClosure(c) PROVE EntryLocals'
  <2>1. /\ op = "self" /\ todo' = Do("bindself", todo.code, todo.env, todo.n)
        /\ UNCHANGED frames
    BY <1>7, TodoEdits, ControlParts DEF SelfClosure, Doing, op
  <2>2. PICK k \in 1 .. MaxTemp, e \in Value : k = sp + 1 /\ e = todo.env
    BY <1>0, <1>7 DEF SelfClosure
  <2>3. own' = Put(Put(own, Field(c, 1), e), Temp(k), c)
    BY <1>7, <2>2 DEF SelfClosure
  <2>4. LocalsKept
    BY <1>0, <2>3, SelfMade
  <2>5. Len(frames) \in 1 .. MaxDepth
    BY <2>1, ControlParts, Heights DEF Subject, Knows, Entry
  <2>6. op' = "bindself"
    BY <2>1 DEF Do, op
  <2> QED
    BY <2>1, <2>4, <2>5, <2>6 DEF EntryLocals, LocalsKept, LocalName
<1>8. CASE LoadCapture
  <2>1. op = "load" /\ todo' = Do("bindload", todo.code, todo.env, todo.n) /\ UNCHANGED <<code, frames>>
    BY <1>8, TodoEdits, ControlParts DEF LoadCapture, Doing, op
  <2>2. PICK t \in Slot : Push(own[t])
    BY <1>8, LoadSlot DEF LoadCapture
  <2>3. LocalsKept
    BY <2>1, <2>2, WrittenPush
  <2>4. Len(frames) \in 1 .. MaxDepth
    BY <2>1, ControlParts, Heights DEF Subject, Knows, Entry
  <2>5. op' = "bindload" /\ todo'.code = todo.code /\ todo'.n = todo.n
    BY <2>1 DEF Do, op
  <2>6. \A x \in Name : own'[Local(Len(frames), x)] = own[Local(Len(frames), x)]
    BY <2>3, <2>4 DEF LocalsKept, LocalName
  <2>7. BoundAtMost(todo.n)
    BY <2>1 DEF EntryLocals
  <2>8. BoundAtMost(todo.n)'
    BY <2>1, <2>5, <2>6, <2>7 DEF BoundAtMost
  <2> QED
    BY <2>5, <2>8 DEF EntryLocals
<1>9. ASSUME NEW m \in Nat, todo' = NextEntry(m), BoundAtMost(m)',
             m <= Len(todo.code.caps)
      PROVE  EntryLocals'
  <2>1. CASE m < Len(todo.code.caps)
    <3>1. todo' = [todo EXCEPT !.op = "load", !.n = m]
      BY <1>9, <2>1 DEF NextEntry
    <3>2. todo' = Do("load", todo.code, todo.env, m)
      BY <3>1, TodoEdits, ControlParts
    <3>3. op' = "load" /\ todo'.n = m
      BY <3>2 DEF Do, op
    <3> QED
      BY <1>9, <3>3 DEF EntryLocals
  <2>2. CASE ~(m < Len(todo.code.caps))
    <3>1. todo' = Idle \/ todo' = [todo EXCEPT !.op = "param", !.n = 0]
      BY <1>9, <2>2 DEF NextEntry
    <3>2. todo' = Idle \/ todo' = Do("param", todo.code, todo.env, 0)
      BY <3>1, TodoEdits, ControlParts
    <3>3. op' = "none" \/ (op' = "param" /\ todo'.code = todo.code)
      BY <3>2 DEF Do, Idle, op
    <3>4. m = Len(todo.code.caps)
      BY <1>0, <1>9, <2>2
    <3> QED
      BY <1>9, <3>3, <3>4 DEF EntryLocals
  <2> QED
    BY <2>1, <2>2
<1>10. ASSUME NEW m \in Nat, todo' = NextEntry(m) PROVE todo'.code = todo.code \/ op' = "none"
  <2>1. todo' \in {[todo EXCEPT !.op = "load", !.n = m], Idle, [todo EXCEPT !.op = "param", !.n = 0]}
    BY <1>10 DEF NextEntry
  <2>2. todo' \in {Do("load", todo.code, todo.env, m), Idle, Do("param", todo.code, todo.env, 0)}
    BY <2>1, TodoEdits, ControlParts
  <2> QED
    BY <2>2 DEF Do, Idle, op
<1>11. ASSUME NEW c \in Block, BindSelf(c), op' # "none" PROVE EntryLocals'
  <2>1. /\ op = "bindself" /\ Insert(todo.code.fn, c) /\ todo' = NextEntry(0)
        /\ UNCHANGED <<frames, code>>
    BY <1>11 DEF BindSelf, Doing, op
  <2>2. PICK x \in Name : x = todo.code.fn /\ sp >= 1 /\ Len(frames) > 0 /\ Insert(x, c)
    BY <1>11, <2>1, EntryBinds DEF BindSelf
  <2>3. InsertedAt(Len(frames), x, c)
    BY <2>1, <2>2, WrittenInsert
  <2>4. BoundAtMost(0)
    BY <2>1 DEF EntryLocals, BoundAtMost
  <2>5. todo'.code = todo.code
    BY <1>10, <1>11, <2>1
  <2>6. BoundAtMost(0)'
    BY <2>1, <2>2, <2>3, <2>4, <2>5, OneMoreBound
  <2> QED
    BY <1>0, <1>9, <2>1, <2>6
<1>12. ASSUME NEW c \in Block, BindCapture(c), op' # "none" PROVE EntryLocals'
  <2>1. /\ op = "bindload" /\ Insert(todo.code.caps[todo.n + 1], c) /\ todo' = NextEntry(todo.n + 1)
        /\ UNCHANGED <<frames, code>>
    BY <1>12 DEF BindCapture, Doing, op
  <2>2. PICK x \in Name, m \in Nat :
          /\ x = todo.code.caps[m] /\ sp >= 1 /\ Len(frames) > 0 /\ Insert(x, c)
          /\ m = todo.n + 1 /\ m \in 1 .. Len(todo.code.caps)
    BY <1>0, <1>12, <2>1, EntryBinds DEF BindCapture
  <2>3. InsertedAt(Len(frames), x, c)
    BY <2>1, <2>2, WrittenInsert
  <2>4. BoundAtMost(todo.n)
    BY <2>1 DEF EntryLocals
  <2>5. todo'.code = todo.code
    BY <1>10, <1>12, <2>1, <2>2
  <2>6. BoundAtMost(m)'
    <3>1. todo.n <= m /\ \E i \in 1 .. m : x = todo.code.caps[i]
      BY <1>0, <2>2
    <3> QED
      BY <1>0, <2>1, <2>2, <2>3, <2>4, <2>5, <3>1, OneMoreBound
  <2> QED
    BY <1>0, <1>9, <2>1, <2>2, <2>6
<1>13. CASE op' = "none"
  BY <1>13 DEF EntryLocals
<1> QED
  BY <1>1, <1>3, <1>4, <1>5, <1>6, <1>7, <1>8, <1>11, <1>12, <1>13, UnboundSteps

\* No function has a parameter of its own name.
NamesApart == \A f \in Fn : prog.param[f] # f

\* The binding of a name replaces no cell, so no reference is lost.
NoneLost == NamesApart => \A b \in Block : orphan[b] = 0

(* The names a body binds are distinct: each insert finds the name free.   *)
LEMMA LostSteps ==
  ASSUME CInv, EntryLocals, NoneLost, [Next]_vars
  PROVE  NoneLost'
<1>0. own \in [Slot -> Value] /\ Nil \notin Block /\ Len(frames) \in 0 .. MaxDepth
  BY Basics
<1>1. CASE UNCHANGED <<orphan, prog>>
  BY <1>1 DEF NoneLost, NamesApart
<1>2. ASSUME NEW x \in Name, NEW c \in Block, Insert(x, c),
             own[Local(Len(frames), x)] = Nil \/ ~NamesApart, UNCHANGED prog
      PROVE  NoneLost'
  <2>1. CASE own[Local(Len(frames), x)] = Nil
    <3>1. UNCHANGED orphan
      BY <1>0, <1>2, <2>1 DEF Insert, depth
    <3> QED
      BY <1>1, <1>2, <3>1
  <2>2. CASE ~NamesApart
    BY <1>2, <2>2 DEF NoneLost, NamesApart
  <2> QED
    BY <1>2, <2>1, <2>2
<1>3. ASSUME NEW c \in Block, BindSelf(c) PROVE NoneLost'
  <2>1. op = "bindself" /\ Insert(todo.code.fn, c) /\ UNCHANGED prog
    BY <1>3 DEF BindSelf, Doing, op
  <2>2. PICK x \in Name : x = todo.code.fn
    BY <1>3, EntryBinds DEF BindSelf
  <2>3. own[Local(Len(frames), x)] = Nil
    BY <2>1 DEF EntryLocals
  <2> QED
    BY <1>2, <2>1, <2>2, <2>3
<1>4. ASSUME NEW c \in Block, BindCapture(c) PROVE NoneLost'
  <2>1. op = "bindload" /\ Insert(todo.code.caps[todo.n + 1], c) /\ UNCHANGED prog
    BY <1>4 DEF BindCapture, Doing, op
  <2>2. PICK x \in Name : x = todo.code.caps[todo.n + 1] /\ todo.n + 1 \in 1 .. Len(todo.code.caps)
    BY <1>4, EntryBinds DEF BindCapture
  <2>3. own[Local(Len(frames), x)] = Nil
    <3>1. x # todo.code.fn
      BY <2>2 DEF CInv, Codes, CodeOK
    <3>2. \A i \in 1 .. todo.n : x # todo.code.caps[i]
      <4>a. todo.code \in Code /\ todo.n \in 0 .. Width /\ Width \in Nat
        BY ControlParts, Basics
      <4>b. todo.code.caps \in Seq(Name)
        BY <4>a DEF Code
      <4>1. todo.n \in Nat /\ Len(todo.code.caps) \in Nat
        BY <4>a, <4>b
      <4>2. \A i \in 1 .. todo.n : i \in 1 .. Len(todo.code.caps) /\ i # todo.n + 1
        BY <2>2, <4>1
      <4> QED
        BY <2>2, <4>2 DEF CInv, Codes, CodeOK
    <3> QED
      BY <2>1, <3>1, <3>2 DEF EntryLocals, BoundAtMost
  <2> QED
    BY <1>2, <2>1, <2>2, <2>3
<1>5. ASSUME NEW c \in Block, BindParam(c) PROVE NoneLost'
  <2>1. op = "param" /\ Insert(prog.param[todo.code.fn], c) /\ UNCHANGED prog
    BY <1>5 DEF BindParam, Doing, op
  <2>2. PICK x \in Name : x = prog.param[todo.code.fn]
    BY <1>5, EntryBinds DEF BindParam
  <2>3. own[Local(Len(frames), x)] = Nil \/ ~NamesApart
    <3>1. todo.code.fn \in Fn
      BY <2>1, SubjectIs DEF Entry
    <3>2. \A i \in 1 .. Len(todo.code.caps) : x # todo.code.caps[i]
      BY <2>2, <3>1 DEF CInv, Codes, CodeOK
    <3> QED
      BY <2>1, <2>2, <3>1, <3>2 DEF EntryLocals, BoundAtMost, NamesApart
  <2> QED
    BY <1>2, <2>1, <2>2, <2>3
<1>6. ASSUME NEW x, NEW c \in Block, Bind(x, c) PROVE UNCHANGED orphan
  BY <1>6 DEF Bind
<1>7. ASSUME NEW c \in Block, (\E x \in Name : Assign(x, c)) \/ BindFn(c) PROVE NoneLost'
  BY <1>1, <1>6, <1>7 DEF Assign, BindFn
<1>8. CASE RunCascade
  BY <1>1, <1>8 DEF RunCascade, Cascade, ReleaseChild, FreeBlock, Drop
<1> QED
  BY <1>1, <1>3, <1>4, <1>5, <1>7, <1>8
     DEF Next, vars, heap, ReleaseOperand, Drop, PushConst, PushString, LoadVar, Push, Discard,
         Reassign, Define, MakeEnv, CaptureNext, MakeClosure, OpenCall, OpenCallOnValue, Call,
         Enter, SelfClosure, LoadCapture, Return, FallThrough, ReleaseLocal, BackInCaller, Abort,
         EndProgram, ReleaseGlobal, Exit

\* All that holds of every program.
FInv ==
  /\ CInv
  /\ LiveInv
  /\ Acyclic(own)
  /\ EntryLocals
  /\ NoneLost

(* The machine starts in it.                                               *)
LEMMA FunctionsStart == Init => FInv
<1> SUFFICES ASSUME Init PROVE FInv
  OBVIOUS
<1>1. CInv
  BY ClosuresStart
<1>2. /\ todo.op = "none" /\ kind = [b \in Block |-> "free"] /\ own = [s \in Slot |-> Nil]
      /\ orphan = [b \in Block |-> 0] /\ cap = [b \in Block |-> 0] /\ gcLive = 0
  BY DEF Init, Idle, Do, HeapInit
<1>3. LiveInv
  <2>1. Live = {} /\ Buffered = {}
    BY <1>2 DEF Live, Buffered
  <2> QED
    BY <1>2, <2>1, FS_EmptySet DEF LiveInv, LiveCountExact, BuffersOfArrays, Buffered
<1>4. Acyclic(own)
  <2>1. \A B \in SUBSET Block : Children(own, B) = {}
    BY <1>2, SlotFamilies DEF Children
  <2>2. \A b \in Block : Reach(own, Children(own, {b})) \subseteq {}
    BY <2>1, ReachLeast
  <2> QED
    BY <2>2 DEF Acyclic
<1> QED
  BY <1>1, <1>2, <1>3, <1>4 DEF FInv, EntryLocals, NoneLost, op

(* And every step keeps it.                                                *)
LEMMA FunctionsNext == FInv /\ [Next]_vars => FInv'
<1> SUFFICES ASSUME FInv, [Next]_vars PROVE FInv'
  OBVIOUS
<1>1. CInv /\ CInv' /\ EntryLocals /\ NoneLost /\ LiveInv /\ Acyclic(own)
  BY ClosuresNext DEF FInv
<1>2. Acyclic(own')
  <2>1. own \in [Slot -> Value] /\ own' \in [Slot -> Value]
    BY <1>1 DEF CInv, HeapInv, HeapTypeOK
  <2> QED
    BY <1>1, <2>1, OutwardsSteps, OutwardsAcyclic
<1>3. LiveInv' /\ EntryLocals' /\ NoneLost'
  BY <1>1, FunctionsWeight, EntrySteps, LostSteps
<1>4. Acyclic(own)'
  BY <1>2 DEF Acyclic
<1> QED
  BY <1>1, <1>3, <1>4 DEF FInv

(* Nobody refers to a block of a program that has ended.                   *)
LEMMA EndedIsEmpty ==
  ASSUME FInv, NamesApart, status = "ended"
  PROVE  Live = {} /\ gcLive = 0
<1>0. CInv /\ HeapInv /\ sp = 0 /\ frames = <<>> /\ drain = <<>> /\ Due = {}
      /\ \A x \in Name : own[Glob(x)] = Nil
  BY DEF FInv, CInv, Control, Final
<1>1. \A s \in RootSlot : own[s] = Nil
  <2> SUFFICES ASSUME NEW s \in RootSlot PROVE own[s] = Nil
    OBVIOUS
  <2>1. CASE s \in {"temp"} \X (1 .. MaxTemp)
    <3>1. PICK i \in 1 .. MaxTemp : s = Temp(i)
      BY <2>1 DEF Temp
    <3>2. i \in Nat /\ i > sp /\ i <= MaxTemp
      BY <1>0, Basics
    <3> QED
      BY <1>0, <3>1, <3>2, Above
  <2>2. CASE s = Reg
    BY <1>0, <2>2 DEF CInv, RootsTyped
  <2>3. CASE s \in {"glob"} \X Name
    <3>1. PICK x \in Name : s = Glob(x)
      BY <2>3 DEF Glob
    <3> QED
      BY <1>0, <3>1
  <2>4. CASE s \in {"scope"} \X ((1 .. MaxDepth) \X LocalName)
    <3>1. PICK d \in 1 .. MaxDepth, x \in LocalName : s = Local(d, x)
      BY <2>4 DEF Local
    <3>2. Len(frames) = 0 /\ ~(d <= 0)
      BY <1>0, Basics
    <3> QED
      BY <1>0, <3>1, <3>2 DEF CInv, RootsTyped
  <2> QED
    BY <2>1, <2>2, <2>3, <2>4 DEF RootSlot
<1>2. PICK B \in SUBSET Block : B = {}
  OBVIOUS
<1>3. \A b \in Live : orphan[b] > 0 \/ b \in Reach(own, Children(own, {b})) => b \in B
  BY <1>2 DEF FInv, NoneLost, Acyclic, Live
<1>4. Live \subseteq Reach(own, B)
  BY <1>0, <1>1, <1>3, Survivors
<1>5. Reach(own, B) \subseteq {}
  BY <1>2, ReachLeast DEF Children
<1>6. Live = {}
  BY <1>4, <1>5
<1>7. gcLive = 0
  BY <1>6, FS_EmptySet DEF FInv, LiveInv, LiveCountExact
<1> QED
  BY <1>6, <1>7

(* However functions are defined, captured, passed, called and returned,   *)
(* every count is that of the references that exist: no retain is missing  *)
(* and none is too many.                                                   *)
THEOREM FunctionsCountExact == Spec => []RefExact
<1>1. CInv => RefExact
  BY DEF CInv, HeapInv
<1> QED
  BY <1>1, ClosuresStart, ClosuresNext, PTL DEF Spec

(* A frame that has returned holds no cell and no cycle of closures, envs  *)
(* and cells is ever built; and a program none of whose functions has a    *)
(* parameter of its own name leaves no block behind.  A function that has  *)
(* one loses the cell of its own name on every call (scope.insert).        *)
THEOREM FunctionsLeave ==
  Spec => []((\A f \in Fn : prog.param[f] # f) => FunctionsLeakNothing)
<1>1. FInv => (NamesApart => FunctionsLeakNothing)
  <2> SUFFICES ASSUME FInv, NamesApart PROVE FunctionsLeakNothing
    OBVIOUS
  <2>1. CInv /\ Acyclic(own)
    BY DEF FInv
  <2>2. FramesOwnTheirScopes
    <3>1. ASSUME NEW d \in 1 .. MaxDepth, NEW x \in Name, d > depth
          PROVE  own[Local(d, x)] = Nil
      <4>1. x \in LocalName /\ Len(frames) \in Nat /\ d \in Nat
        BY <2>1, Basics DEF LocalName
      <4>2. ~(d <= Len(frames))
        BY <3>1, <4>1 DEF depth
      <4> QED
        BY <2>1, <4>1, <4>2 DEF CInv, RootsTyped
    <3> QED
      BY <2>1, <3>1 DEF CInv, Control, FramesOwnTheirScopes
  <2>3. CapturesAcyclic
    BY <2>1 DEF Acyclic, CapturesAcyclic, Live
  <2> QED
    BY <2>2, <2>3, EndedIsEmpty DEF FunctionsLeakNothing
<1>2. (NamesApart => FunctionsLeakNothing)
        <=> ((\A f \in Fn : prog.param[f] # f) => FunctionsLeakNothing)
  BY DEF NamesApart
<1> QED
  BY <1>1, <1>2, FunctionsStart, FunctionsNext, PTL DEF Spec

(***************************************************************************)
(* A body called by name finds its env alive.                              *)
(***************************************************************************)

\* Every callee is a name, and no name is reassigned.
ByName == prog.uses \cap {"calltemp", "reassign"} = {}

\* v is what a name has that was bound below height h: a global, or a local
\* of a frame that began there.
Bound(v, h) ==
  \/ \E x \in Name : own[Glob(x)] = v
  \/ \E d \in 1 .. Len(frames), x \in Name :
       /\ frames[d] < h
       /\ own[Local(d, x)] \in Block
       /\ own[Field(own[Local(d, x)], 1)] = v

\* The callee of an open call has such a second owner, and so has the
\* closure whose body is about to start.
Named ==
  ByName =>
    /\ status # "undefined"
    /\ \A k \in 1 .. Len(calls) : Bound(own[Temp(calls[k])], calls[k])
    /\ op = "enter" /\ todo.env # Nil =>
         \E c \in Block : /\ own[Field(c, 1)] = todo.env
                          /\ Bound(c, sp + 1 - Arity(todo.code.fn))

\* Where an open call began, or the one whose body is about to start.
Pending(h) ==
  \/ \E k \in 1 .. Len(calls) : h = calls[k]
  \/ op = "enter" /\ h = sp + 1 - Arity(todo.code.fn)

\* The names bound below h are as they were.
NamesStay(h) ==
  /\ GlobsKept
  /\ \A d \in 1 .. Len(frames) : frames[d] < h =>
       /\ d \in 1 .. Len(frames') /\ frames'[d] = frames[d]
       /\ \A x \in Name : own'[Local(d, x)] = own[Local(d, x)]
  /\ \A b \in Block : IsKind(b, "cell") /\ rc[b] # 0 => own'[Field(b, 1)] = own[Field(b, 1)]

(* Then what they are bound to is the same.                                *)
LEMMA BoundStays ==
  ASSUME CInv, NEW v, NEW h, NamesStay(h), Bound(v, h)
  PROVE  Bound(v, h)'
<1>1. CASE \E x \in Name : own[Glob(x)] = v
  BY <1>1 DEF Bound, NamesStay, GlobsKept
<1>2. CASE \E d \in 1 .. Len(frames), x \in Name :
             /\ frames[d] < h
             /\ own[Local(d, x)] \in Block
             /\ own[Field(own[Local(d, x)], 1)] = v
  <2>1. PICK d \in 1 .. Len(frames), x \in Name :
               /\ frames[d] < h
               /\ own[Local(d, x)] \in Block
               /\ own[Field(own[Local(d, x)], 1)] = v
    BY <1>2
  <2>2. d \in 1 .. MaxDepth /\ x \in LocalName /\ own[Local(d, x)] # Nil
    BY <2>1, Basics DEF LocalName
  <2>3. PICK l \in Block : l = own[Local(d, x)]
    BY <2>1
  <2>4. IsKind(l, "cell")
    BY <2>2, <2>3 DEF CInv, RootsTyped
  <2>5. rc[l] # 0
    <3>1. Local(d, x) \in Slot
      BY <2>2, SlotFamilies
    <3>2. rc[l] >= 1
      BY <2>3, <3>1, OwnedIsLive DEF CInv
    <3> QED
      BY <3>2
  <2>6. own'[Field(l, 1)] = v
    BY <2>1, <2>3, <2>4, <2>5 DEF NamesStay
  <2>7. d \in 1 .. Len(frames') /\ frames'[d] < h /\ own'[Local(d, x)] = l
    BY <2>1, <2>3 DEF NamesStay
  <2> QED
    BY <2>6, <2>7 DEF Bound
<1> QED
  BY <1>1, <1>2 DEF Bound

(* A step that writes temporaries only leaves every name alone.            *)
LEMMA TempsOnly ==
  ASSUME CInv, NEW h, GlobsKept, LocalsKept, UNCHANGED frames,
         \A b \in Block : IsKind(b, "cell") => own'[Field(b, 1)] = own[Field(b, 1)]
  PROVE  NamesStay(h)
<1>1. \A d \in 1 .. Len(frames), x \in Name : own'[Local(d, x)] = own[Local(d, x)]
  BY Basics DEF LocalsKept, LocalName
<1> QED
  BY <1>1 DEF NamesStay

(* A step in the innermost frame leaves alone what an open call rests on.  *)
LEMMA FrameOnly ==
  ASSUME CInv, NEW h \in Int, h <= Base, GlobsKept,
         \A d \in 1 .. Len(frames) : d # Len(frames) =>
           /\ d \in 1 .. Len(frames') /\ frames'[d] = frames[d]
           /\ \A x \in Name : own'[Local(d, x)] = own[Local(d, x)],
         \A b \in Block : IsKind(b, "cell") => own'[Field(b, 1)] = own[Field(b, 1)]
  PROVE  NamesStay(h)
<1>1. ASSUME NEW d \in 1 .. Len(frames), frames[d] < h PROVE d # Len(frames)
  <2>1. frames # <<>> /\ Base = frames[Len(frames)] /\ Base \in Int
    BY Basics, Heights
  <2> QED
    BY <1>1, <2>1
<1> QED
  BY <1>1 DEF NamesStay

(* Nothing is pending when the main program binds a name, and what is      *)
(* pending when a body does began in a caller.                             *)
LEMMA PendingBelow ==
  ASSUME CInv, NEW h, Pending(h), op # "enter",
         Floor = Base \/ sp = Base \/ op # "none"
  PROVE  h \in 1 .. MaxTemp /\ h <= Base /\ frames # <<>>
<1>1. PICK k \in 1 .. Len(calls) : h = calls[k]
  BY DEF Pending
<1>2. h \in 1 .. MaxTemp /\ h <= Base
  BY <1>1, NoOpenCall, Heights
<1>3. h \in Nat /\ h >= 1
  BY <1>2, Basics
<1> QED
  BY <1>2, <1>3, Heights

(* Binding a variable or a function.                                       *)
LEMMA NamesBind ==
  ASSUME CInv, NEW h \in 1 .. MaxTemp, h <= Base, frames # <<>>, sp >= 1, UNCHANGED frames,
         NEW x \in Name, NEW c \in Block, Bind(x, c)
  PROVE  NamesStay(h)
<1>0. /\ own \in [Slot -> Value] /\ sp \in 1 .. MaxTemp /\ 1 \in 1 .. Width
      /\ Len(frames) \in 1 .. MaxDepth /\ MaxDepth \in Nat
  BY Basics, Heights
<1>1. PICK k \in 1 .. MaxTemp, d \in 1 .. MaxDepth : k = sp /\ d = Len(frames)
  BY <1>0
<1>2. /\ Alloc(c, "cell", 1) /\ kind[c] = "free"
      /\ own' = Put(Exchange(Exchange(own, Temp(k), Field(c, 1)), Temp(k), Local(d, x)),
                    Local(d, x), c)
  BY <1>0, <1>1 DEF Bind, depth, Alloc, Free
<1>3. own[Field(c, 1)] = Nil
  BY <1>0, <1>2 DEF CInv, HeapInv, FreeOwnsNothing
<1>4. /\ GlobsKept
      /\ \A e \in 1 .. MaxDepth, y \in LocalName :
           own'[Local(e, y)] = IF e = d /\ y = x THEN c ELSE own[Local(e, y)]
      /\ \A b \in Block, i \in 1 .. Width :
           own'[Field(b, i)] = IF b = c /\ i = 1 THEN own[Temp(k)] ELSE own[Field(b, i)]
  <2>1. x \in LocalName
    BY DEF LocalName
  <2> QED
    BY <1>0, <1>2, <1>3, <2>1, CellBound
<1>5. \A b \in Block : IsKind(b, "cell") => own'[Field(b, 1)] = own[Field(b, 1)]
  BY <1>0, <1>2, <1>4 DEF IsKind
<1>6. \A e \in 1 .. Len(frames), y \in Name : e # Len(frames) =>
        own'[Local(e, y)] = own[Local(e, y)]
  BY <1>0, <1>1, <1>4 DEF LocalName
<1>7. h \in Int
  BY <1>0
<1> QED
  BY <1>4, <1>5, <1>6, <1>7, FrameOnly

(* Binding a name as a body is entered.                                    *)
LEMMA NamesInsert ==
  ASSUME CInv, NEW h \in 1 .. MaxTemp, h <= Base, frames # <<>>, sp >= 1, UNCHANGED frames,
         NEW x \in Name, NEW c \in Block, Insert(x, c)
  PROVE  NamesStay(h)
<1>0. /\ own \in [Slot -> Value] /\ sp \in 1 .. MaxTemp /\ 1 \in 1 .. Width
      /\ Len(frames) \in 1 .. MaxDepth /\ MaxDepth \in Nat
  BY Basics, Heights
<1>1. PICK k \in 1 .. MaxTemp, d \in 1 .. MaxDepth : k = sp /\ d = Len(frames)
  BY <1>0
<1>2. /\ Alloc(c, "cell", 1) /\ kind[c] = "free"
      /\ own' = Put(Exchange(own, Temp(k), Field(c, 1)), Local(d, x), c)
  BY <1>1 DEF Insert, depth, Alloc, Free
<1>3. own[Field(c, 1)] = Nil
  BY <1>0, <1>2 DEF CInv, HeapInv, FreeOwnsNothing
<1>4. /\ GlobsKept
      /\ \A e \in 1 .. MaxDepth, y \in LocalName :
           own'[Local(e, y)] = IF e = d /\ y = x THEN c ELSE own[Local(e, y)]
      /\ \A b \in Block, i \in 1 .. Width :
           own'[Field(b, i)] = IF b = c /\ i = 1 THEN own[Temp(k)] ELSE own[Field(b, i)]
  <2>1. x \in LocalName
    BY DEF LocalName
  <2> QED
    BY <1>0, <1>2, <1>3, <2>1, Inserted
<1>5. \A b \in Block : IsKind(b, "cell") => own'[Field(b, 1)] = own[Field(b, 1)]
  BY <1>0, <1>2, <1>4 DEF IsKind
<1>6. \A e \in 1 .. Len(frames), y \in Name : e # Len(frames) =>
        own'[Local(e, y)] = own[Local(e, y)]
  BY <1>0, <1>1, <1>4 DEF LocalName
<1>7. h \in Int
  BY <1>0
<1> QED
  BY <1>4, <1>5, <1>6, <1>7, FrameOnly

(* A scope is released, and the frame is left.                             *)
LEMMA NamesReturn ==
  ASSUME CInv, NEW h \in 1 .. MaxTemp, h <= Base, frames # <<>>,
         ReleaseLocal \/ BackInCaller
  PROVE  NamesStay(h)
<1>0. /\ own \in [Slot -> Value] /\ Nil \in Value /\ Len(frames) \in 1 .. MaxDepth
      /\ MaxDepth \in Nat /\ frames \in Seq(0 .. MaxTemp) /\ h \in Int
  BY Basics, Heights, ControlParts
<1>1. CASE ReleaseLocal
  <2>1. PICK x \in Name, d \in 1 .. MaxDepth : d = Len(frames) /\ Drop(Local(d, x))
    BY <1>0, <1>1 DEF ReleaseLocal, depth
  <2>2. own' = Put(own, Local(d, x), Nil) /\ x \in LocalName
    BY <2>1 DEF Drop, LocalName
  <2>3. /\ GlobsKept /\ FieldsKept
        /\ \A e \in 1 .. MaxDepth, y \in LocalName :
             own'[Local(e, y)] = IF e = d /\ y = x THEN Nil ELSE own[Local(e, y)]
    BY <1>0, <2>2, LocalPut
  <2>4. \A e \in 1 .. Len(frames), y \in Name : e # Len(frames) =>
          own'[Local(e, y)] = own[Local(e, y)]
    BY <1>0, <2>1, <2>3 DEF LocalName
  <2>5. UNCHANGED frames
    BY <1>1 DEF ReleaseLocal
  <2> QED
    BY <1>0, <2>3, <2>4, <2>5, Basics, FrameOnly DEF FieldsKept
<1>2. CASE BackInCaller
  <2>1. UNCHANGED own /\ frames' = SubSeq(frames, 1, Len(frames) - 1)
    BY <1>2 DEF BackInCaller, depth, heap
  <2>2. /\ Len(frames') = Len(frames) - 1
        /\ \A d \in 1 .. Len(frames) - 1 : frames'[d] = frames[d]
    BY <1>0, <2>1, Shorter
  <2>3. \A d \in 1 .. Len(frames) : d # Len(frames) => d \in 1 .. Len(frames')
    BY <1>0, <2>2
  <2>4. \A d \in 1 .. Len(frames) : d # Len(frames) => frames'[d] = frames[d]
    BY <1>0, <2>2
  <2> QED
    BY <1>0, <2>1, <2>3, <2>4, FrameOnly DEF GlobsKept
<1> QED
  BY <1>1, <1>2

(* Every step but a reassignment leaves alone what an open call rests on.  *)
LEMMA NamesSteps ==
  ASSUME CInv, ByName, [Next]_vars, NEW h, Pending(h)
  PROVE  NamesStay(h)
<1>0. /\ own \in [Slot -> Value] /\ kind \in [Block -> Kind] /\ 1 \in 1 .. Width
      /\ sp \in 0 .. MaxTemp /\ MaxTemp \in Nat /\ prog.temps \in 0 .. MaxTemp
      /\ frames \in Seq(0 .. MaxTemp) /\ Base \in 0 .. sp
  BY Basics, ControlParts, Heights
<1>1. ASSUME UNCHANGED <<own, frames>>
      PROVE  NamesStay(h)
  BY <1>1 DEF NamesStay, GlobsKept
<1>2. CASE \/ PushConst \/ Discard \/ (\E f \in Fn, q \in CaptureList : Define(f, q))
           \/ OpenCallOnValue \/ Return \/ FallThrough \/ Abort \/ EndProgram \/ Exit
           \/ UNCHANGED vars
  BY <1>1, <1>2 DEF vars, heap, Abort, EndProgram, Exit, PushConst, FallThrough, Discard, Return,
                    OpenCallOnValue, Define
<1>3. CASE Enter
  <2>1. CASE UNCHANGED frames
    BY <1>1, <1>3, <2>1 DEF Enter, heap
  <2>2. ASSUME NEW m, frames' = Append(frames, m)
        PROVE  NamesStay(h)
    <3>1. \A d \in 1 .. Len(frames) : d \in 1 .. Len(frames') /\ frames'[d] = frames[d]
      BY <1>0, <2>2
    <3> QED
      BY <1>3, <3>1 DEF Enter, heap, NamesStay, GlobsKept
  <2> QED
    BY <1>3, <2>1, <2>2 DEF Enter
<1>4. CASE Releasing
  <2>1. UNCHANGED frames /\ LocalsKept /\ GlobsKept /\ \A b \in Block : rc[b] # 0 => Kept(b)
    BY <1>4, Released
  <2>2. \A d \in 1 .. Len(frames), x \in Name : own'[Local(d, x)] = own[Local(d, x)]
    BY <2>1, Basics DEF LocalsKept, LocalName
  <2> QED
    BY <1>0, <2>1, <2>2 DEF NamesStay, Kept
<1>5. ASSUME NEW v \in Value, own' = Put(own, Temp(sp + 1), v), sp < prog.temps, UNCHANGED frames
      PROVE  NamesStay(h)
  <2>1. PICK k \in 1 .. MaxTemp : k = sp + 1
    BY <1>0, <1>5
  <2>2. GlobsKept /\ LocalsKept /\ FieldsKept
    BY <1>0, <1>5, <2>1, TempPut
  <2> QED
    BY <1>0, <1>5, <2>2, TempsOnly DEF FieldsKept
<1>6. CASE \/ (\E b \in Block : PushString(b) \/ MakeEnv(b))
           \/ (\E c \in Block : MakeClosure(c) /\ todo.code.caps = <<>>)
  <2>1. \A b \in Block : b \in Value
    BY DEF Value
  <2> QED
    BY <1>5, <1>6, <2>1 DEF PushString, MakeEnv, MakeClosure
<1>7. CASE LoadCapture \/ \E x \in Name : LoadVar(x) \/ OpenCall(x)
  <2>1. PICK s \in Slot : Push(own[s])
    BY <1>7, LoadSlot DEF LoadCapture, LoadVar, OpenCall
  <2>2. UNCHANGED frames
    BY <1>7 DEF LoadCapture, LoadVar, OpenCall
  <2> QED
    BY <1>0, <1>5, <2>1, <2>2 DEF Push
<1>8. CASE Call
  <2>1. PICK j \in 1 .. MaxTemp : j = Floor
    BY <1>8, CalleeIs DEF Call
  <2>2. PICK k \in 1 .. MaxTemp : k = sp
    <3>1. Floor \in 0 .. sp
      BY Heights
    <3> QED
      BY <1>0, <2>1, <3>1
  <2>3. own' = Exchange(own, Temp(j), Temp(k)) /\ UNCHANGED frames
    BY <1>8, <2>1, <2>2 DEF Call
  <2>4. GlobsKept /\ LocalsKept /\ FieldsKept
    BY <1>0, <2>3, TempSwap
  <2> QED
    BY <1>0, <2>3, <2>4, TempsOnly DEF FieldsKept
<1>9. CASE CaptureNext
  <2>1. PICK e, i, v : e = Top /\ i = len[e] + 1 /\ v = Captured(todo.code.caps[i])
    OBVIOUS
  <2>2. e \in Block /\ kind[e] = "env" /\ i \in 1 .. Width /\ v \in Value
    BY <1>9, <2>1, CaptureSlots DEF CaptureNext
  <2>3. own' = Put(own, Field(e, i), v) /\ UNCHANGED frames
    BY <1>9, <2>1 DEF CaptureNext
  <2>4. /\ GlobsKept /\ LocalsKept
        /\ \A c \in Block, j \in 1 .. Width :
             own'[Field(c, j)] = IF c = e /\ j = i THEN v ELSE own[Field(c, j)]
    BY <1>0, <2>2, <2>3, FieldPut
  <2>5. \A b \in Block : IsKind(b, "cell") => own'[Field(b, 1)] = own[Field(b, 1)]
    BY <1>0, <2>2, <2>4 DEF IsKind
  <2> QED
    BY <2>3, <2>4, <2>5, TempsOnly
<1>10. ASSUME NEW c \in Block, kind[c] = "free", GlobsKept, LocalsKept, UNCHANGED frames, NEW v,
              \A b \in Block, i \in 1 .. Width :
                own'[Field(b, i)] = IF b = c /\ i = 1 THEN v ELSE own[Field(b, i)]
       PROVE  NamesStay(h)
  <2>1. \A b \in Block : IsKind(b, "cell") => own'[Field(b, 1)] = own[Field(b, 1)]
    BY <1>0, <1>10 DEF IsKind
  <2> QED
    BY <1>10, <2>1, TempsOnly
<1>11. ASSUME NEW c \in Block, MakeClosure(c), todo.code.caps # <<>> PROVE NamesStay(h)
  <2>1. PICK k \in 1 .. MaxTemp : k = sp
    <3>1. sp = Base + 1
      BY <1>11, ControlParts DEF MakeClosure, Doing, op, Position, Place
    <3> QED
      BY <1>0, <3>1
  <2>2. /\ own' = Put(Exchange(own, Temp(k), Field(c, 1)), Temp(k), c) /\ UNCHANGED frames
        /\ kind[c] = "free"
    BY <1>11, <2>1 DEF MakeClosure, Alloc, Free
  <2>3. PICK v : v = own[Temp(k)]
    OBVIOUS
  <2>4. /\ LocalsKept /\ GlobsKept
        /\ \A b \in Block, i \in 1 .. Width :
             own'[Field(b, i)] = IF b = c /\ i = 1 THEN v ELSE own[Field(b, i)]
    BY <1>0, <2>2, <2>3, Wrapped
  <2> QED
    BY <1>10, <2>2, <2>4
<1>12. ASSUME NEW c \in Block, SelfClosure(c) PROVE NamesStay(h)
  <2>1. PICK k \in 1 .. MaxTemp, e \in Value : k = sp + 1 /\ e = todo.env
    BY <1>0, <1>12, ControlParts DEF SelfClosure
  <2>2. /\ own' = Put(Put(own, Field(c, 1), e), Temp(k), c) /\ UNCHANGED frames
        /\ kind[c] = "free"
    BY <1>12, <2>1 DEF SelfClosure, Free
  <2>3. /\ LocalsKept /\ GlobsKept
        /\ \A b \in Block, i \in 1 .. Width :
             own'[Field(b, i)] = IF b = c /\ i = 1 THEN e ELSE own[Field(b, i)]
    BY <1>0, <2>2, SelfMade
  <2> QED
    BY <1>10, <2>2, <2>3
<1>13. ASSUME NEW c \in Block, NEW x \in Name, Assign(x, c) PROVE NamesStay(h)
  <2>1. Bind(x, c) /\ sp = Base + 1 /\ Floor = Base /\ op = "none" /\ UNCHANGED frames
    BY <1>13 DEF Assign, Evaluated, Ready, Doing, op
  <2>2. sp >= 1
    BY <1>0, <2>1
  <2> QED
    BY <2>1, <2>2, PendingBelow, NamesBind
<1>14. ASSUME NEW c \in Block, BindFn(c) PROVE NamesStay(h)
  <2>1. op = "bind" /\ Bind(todo.code.fn, c) /\ UNCHANGED frames
    BY <1>14 DEF BindFn, Doing, op
  <2>2. sp = Base + 1 /\ todo.code.fn \in Name
    BY <2>1, ControlParts, SubjectIs DEF Position, Place
  <2>3. sp >= 1
    BY <1>0, <2>2
  <2> QED
    BY <2>1, <2>2, <2>3, PendingBelow, NamesBind
<1>15. ASSUME NEW c \in Block, BindSelf(c) \/ BindCapture(c) \/ BindParam(c)
       PROVE  NamesStay(h)
  <2>1. PICK x \in Name : Insert(x, c) /\ sp >= 1
    BY <1>15, EntryBinds DEF BindSelf, BindCapture, BindParam
  <2>2. op \in {"bindself", "bindload", "param"} /\ UNCHANGED frames
    BY <1>15 DEF BindSelf, BindCapture, BindParam, Doing, op
  <2> QED
    BY <2>1, <2>2, PendingBelow, NamesInsert
<1>16. CASE ReleaseLocal \/ BackInCaller
  <2>1. op = "return"
    BY <1>16 DEF ReleaseLocal, BackInCaller, Doing, op
  <2> QED
    BY <1>16, <2>1, PendingBelow, NamesReturn
<1>17. CASE ReleaseGlobal
  <2>1. op = "none" /\ calls = <<>>
    BY <1>17 DEF ReleaseGlobal, CInv, Control, Final
  <2> QED
    BY <2>1 DEF Pending
<1>18. CASE \E x \in Name : Reassign(x)
  BY <1>18 DEF Reassign, ByName
<1> QED
  BY <1>2, <1>3, <1>4, <1>6, <1>7, <1>8, <1>9, <1>11, <1>12, <1>13, <1>14, <1>15, <1>16, <1>17,
     <1>18 DEF Next, Releasing

\* The calls that stay open keep their callees.
CallsStay ==
  /\ Len(calls') <= Len(calls)
  /\ \A j \in 1 .. Len(calls') :
       calls'[j] = calls[j] /\ own'[Temp(calls[j])] = own[Temp(calls[j])]

(* They do when one temporary is written that is no callee.                *)
LEMMA OneWritten ==
  ASSUME CInv, UNCHANGED calls, NEW k, \A j \in 1 .. Len(calls) : calls[j] # k,
         \A i \in 1 .. MaxTemp : i # k => own'[Temp(i)] = own[Temp(i)]
  PROVE  CallsStay
<1>1. \A j \in 1 .. Len(calls) : own'[Temp(calls[j])] = own[Temp(calls[j])]
  BY Heights
<1>2. Len(calls) \in Nat
  BY ControlParts
<1> QED
  BY <1>1, <1>2 DEF CallsStay

(* A call is the last that was opened.                                     *)
LEMMA CallStays ==
  ASSUME CInv, Call
  PROVE  CallsStay
<1>0. /\ own \in [Slot -> Value] /\ MaxTemp \in Nat /\ Floor \in 0 .. sp
      /\ sp \in 0 .. MaxTemp /\ calls \in Seq(1 .. MaxTemp) /\ InCall /\ calls # <<>>
  BY Basics, Heights, ControlParts DEF Call, InCall
<1>1. PICK k \in 1 .. MaxTemp, m \in 1 .. MaxTemp : k = Floor /\ m = sp
  BY <1>0, CalleeIs
<1>2. own' = Exchange(own, Temp(k), Temp(m))
  BY <1>1 DEF Call
<1>3. \A i \in 1 .. MaxTemp :
        own'[Temp(i)] = IF i = m THEN own[Temp(k)]
                        ELSE IF i = k THEN own[Temp(m)] ELSE own[Temp(i)]
  BY <1>0, <1>2, TempSwap
<1>4. /\ Len(calls') = Len(calls) - 1
      /\ \A j \in 1 .. Len(calls) - 1 : calls'[j] = calls[j] /\ j \in 1 .. Len(calls)
      /\ Len(calls) \in Nat \ {0}
  BY <1>0, Shorter DEF Call
<1>5. ASSUME NEW j \in 1 .. Len(calls')
      PROVE  calls'[j] = calls[j] /\ own'[Temp(calls[j])] = own[Temp(calls[j])]
  <2>1. /\ j \in 1 .. Len(calls) /\ j < Len(calls) /\ calls'[j] = calls[j]
        /\ Len(calls) \in 1 .. Len(calls)
    BY <1>4
  <2>2. calls[j] < calls[Len(calls)] /\ calls[j] \in 1 .. MaxTemp
    BY <2>1, ControlParts, Heights DEF Stack
  <2>3. calls[j] < k /\ k <= m
    BY <1>0, <1>1, <2>2, CalleeIs
  <2>4. calls[j] # k /\ calls[j] # m
    BY <2>2, <2>3
  <2> QED
    BY <1>3, <2>1, <2>2, <2>4
<1>6. Len(calls') <= Len(calls)
  BY <1>4
<1> QED
  BY <1>5, <1>6 DEF CallsStay

(* Only the opening of a call adds one.                                    *)
LEMMA CallsSteps ==
  ASSUME CInv, [Next]_vars
  PROVE  CallsStay \/ OpenCallOnValue \/ \E x \in Name : OpenCall(x)
<1>0. /\ own \in [Slot -> Value] /\ kind \in [Block -> Kind]
      /\ sp \in 0 .. MaxTemp /\ MaxTemp \in Nat /\ 1 \in 1 .. Width /\ Nil \in Value
      /\ prog.temps \in 0 .. MaxTemp /\ calls \in Seq(1 .. MaxTemp) /\ Len(calls) \in Nat
      /\ Base \in 0 .. sp
  <2>1. calls \in Seq(1 .. MaxTemp) /\ Len(calls) \in Nat
    BY ControlParts
  <2>2. Base \in 0 .. sp
    BY Heights
  <2> QED
    BY <2>1, <2>2, Basics
<1>1. ASSUME TempsKept, UNCHANGED calls PROVE CallsStay
  BY <1>0, <1>1, Heights DEF CallsStay, TempsKept
<1>2. CASE UNCHANGED vars \/ Abort \/ EndProgram \/ Exit \/ PushConst \/ FallThrough \/ Discard
           \/ Return \/ Enter \/ BackInCaller \/ \E f \in Fn, q \in CaptureList : Define(f, q)
  <2>1. UNCHANGED <<own, calls>>
    BY <1>2 DEF vars, heap, Abort, EndProgram, Exit, PushConst, FallThrough, Discard, Return,
                Enter, BackInCaller, Define
  <2> QED
    BY <1>1, <2>1 DEF TempsKept
<1>3. CASE Releasing
  <2>1. \A j \in 1 .. Len(calls) : calls[j] \in 1 .. sp
    <3>1. \A j \in 1 .. Len(calls) : calls[j] \in 1 .. MaxTemp /\ calls[j] <= sp
      BY Heights, ControlParts DEF Stack
    <3> QED
      BY <1>0, <3>1
  <2>2. UNCHANGED calls /\ \A i \in 1 .. sp : own'[Temp(i)] = own[Temp(i)]
    BY <1>3, Released
  <2> QED
    BY <1>0, <2>1, <2>2 DEF CallsStay
<1>4. CASE ReleaseLocal
  <2>1. PICK x \in Name : Drop(Local(Len(frames), x))
    BY <1>4 DEF ReleaseLocal, depth
  <2>2. op = "return" /\ frames # <<>> /\ UNCHANGED calls
    BY <1>4, ControlParts DEF ReleaseLocal, Doing, op, Subject, Knows
  <2>3. own' = Put(own, Local(Len(frames), x), Nil) /\ x \in LocalName
    BY <2>1 DEF Drop, LocalName
  <2>4. TempsKept
    BY <1>0, <2>2, <2>3, Heights, LocalPut
  <2> QED
    BY <1>1, <2>2, <2>4
<1>5. CASE ReleaseGlobal
  <2>1. PICK x \in Name : own' = Put(own, Glob(x), Nil)
    BY <1>5 DEF ReleaseGlobal, Drop
  <2>2. TempsKept
    BY <1>0, <2>1, GlobPut
  <2> QED
    BY <1>1, <1>5, <2>2 DEF ReleaseGlobal
<1>6. CASE CaptureNext
  <2>1. PICK e, i, v : e = Top /\ i = len[e] + 1 /\ v = Captured(todo.code.caps[i])
    OBVIOUS
  <2>2. e \in Block /\ i \in 1 .. Width /\ v \in Value
    BY <1>6, <2>1, CaptureSlots DEF CaptureNext
  <2>3. own' = Put(own, Field(e, i), v) /\ UNCHANGED calls
    BY <1>6, <2>1 DEF CaptureNext
  <2>4. TempsKept
    BY <1>0, <2>2, <2>3, FieldPut
  <2> QED
    BY <1>1, <2>3, <2>4
<1>7. ASSUME WrittenAt(sp + 1), UNCHANGED calls PROVE CallsStay
  BY <1>7, OneWritten, AboveCalls DEF WrittenAt
<1>8. ASSUME WrittenAt(sp), sp > Base, Floor = Base \/ op \notin {"none", "enter"},
             UNCHANGED calls
      PROVE  CallsStay
  BY <1>8, OneWritten, AboveCalls DEF WrittenAt
<1>9. ASSUME NEW b \in Block, PushString(b) \/ MakeEnv(b) PROVE CallsStay
  <2>1. PICK k \in {"str", "env"} :
           /\ sp < prog.temps /\ Alloc(b, k, 0) /\ own' = Put(own, Temp(sp + 1), b)
           /\ UNCHANGED <<code, calls>>
    BY <1>9 DEF PushString, MakeEnv
  <2> QED
    BY <1>7, <2>1, WrittenFresh
<1>10. CASE LoadCapture \/ \E x \in Name : LoadVar(x)
  <2>1. PICK s \in Slot : Push(own[s]) /\ UNCHANGED <<code, calls>>
    BY <1>10, LoadSlot DEF LoadCapture, LoadVar
  <2> QED
    BY <1>7, <2>1, WrittenPush
<1>11. ASSUME NEW c \in Block, MakeClosure(c), todo.code.caps = <<>> PROVE CallsStay
  <2>1. PICK k \in 1 .. MaxTemp : k = sp + 1
    BY <1>0, <1>11 DEF MakeClosure
  <2>2. own' = Put(own, Temp(k), c) /\ c \in Value /\ UNCHANGED calls
    BY <1>11, <2>1 DEF MakeClosure, Value
  <2>3. \A i \in 1 .. MaxTemp : i # k => own'[Temp(i)] = own[Temp(i)]
    BY <1>0, <2>2, TempPut
  <2> QED
    BY <2>1, <2>2, <2>3, OneWritten, AboveCalls
<1>12. ASSUME NEW c \in Block, MakeClosure(c), todo.code.caps # <<>> PROVE CallsStay
  <2>1. sp = Base + 1 /\ op = "closure"
    BY <1>12, ControlParts DEF MakeClosure, Doing, op, Position, Place
  <2>2. PICK k \in 1 .. MaxTemp : k = sp
    BY <1>0, <2>1
  <2>3. own' = Put(Exchange(own, Temp(k), Field(c, 1)), Temp(k), c) /\ UNCHANGED calls
    BY <1>12, <2>2 DEF MakeClosure
  <2>4. \A i \in 1 .. MaxTemp : i # k => own'[Temp(i)] = own[Temp(i)]
    BY <1>0, <2>3, Wrapped
  <2>5. sp > Base
    BY <1>0, <2>1
  <2>6. \A j \in 1 .. Len(calls) : calls[j] # k
    BY <2>1, <2>2, <2>5, AboveCalls
  <2> QED
    BY <2>3, <2>4, <2>6, OneWritten
<1>13. ASSUME NEW c \in Block, SelfClosure(c) PROVE CallsStay
  <2>1. PICK k \in 1 .. MaxTemp, e \in Value : k = sp + 1 /\ e = todo.env
    BY <1>0, <1>13, ControlParts DEF SelfClosure
  <2>2. own' = Put(Put(own, Field(c, 1), e), Temp(k), c) /\ UNCHANGED calls
    BY <1>13, <2>1 DEF SelfClosure
  <2>3. \A i \in 1 .. MaxTemp : i # k => own'[Temp(i)] = own[Temp(i)]
    BY <1>0, <2>2, SelfMade
  <2> QED
    BY <2>1, <2>2, <2>3, OneWritten, AboveCalls
<1>14. ASSUME NEW c \in Block, NEW x \in Name, Assign(x, c) PROVE CallsStay
  <2>1. /\ Bind(x, c) /\ sp = Base + 1 /\ Base \in Nat /\ Floor = Base /\ UNCHANGED <<code, calls>>
    BY <1>14, Heights DEF Assign, Evaluated
  <2>2. sp >= 1 /\ sp > Base
    BY <2>1
  <2> QED
    BY <1>8, <2>1, <2>2, WrittenBind
<1>15. ASSUME NEW c \in Block, BindFn(c) PROVE CallsStay
  <2>1. op = "bind" /\ Bind(todo.code.fn, c) /\ UNCHANGED <<code, calls>>
    BY <1>15 DEF BindFn, Doing, op
  <2>2. sp = Base + 1 /\ Base \in Nat /\ todo.code.fn \in Name
    BY <1>0, <2>1, ControlParts, SubjectIs, Heights DEF Position, Place
  <2>3. sp >= 1 /\ sp > Base
    BY <2>2
  <2> QED
    BY <1>8, <2>1, <2>2, <2>3, WrittenBind
<1>16. ASSUME NEW x \in Name, Reassign(x) PROVE CallsStay
  <2>1. sp = Base + 1 /\ Base \in Nat /\ Floor = Base /\ UNCHANGED calls
    BY <1>16, Heights DEF Reassign, Evaluated
  <2>2. sp > Base
    BY <2>1
  <2> QED
    BY <1>8, <1>16, <2>1, <2>2, WrittenReassign
<1>17. ASSUME NEW c \in Block, BindSelf(c) \/ BindCapture(c) \/ BindParam(c)
       PROVE  CallsStay
  <2>1. PICK x \in Name : /\ Insert(x, c) /\ sp >= 1 /\ Len(frames) > 0
    BY <1>17, EntryBinds DEF BindSelf, BindCapture, BindParam
  <2>2. UNCHANGED <<code, calls>> /\ op \in {"bindself", "bindload", "param"}
    BY <1>17 DEF BindSelf, BindCapture, BindParam, Doing, op
  <2>3. sp > Base
    <3>1. Arity(todo.code.fn) \in {0, 1} /\ Base \in Nat
      BY <2>2, SubjectIs, Heights, <1>0 DEF Entry
    <3> QED
      BY <2>2, <3>1, ControlParts DEF Position, Place
  <2> QED
    BY <1>8, <2>1, <2>2, <2>3, WrittenInsert
<1> QED
  BY <1>2, <1>3, <1>4, <1>5, <1>6, <1>9, <1>10, <1>11, <1>12, <1>13, <1>14, <1>15, <1>16, <1>17,
     CallStays DEF Next, Releasing

(* What a name has is referred to.                                         *)
LEMMA BoundIsOwned ==
  ASSUME CInv, NEW c \in Block, NEW h, Bound(c, h)
  PROVE  rc[c] # 0
<1>1. PICK s \in Slot : own[s] = c
  <2>1. CASE \E x \in Name : own[Glob(x)] = c
    BY <2>1, SlotFamilies
  <2>2. CASE \E d \in 1 .. Len(frames), x \in Name :
               /\ frames[d] < h
               /\ own[Local(d, x)] \in Block
               /\ own[Field(own[Local(d, x)], 1)] = c
    BY <2>2, Basics, SlotFamilies
  <2> QED
    BY <2>1, <2>2 DEF Bound
<1>2. rc[c] >= 1
  BY <1>1, OwnedIsLive DEF CInv
<1> QED
  BY <1>2, Basics

(* The callee of a call that is opened by name is what that name has.      *)
LEMMA NamedOpen ==
  ASSUME CInv, NEW x \in Name, OpenCall(x),
         \A k \in 1 .. Len(calls) : Bound(own[Temp(calls[k])], calls[k])
  PROVE  \A k \in 1 .. Len(calls') : Bound(own[Temp(calls[k])], calls[k])'
<1>0. /\ own \in [Slot -> Value] /\ sp \in 0 .. MaxTemp /\ MaxTemp \in Nat
      /\ prog.temps \in 0 .. MaxTemp /\ calls \in Seq(1 .. MaxTemp) /\ Len(calls) \in Nat
      /\ Base \in 0 .. sp
  <2>1. calls \in Seq(1 .. MaxTemp) /\ Len(calls) \in Nat
    BY ControlParts
  <2>2. Base \in 0 .. sp
    BY Heights
  <2> QED
    BY <2>1, <2>2, Basics
<1>1. PICK s \in Slot : /\ Resolves(x, s) /\ Push(own[s]) /\ UNCHANGED frames
                        /\ calls' = Append(calls, sp + 1)
  BY DEF OpenCall
<1>2. PICK h \in 1 .. MaxTemp, v \in Value : h = sp + 1 /\ v = own[s]
  BY <1>0, <1>1 DEF Push
<1>3. own' = Put(own, Temp(h), v)
  BY <1>1, <1>2 DEF Push
<1>4. /\ GlobsKept /\ LocalsKept /\ FieldsKept
      /\ \A i \in 1 .. MaxTemp : own'[Temp(i)] = IF i = h THEN v ELSE own[Temp(i)]
  BY <1>0, <1>3, TempPut
<1>5. ASSUME NEW g, NEW w, Bound(w, g) PROVE Bound(w, g)'
  <2>1. NamesStay(g)
    BY <1>1, <1>4, Basics, TempsOnly DEF FieldsKept
  <2> QED
    BY <1>5, <2>1, BoundStays
<1>6. Bound(v, h)
  <2>1. CASE s = Glob(x)
    BY <1>2, <2>1 DEF Bound
  <2>2. CASE /\ Len(frames) > 0
             /\ own[Local(Len(frames), x)] \in Block
             /\ s = Field(own[Local(Len(frames), x)], 1)
    <3>1. Len(frames) \in 1 .. Len(frames) /\ frames[Len(frames)] = Base
      BY <2>2, Heights
    <3>2. Base < h
      BY <1>0, <1>2
    <3> QED
      BY <1>2, <2>2, <3>1, <3>2 DEF Bound
  <2> QED
    BY <1>1, <2>1, <2>2, Resolved
<1>7. ASSUME NEW k \in 1 .. Len(calls') PROVE Bound(own[Temp(calls[k])], calls[k])'
  <2>1. k \in 1 .. Len(calls) \/ k = Len(calls) + 1
    BY <1>0, <1>1, <1>2
  <2>2. CASE k \in 1 .. Len(calls)
    <3>1. PICK g \in 1 .. MaxTemp, w \in {own[Temp(calls[k])]} : g = calls[k] /\ w = own[Temp(g)]
      BY <2>2, Heights
    <3>2. calls'[k] = g /\ g # h
      BY <1>0, <1>1, <1>2, <2>2, <3>1, AboveCalls
    <3>3. own'[Temp(g)] = w
      BY <1>4, <3>1, <3>2
    <3>4. Bound(w, g)
      BY <2>2, <3>1
    <3>5. Bound(w, g)'
      BY <1>5, <3>4
    <3>6. (own[Temp(calls[k])])' = w /\ calls[k]' = g
      BY <3>2, <3>3
    <3> QED
      BY <3>5, <3>6 DEF Bound
  <2>3. CASE k = Len(calls) + 1
    <3>1. calls'[k] = h
      BY <1>0, <1>1, <1>2, <2>3
    <3>2. own'[Temp(h)] = v
      BY <1>4
    <3>3. Bound(v, h)'
      BY <1>5, <1>6
    <3>6. (own[Temp(calls[k])])' = v /\ calls[k]' = h
      BY <3>1, <3>2
    <3> QED
      BY <3>3, <3>6 DEF Bound
  <2> QED
    BY <2>1, <2>2, <2>3
<1> QED
  BY <1>7

\* The closure whose body is about to start, and has an env.
EnterNamed ==
  op = "enter" /\ todo.env # Nil =>
    \E c \in Block : own[Field(c, 1)] = todo.env /\ Bound(c, sp + 1 - Arity(todo.code.fn))

(* It is the callee of the call that is made, and stays what a name has.   *)
LEMMA NamedEnter ==
  ASSUME CInv, ByName, [Next]_vars, EnterNamed, UNCHANGED prog,
         \A k \in 1 .. Len(calls) : Bound(own[Temp(calls[k])], calls[k])
  PROVE  EnterNamed'
<1>1. SUFFICES ASSUME op' = "enter", todo'.env # Nil
               PROVE  \E c \in Block : /\ own'[Field(c, 1)] = todo'.env
                                       /\ Bound(c, sp + 1 - Arity(todo.code.fn))'
  BY DEF EnterNamed
<1>2. ASSUME UNCHANGED <<sp, todo>>,
             \A c \in Block : rc[c] # 0 => own'[Field(c, 1)] = own[Field(c, 1)]
      PROVE  \E c \in Block : /\ own'[Field(c, 1)] = todo'.env
                              /\ Bound(c, sp + 1 - Arity(todo.code.fn))'
  <2>1. PICK h : h = sp + 1 - Arity(todo.code.fn)
    OBVIOUS
  <2>2. op = "enter" /\ todo.env # Nil
    BY <1>1, <1>2 DEF op
  <2>3. PICK c \in Block : own[Field(c, 1)] = todo.env /\ Bound(c, h)
    BY <2>1, <2>2 DEF EnterNamed
  <2>4. NamesStay(h)
    BY <2>1, <2>2, NamesSteps DEF Pending
  <2>5. Bound(c, h)'
    BY <2>3, <2>4, BoundStays
  <2>6. own'[Field(c, 1)] = todo'.env
    BY <1>2, <2>3, BoundIsOwned
  <2>7. (sp + 1 - Arity(todo.code.fn))' = h
    BY <1>2, <2>1 DEF Arity
  <2>8. Bound(c, sp + 1 - Arity(todo.code.fn))'
    BY <2>5, <2>7 DEF Bound
  <2> QED
    BY <2>6, <2>8
<1>3. CASE UNCHANGED <<heap, sp, frames, todo>>
  BY <1>2, <1>3 DEF heap
<1>4. CASE Releasing
  <2>1. UNCHANGED <<sp, todo>> /\ \A c \in Block : rc[c] # 0 => Kept(c)
    BY <1>4, Released
  <2> QED
    BY <1>2, <2>1, Basics DEF Kept
<1>5. CASE Call
  <2>0. /\ own \in [Slot -> Value] /\ InCall /\ Floor = calls[Len(calls)]
        /\ Floor \in 1 .. MaxTemp /\ Callee \in Block /\ Len(calls) \in 1 .. Len(calls)
        /\ MaxTemp \in Nat /\ sp \in 0 .. MaxTemp /\ Floor \in 0 .. sp
    BY <1>5, Basics, CalleeIs, Heights DEF Call
  <2>1. PICK j \in 1 .. MaxTemp, k \in 1 .. MaxTemp, c \in Block :
           j = Floor /\ k = sp /\ c = Callee
    BY <2>0
  <2>2. own' = Exchange(own, Temp(j), Temp(k))
    BY <1>5, <2>1 DEF Call
  <2>3. FieldsKept
    BY <2>0, <2>2, TempSwap
  <2>4. Bound(c, j)
    BY <2>0, <2>1 DEF Callee
  <2>5. NamesStay(j)
    BY <2>0, <2>1, NamesSteps DEF Pending
  <2>6. Bound(c, j)'
    BY <2>4, <2>5, BoundStays
  <2>7. todo'.env = own[Field(c, 1)] /\ todo'.code = code[c] /\ sp' = sp - 1
    BY <1>5, <2>1 DEF Call, Do
  <2>8. (sp + 1 - Arity(todo.code.fn))' = j
    <3>1. sp - Floor = Arity(code[c].fn) /\ Arity(code[c].fn) \in {0, 1}
      BY <2>0, <2>1 DEF InCall, Arity
    <3>2. Arity(todo.code.fn)' = Arity(code[c].fn)
      BY <2>7 DEF Arity
    <3> QED
      BY <2>0, <2>1, <2>7, <3>1, <3>2
  <2>9. Bound(c, sp + 1 - Arity(todo.code.fn))'
    BY <2>6, <2>8 DEF Bound
  <2>10. own'[Field(c, 1)] = todo'.env
    BY <2>3, <2>7, Basics DEF FieldsKept
  <2> QED
    BY <2>9, <2>10
<1>6. ASSUME NEW o, todo' = [todo EXCEPT !.op = o] PROVE op' = o
  <2>1. todo' = Do(o, todo.code, todo.env, todo.n)
    BY <1>6, TodoEdits, ControlParts
  <2> QED
    BY <2>1 DEF Do, op
<1>7. CASE Enter
  <2>1. UNCHANGED <<heap, sp>> /\ (todo' = todo \/ todo' = [todo EXCEPT !.op = "self"])
    BY <1>7 DEF Enter
  <2>2. todo' = todo
    BY <1>1, <1>6, <2>1
  <2> QED
    BY <1>2, <2>1, <2>2 DEF heap
<1>8. CASE LoadCapture \/ \E c \in Block : SelfClosure(c)
  <2>1. op' \in {"bindload", "bindself"}
    BY <1>6, <1>8 DEF LoadCapture, SelfClosure
  <2> QED
    BY <1>1, <2>1
<1>9. CASE \E c \in Block : BindSelf(c) \/ BindCapture(c)
  <2>1. PICK m : todo' = NextEntry(m)
    BY <1>9 DEF BindSelf, BindCapture
  <2>2. todo' \in {Do("load", todo.code, todo.env, m), Idle, Do("param", todo.code, todo.env, 0)}
    BY <2>1, TodoEdits, ControlParts DEF NextEntry
  <2>3. op' \in {"load", "none", "param"}
    BY <2>2 DEF op, Do, Idle
  <2> QED
    BY <1>1, <2>3
<1> QED
  BY <1>1, <1>3, <1>4, <1>5, <1>7, <1>8, <1>9, UnboundSteps DEF Unbound

(* Only the start of a body reads what may be freed.                       *)
LEMMA StatusSteps ==
  ASSUME [Next]_vars, status # "undefined", status' = "undefined"
  PROVE  Enter
<1>1. CASE \/ ReleaseOperand \/ RunCascade \/ PushConst \/ Discard \/ CaptureNext \/ OpenCallOnValue
           \/ Call \/ LoadCapture \/ Return \/ FallThrough \/ ReleaseLocal \/ BackInCaller
           \/ ReleaseGlobal \/ UNCHANGED vars
  BY <1>1 DEF vars, ReleaseOperand, RunCascade, PushConst, Discard, CaptureNext, OpenCallOnValue,
              Call, LoadCapture, Return, FallThrough, ReleaseLocal, BackInCaller, ReleaseGlobal
<1>2. CASE \/ (\E b \in Block : \/ PushString(b) \/ MakeEnv(b) \/ MakeClosure(b) \/ BindFn(b)
                                \/ SelfClosure(b) \/ BindSelf(b) \/ BindCapture(b) \/ BindParam(b))
           \/ (\E x \in Name : LoadVar(x) \/ Reassign(x) \/ OpenCall(x))
           \/ (\E x \in Name, c \in Block : Assign(x, c))
           \/ (\E f \in Fn, q \in CaptureList : Define(f, q))
  BY <1>2 DEF PushString, MakeEnv, MakeClosure, BindFn, SelfClosure, BindSelf, BindCapture,
              BindParam, LoadVar, Reassign, OpenCall, Assign, Define
<1>3. CASE Abort \/ EndProgram \/ Exit
  BY <1>3 DEF Abort, EndProgram, Exit
<1> QED
  BY <1>1, <1>2, <1>3 DEF Next

(* Every step keeps a second owner of every callee.                        *)
LEMMA NamedSteps ==
  ASSUME CInv, Named, [Next]_vars
  PROVE  Named'
<1>0. UNCHANGED prog /\ (ByName' => ByName)
  BY ControlSteps DEF ControlNext, ByName
<1>1. SUFFICES ASSUME ByName
               PROVE  /\ status' # "undefined"
                      /\ \A k \in 1 .. Len(calls') : Bound(own[Temp(calls[k])], calls[k])'
                      /\ EnterNamed'
  BY <1>0 DEF Named, EnterNamed
<1>2. /\ status # "undefined" /\ EnterNamed
      /\ \A k \in 1 .. Len(calls) : Bound(own[Temp(calls[k])], calls[k])
  BY <1>1 DEF Named, EnterNamed
<1>3. status' # "undefined"
  <2> SUFFICES ASSUME status' = "undefined" PROVE FALSE
    OBVIOUS
  <2>1. Enter
    BY <1>2, StatusSteps
  <2>2. op = "enter" /\ todo.env \in Block /\ kind[todo.env] = "free"
    BY <1>2, <2>1 DEF Enter, Doing, op, Free
  <2>3. PICK c \in Block : own[Field(c, 1)] = todo.env
    BY <1>2, <2>2, Basics DEF EnterNamed
  <2>4. Field(c, 1) \in Slot
    BY Basics, SlotFamilies
  <2> QED
    BY <2>2, <2>3, <2>4, OwnedIsLive DEF CInv
<1>4. \A k \in 1 .. Len(calls') : Bound(own[Temp(calls[k])], calls[k])'
  <2>1. ASSUME CallsStay, NEW k \in 1 .. Len(calls')
        PROVE  Bound(own[Temp(calls[k])], calls[k])'
    <3>0. k \in 1 .. Len(calls)
      <4>1. Len(calls) \in Nat /\ Len(calls') \in Nat
        BY ControlParts, ControlSteps DEF ControlNext
      <4> QED
        BY <2>1, <4>1 DEF CallsStay
    <3>1. PICK g, w : g = calls[k] /\ w = own[Temp(g)]
      OBVIOUS
    <3>2. calls'[k] = g /\ own'[Temp(g)] = w
      BY <2>1, <3>1 DEF CallsStay
    <3>3. Bound(w, g) /\ NamesStay(g)
      BY <1>1, <1>2, <3>0, <3>1, NamesSteps DEF Pending
    <3>4. Bound(w, g)'
      BY <3>3, BoundStays
    <3>5. (own[Temp(calls[k])])' = w /\ calls[k]' = g
      BY <3>2
    <3> QED
      BY <3>4, <3>5 DEF Bound
  <2>2. ~OpenCallOnValue
    BY <1>1 DEF OpenCallOnValue, ByName
  <2> QED
    BY <1>2, <2>1, <2>2, CallsSteps, NamedOpen
<1>5. EnterNamed'
  BY <1>0, <1>1, <1>2, NamedEnter
<1> QED
  BY <1>3, <1>4, <1>5

(* A program none of whose names is reassigned and that calls nothing but  *)
(* names starts no body whose env is gone: gen_call releases the closure   *)
(* first, but the name it was loaded from still owns it.                   *)
THEOREM CalleesKeepEnv == Spec => []EnvAliveByName
<1>1. Init => CInv /\ Named
  <2>1. Init => Named
    BY DEF Init, Named, Idle, Do, op
  <2> QED
    BY <2>1, ClosuresStart
<1>2. CInv /\ Named /\ [Next]_vars => CInv' /\ Named'
  BY ClosuresNext, NamedSteps
<1>3. Named => EnvAliveByName
  BY DEF Named, ByName, EnvAliveByName
<1> QED
  BY <1>1, <1>2, <1>3, PTL DEF Spec
=============================================================================
