------------------------- MODULE VerbProgramProofs -------------------------
(***************************************************************************)
(* The generated code keeps every reference count exact, whatever program  *)
(* it was generated from and however many blocks, names, temporaries and   *)
(* scopes it uses; the second half is about its scopes and about maps.     *)
(***************************************************************************)
EXTENDS VerbMap, VerbHeapProofs, FunctionTheorems

\* The result register is empty between two runtime helpers.
RegIdle == own[Reg] # Nil => todo.op \in {"fill", "result"}

\* The inductive invariant of the program.
IInv == HeapInv /\ ControlOK /\ RegIdle

(***************************************************************************)
(* Facts about a state of the invariant.                                   *)
(***************************************************************************)

(* When nothing is due, the temporaries above sp own nothing.              *)
LEMMA AboveIsNil ==
  ASSUME IInv, Settled, NEW i \in sp + 1 .. MaxTemp
  PROVE  own[Temp(i)] = Nil /\ Temp(i) \in Slot
<1>1. i \in 1 .. MaxTemp
  BY DEF IInv, ControlOK
<1> QED
  BY <1>1, SlotFamilies DEF Settled, Due

(* Between two helpers the result register owns nothing.                   *)
LEMMA RegIsNil ==
  ASSUME IInv, todo.op \notin {"fill", "result"}
  PROVE  own[Reg] = Nil
BY DEF IInv, RegIdle

(* A temporary in use is a slot, and holds a value.                        *)
LEMMA InUse ==
  ASSUME IInv, NEW i \in 1 .. sp
  PROVE  /\ Temp(i) \in Slot
         /\ own[Temp(i)] \in Value
         /\ NotFreed(Temp(i))
<1>1. i \in 1 .. MaxTemp
  BY HeapAssumption DEF IInv, ControlOK, HeapAssumption
<1> QED
  BY <1>1, SlotFamilies, RootsNotFreed DEF IInv, HeapInv, HeapTypeOK

(* A field of a block some slot owns may be read, filled and emptied.      *)
LEMMA FieldOfOwned ==
  ASSUME IInv, NEW s \in Slot, own[s] \in Block, NEW i \in 1 .. Width
  PROVE  /\ Field(own[s], i) \in Slot
         /\ NotFreed(Field(own[s], i))
         /\ own[Field(own[s], i)] \in Value
<1>1. kind[own[s]] # "free"
  BY OwnedIsLive DEF IInv
<1> QED
  BY <1>1, LiveNotFreed, SlotFamilies DEF IInv, HeapInv, HeapTypeOK

(* A variable resolves to a slot that belongs to no freed block: a global, *)
(* or the value of a cell an open scope owns.                              *)
LEMMA ResolvesToSlot ==
  ASSUME IInv, NEW x \in Name, NEW s, Resolves(x, s)
  PROVE  /\ s \in Slot
         /\ NotFreed(s)
         /\ s # Reg
<1>1. CASE s = Glob(x)
  BY <1>1, SlotFamilies, RootsNotFreed DEF Glob, Reg
<1>2. CASE s # Glob(x)
  <2>1. PICK d \in 1 .. depth : own[Local(d, x)] # Nil /\ s = Field(own[Local(d, x)], 1)
    BY <1>2 DEF Resolves
  <2>2. d \in 1 .. MaxDepth /\ x \in LocalName
    BY HeapAssumption DEF IInv, ControlOK, LocalName, HeapAssumption
  <2>3. Local(d, x) \in Slot
    BY <2>2, SlotFamilies
  <2>4. own[Local(d, x)] \in Block
    BY <2>1, <2>3 DEF IInv, HeapInv, HeapTypeOK, Value
  <2>5. 1 \in 1 .. Width
    BY HeapAssumption DEF HeapAssumption
  <2> QED
    BY <2>1, <2>3, <2>4, <2>5, FieldOfOwned, FieldNotRoot
<1> QED
  BY <1>1, <1>2

(* Floor is the place of a temporary when a literal is open.               *)
LEMMA FloorType ==
  ASSUME IInv
  PROVE  /\ Floor \in 0 .. MaxTemp
         /\ lit # <<>> => Floor \in 1 .. MaxTemp /\ lit[Len(lit)].n \in 0 .. Width
<1>1. CASE lit = <<>>
  BY <1>1, HeapAssumption DEF Floor, HeapAssumption
<1>2. CASE lit # <<>>
  <2>1. lit \in Seq(Literal)
    BY DEF IInv, ControlOK
  <2>2. Len(lit) \in 1 .. Len(lit)
    BY <1>2, <2>1, EmptySeq, LenProperties
  <2>3. lit[Len(lit)] \in Literal
    BY <2>1, <2>2, ElementOfSeq
  <2>4. Floor = lit[Len(lit)].at
    BY <1>2 DEF Floor
  <2>5. Floor \in 1 .. MaxTemp
    BY <2>3, <2>4 DEF Literal
  <2>6. lit[Len(lit)].n \in 0 .. Width
    BY <2>3 DEF Literal
  <2> QED
    BY <2>5, <2>6, HeapAssumption DEF HeapAssumption
<1> QED
  BY <1>1, <1>2

(* Operands(k) leaves at least k temporaries in use.                       *)
LEMMA OperandCount ==
  ASSUME IInv, NEW k \in Nat, Operands(k)
  PROVE  /\ sp \in Nat /\ k <= sp /\ sp <= MaxTemp
         /\ Settled /\ todo = Idle
<1>1. Floor \in Nat
  BY FloorType, HeapAssumption DEF HeapAssumption
<1>2. sp - k >= Floor /\ Ready
  BY DEF Operands
<1>3. sp \in 0 .. MaxTemp /\ MaxTemp \in Nat
  BY HeapAssumption DEF IInv, ControlOK, HeapAssumption
<1> QED
  BY <1>1, <1>2, <1>3 DEF Ready

(***************************************************************************)
(* Each action keeps the counts: expressions.                              *)
(***************************************************************************)

(* Moving a result out of its register.                                    *)
LEMMA PushResultStep ==
  ASSUME IInv, PushResult
  PROVE  HeapInv' /\ own'[Reg] = Nil
<1>1. sp + 1 \in sp + 1 .. MaxTemp
  BY HeapAssumption DEF IInv, ControlOK, PushResult, HeapAssumption
<1>2. own[Temp(sp + 1)] = Nil /\ Temp(sp + 1) \in Slot
  BY <1>1, AboveIsNil DEF PushResult
<1>3. own' = Exchange(own, Reg, Temp(sp + 1)) /\ Reg \in Slot
  BY SlotFamilies DEF PushResult
<1>4. Rearranged(own') /\ KeepsFreeEmpty(own')
  BY <1>2, <1>3, RootsNotFreed, ExchangeKeeps DEF IInv
<1>5. HeapInv'
  BY <1>4, RearrangeStep DEF IInv, HeapInv, HeapTypeOK, PushResult
<1>6. own'[Reg] = own[Temp(sp + 1)]
  BY <1>2, <1>3 DEF Exchange, IInv, HeapInv, HeapTypeOK, Temp, Reg
<1> QED
  BY <1>2, <1>5, <1>6

(* Expr::Var copies a value into a temporary nothing used.                 *)
LEMMA LoadVarStep ==
  ASSUME IInv, NEW x \in Name, LoadVar(x)
  PROVE  HeapInv' /\ own'[Reg] = own[Reg]
<1>1. PICK s \in Slot : /\ Resolves(x, s)
                        /\ own' = Put(own, Temp(sp + 1), own[s])
                        /\ rc' = Retain(own[s])
  BY DEF LoadVar
<1>2. sp + 1 \in sp + 1 .. MaxTemp
  BY HeapAssumption DEF IInv, ControlOK, LoadVar, HeapAssumption
<1>3. own[Temp(sp + 1)] = Nil /\ Temp(sp + 1) \in Slot
  BY <1>2, AboveIsNil DEF LoadVar, Ready
<1>4. Rearranged(own) /\ KeepsFreeEmpty(own)
  BY DEF Rearranged, KeepsFreeEmpty, IInv, HeapInv, HeapTypeOK, FreeOwnsNothing
<1>5. HeapInv'
  BY <1>1, <1>3, <1>4, RootsNotFreed, CopyStep DEF IInv, HeapInv, HeapTypeOK, LoadVar
<1>6. own'[Reg] = own[Reg]
  BY <1>1, SlotFamilies DEF Put, Temp, Reg, IInv, HeapInv, HeapTypeOK
<1> QED
  BY <1>5, <1>6

(* A value read from any slot and retained for the result register.        *)
LEMMA ResultCopy ==
  ASSUME IInv, own[Reg] = Nil, NEW s \in Slot,
         own' = Put(own, Reg, own[s]), rc' = Retain(own[s]),
         UNCHANGED <<kind, len, cap, orphan, gcLive, drain>>
  PROVE  HeapInv'
<1>1. Rearranged(own) /\ KeepsFreeEmpty(own)
  BY DEF Rearranged, KeepsFreeEmpty, IInv, HeapInv, HeapTypeOK, FreeOwnsNothing
<1> QED
  BY <1>1, SlotFamilies, RootsNotFreed, CopyStep DEF IInv, HeapInv, HeapTypeOK

(* A new block held by the result register.                                *)
LEMMA ResultAlloc ==
  ASSUME IInv, own[Reg] = Nil,
         NEW b \in Block, NEW k \in Kind \ {"free"}, NEW n \in 0 .. Width, Alloc(b, k, n),
         own' = Put(own, Reg, b), gcLive' = gcLive + 1,
         UNCHANGED <<cap, orphan, drain>>
  PROVE  HeapInv'
<1>1. Rearranged(own) /\ KeepsFreeEmpty(own)
  BY DEF Rearranged, KeepsFreeEmpty, IInv, HeapInv, HeapTypeOK, FreeOwnsNothing
<1>2. \A c \in Block \ {b}, i \in 1 .. Width : kind[c] = "free" => own[Field(c, i)] = Nil
  BY <1>1 DEF KeepsFreeEmpty
<1>3. Reg \in Slot /\ NotFreed(Reg)
  BY SlotFamilies, RootsNotFreed
<1>4. gcLive' \in Int /\ cap' \in [Block -> Nat]
  BY DEF IInv, HeapInv, HeapTypeOK
<1> QED
  BY <1>1, <1>2, <1>3, <1>4, AllocStep DEF IInv

\* A string helper leaves a fresh string in the register and consumes
\* nothing.
LEMMA StringOpStep ==
  ASSUME IInv, NEW k \in 1 .. 3, NEW b \in Block, StringOp(k, b)
  PROVE  HeapInv'
<1>1. own[Reg] = Nil
  BY RegIsNil, OperandCount DEF StringOp, Idle
<1>2. "str" \in Kind \ {"free"} /\ 0 \in 0 .. Width
  BY HeapAssumption DEF Kind, HeapAssumption
<1> QED
  BY <1>1, <1>2, ResultAlloc DEF StringOp

\* A record or a variant is allocated with all its fields nil.
LEMMA ConstructStep ==
  ASSUME IInv, NEW k \in {"struct", "enum"}, NEW b \in Block, NEW n \in 0 .. Width,
         Construct(k, b, n)
  PROVE  HeapInv'
<1>1. own[Reg] = Nil
  BY RegIsNil, OperandCount DEF Construct, Idle
<1>2. k \in Kind \ {"free"}
  BY DEF Kind
<1> QED
  BY <1>1, <1>2, ResultAlloc DEF Construct

(* A reference that moves between two slots of live blocks or roots.       *)
LEMMA MoveStep ==
  ASSUME IInv, NEW s \in Slot, NEW t \in Slot, NotFreed(s), NotFreed(t),
         own' = Exchange(own, s, t),
         UNCHANGED <<kind, rc, orphan, drain>>,
         len' \in [Block -> 0 .. Width], cap' \in [Block -> Nat], gcLive' \in Int
  PROVE  /\ HeapInv'
         /\ s # Reg /\ t # Reg => own'[Reg] = own[Reg]
<1>1. Rearranged(own') /\ KeepsFreeEmpty(own')
  BY ExchangeKeeps DEF IInv
<1>2. HeapInv'
  BY <1>1, RearrangeStep DEF IInv
<1>3. s # Reg /\ t # Reg => own'[Reg] = own[Reg]
  BY SlotFamilies DEF Exchange, IInv, HeapInv, HeapTypeOK
<1> QED
  BY <1>2, <1>3

(* The register is neither a temporary nor a field.                        *)
LEMMA RegApart ==
  /\ \A i : Temp(i) # Reg
  /\ \A b \in Block : \A i : Field(b, i) # Reg
  /\ \A x : Glob(x) # Reg
  /\ \A d, x : Local(d, x) # Reg
BY FieldNotRoot DEF Temp, Reg, Glob, Local

(* `and` and `or` only move the right operand down.                        *)
LEMMA ShortCircuitStep ==
  ASSUME IInv, ShortCircuit
  PROVE  HeapInv' /\ own'[Reg] = own[Reg]
<1>1. sp - 1 \in 1 .. sp /\ sp \in 1 .. sp
  BY OperandCount DEF ShortCircuit
<1>2. Temp(sp - 1) \in Slot /\ Temp(sp) \in Slot
        /\ NotFreed(Temp(sp - 1)) /\ NotFreed(Temp(sp))
  BY <1>1, InUse
<1>3. UNCHANGED <<kind, rc, orphan, drain>>
  BY DEF ShortCircuit
<1>4. cap' \in [Block -> Nat] /\ gcLive' \in Int /\ len' \in [Block -> 0 .. Width]
  BY DEF ShortCircuit, IInv, HeapInv, HeapTypeOK
<1> QED
  BY <1>2, <1>3, <1>4, MoveStep, RegApart DEF ShortCircuit

(***************************************************************************)
(* Arrays.                                                                 *)
(***************************************************************************)

(* The block of a non-empty literal's header goes to a new temporary.      *)
LEMMA OpenArrayStep ==
  ASSUME IInv, NEW n \in 0 .. Width, NEW b \in Block, OpenArray(n, b)
  PROVE  HeapInv' /\ own'[Reg] = own[Reg]
<1>1. sp + 1 \in sp + 1 .. MaxTemp
  BY HeapAssumption DEF IInv, ControlOK, OpenArray, HeapAssumption
<1>2. own[Temp(sp + 1)] = Nil /\ Temp(sp + 1) \in Slot
  BY <1>1, AboveIsNil DEF OpenArray, Ready
<1>3. Rearranged(own) /\ KeepsFreeEmpty(own)
  BY DEF Rearranged, KeepsFreeEmpty, IInv, HeapInv, HeapTypeOK, FreeOwnsNothing
<1>4. \A c \in Block \ {b}, i \in 1 .. Width : kind[c] = "free" => own[Field(c, i)] = Nil
  BY <1>3 DEF KeepsFreeEmpty
<1>5. "arr" \in Kind \ {"free"} /\ 0 \in 0 .. Width
  BY HeapAssumption DEF Kind, HeapAssumption
<1>6. gcLive' \in Int /\ cap' \in [Block -> Nat]
  BY DEF IInv, HeapInv, HeapTypeOK, OpenArray, Buffers
<1>7. HeapInv'
  BY <1>2, <1>3, <1>4, <1>5, <1>6, RootsNotFreed, AllocStep DEF IInv, OpenArray
<1>8. own'[Reg] = own[Reg]
  BY SlotFamilies, RegApart DEF OpenArray, Put, IInv, HeapInv, HeapTypeOK
<1> QED
  BY <1>7, <1>8

\* An element of an array literal moves from the stack to the array and
\* counts once throughout.
LEMMA StoreElementStep ==
  ASSUME IInv, StoreElement
  PROVE  HeapInv' /\ own'[Reg] = own[Reg]
<1>1. sp \in 0 .. MaxTemp /\ MaxTemp \in Nat /\ Width \in Nat
  BY HeapAssumption DEF IInv, ControlOK, HeapAssumption
<1>2. Floor \in 1 .. sp /\ sp \in 1 .. sp /\ lit[Len(lit)].n \in 0 .. Width
  <2>1. lit # <<>> /\ sp = Floor + 1
    BY DEF StoreElement
  <2>2. Floor \in 1 .. MaxTemp /\ lit[Len(lit)].n \in 0 .. Width
    BY <2>1, FloorType
  <2> QED
    BY <1>1, <2>1, <2>2
<1>3. PICK a : a = own[Temp(Floor)]
  OBVIOUS
<1>4. /\ a \in Block
      /\ len[a] < lit[Len(lit)].n
      /\ own' = Exchange(own, Temp(sp), Field(a, len[a] + 1))
      /\ len' = [len EXCEPT ![a] = @ + 1]
  BY <1>3 DEF StoreElement
<1>5. Temp(Floor) \in Slot /\ Temp(sp) \in Slot /\ NotFreed(Temp(sp))
  BY <1>2, InUse
<1>6. len \in [Block -> 0 .. Width]
  BY DEF IInv, HeapInv, HeapTypeOK
<1>7. len[a] + 1 \in 1 .. Width
  BY <1>1, <1>2, <1>4, <1>6
<1>8. Field(a, len[a] + 1) \in Slot /\ NotFreed(Field(a, len[a] + 1))
  BY <1>3, <1>4, <1>5, <1>7, FieldOfOwned
<1>9. len' \in [Block -> 0 .. Width]
  BY <1>1, <1>4, <1>6, <1>7
<1>10. UNCHANGED <<kind, rc, orphan, drain>>
  BY DEF StoreElement
<1>11. cap' \in [Block -> Nat] /\ gcLive' \in Int
  BY DEF StoreElement, IInv, HeapInv, HeapTypeOK
<1> QED
  BY <1>4, <1>5, <1>8, <1>9, <1>10, <1>11, MoveStep, RegApart

\* x[i]: the element is retained for the register before the array is
\* released.
LEMMA ArrayGetStep ==
  ASSUME IInv, ArrayGet
  PROVE  HeapInv'
<1>1. own[Reg] = Nil
  BY RegIsNil, OperandCount DEF ArrayGet, Idle
<1>2. sp - 1 \in 1 .. sp
  BY OperandCount DEF ArrayGet
<1>3. PICK a : a = own[Temp(sp - 1)]
  OBVIOUS
<1>4. PICK i \in 1 .. len[a] : own' = Put(own, Reg, own[Field(a, i)])
                              /\ rc' = Retain(own[Field(a, i)])
  BY <1>3 DEF ArrayGet
<1>5. a \in Block
  BY <1>3 DEF ArrayGet, IsKind
<1>6. i \in 1 .. Width
  BY <1>4, <1>5, HeapAssumption DEF IInv, HeapInv, HeapTypeOK, HeapAssumption
<1>7. Field(a, i) \in Slot
  BY <1>2, <1>3, <1>5, <1>6, InUse, FieldOfOwned
<1> QED
  BY <1>1, <1>4, <1>7, ResultCopy DEF ArrayGet

\* push: the value moves from the stack into the place after the last.
LEMMA ArrayPushStep ==
  ASSUME IInv, ArrayPush
  PROVE  HeapInv' /\ own'[Reg] = own[Reg]
<1>1. sp - 1 \in 1 .. sp /\ sp \in 1 .. sp
  BY OperandCount DEF ArrayPush
<1>2. PICK a : a = own[Temp(sp - 1)]
  OBVIOUS
<1>3. /\ a \in Block
      /\ len[a] < Width
      /\ own' = Exchange(own, Temp(sp), Field(a, len[a] + 1))
      /\ len' = [len EXCEPT ![a] = @ + 1]
      /\ IF len[a] = cap[a]
            THEN /\ cap' = [cap EXCEPT ![a] = NewCap(@)]
                 /\ gcLive' = GrowLive(cap[a])
            ELSE UNCHANGED <<cap, gcLive>>
  BY <1>2 DEF ArrayPush, IsKind
<1>4. /\ len \in [Block -> 0 .. Width] /\ cap \in [Block -> Nat] /\ gcLive \in Int
      /\ Width \in Nat
  BY HeapAssumption DEF IInv, HeapInv, HeapTypeOK, HeapAssumption
<1>5. len[a] + 1 \in 1 .. Width
  BY <1>3, <1>4
<1>6. /\ Temp(sp) \in Slot /\ NotFreed(Temp(sp))
      /\ Field(a, len[a] + 1) \in Slot /\ NotFreed(Field(a, len[a] + 1))
  BY <1>1, <1>2, <1>3, <1>5, InUse, FieldOfOwned
<1>7. len' \in [Block -> 0 .. Width]
  BY <1>3, <1>4, <1>5
<1>8. cap' \in [Block -> Nat] /\ gcLive' \in Int
  <2>1. cap[a] \in Nat
    BY <1>3, <1>4
  <2>2. NewCap(cap[a]) \in Nat /\ GrowLive(cap[a]) \in Int
    BY <1>4, <2>1 DEF NewCap, GrowLive, Buffers
  <2> QED
    BY <1>3, <1>4, <2>2
<1> QED
  BY <1>3, <1>6, <1>7, <1>8, MoveStep, RegApart DEF ArrayPush

\* pop: the last element moves from the array to the register.
LEMMA ArrayPopStep ==
  ASSUME IInv, ArrayPop
  PROVE  HeapInv'
<1>1. sp \in 1 .. sp
  BY OperandCount DEF ArrayPop
<1>2. PICK a : a = Top
  OBVIOUS
<1>3. /\ a = own[Temp(sp)]
      /\ a \in Block
      /\ len[a] > 0
      /\ own' = Exchange(own, Reg, Field(a, len[a]))
      /\ len' = [len EXCEPT ![a] = @ - 1]
  BY <1>2 DEF ArrayPop, IsKind, Top
<1>4. len \in [Block -> 0 .. Width] /\ Width \in Nat
  BY HeapAssumption DEF IInv, HeapInv, HeapTypeOK, HeapAssumption
<1>5. len[a] \in 1 .. Width
  BY <1>3, <1>4
<1>6. Field(a, len[a]) \in Slot /\ NotFreed(Field(a, len[a]))
  BY <1>1, <1>3, <1>5, InUse, FieldOfOwned
<1>7. len' \in [Block -> 0 .. Width]
  BY <1>3, <1>4, <1>5
<1> QED
  BY <1>3, <1>6, <1>7, MoveStep, RootsNotFreed, SlotFamilies
     DEF ArrayPop, IInv, HeapInv, HeapTypeOK

(* `set`: the value gains one reference, and the one it overwrites turns   *)
(* from a reference of the element into a lost one, which its block's      *)
(* count keeps on counting.                                                *)
LEMMA ArraySetStep ==
  ASSUME IInv, ArraySet
  PROVE  HeapInv'
<1>1. /\ own[Reg] = Nil
      /\ sp - 2 \in 1 .. sp /\ sp \in 1 .. sp
  BY RegIsNil, OperandCount DEF ArraySet, Idle
<1>2. PICK a, v : a = own[Temp(sp - 2)] /\ v = Top
  OBVIOUS
<1>3. PICK i \in 1 .. len[a] : 
        LET old == own[Field(a, i)] IN
        /\ old \in Block => orphan[old] < MaxLost
        /\ own' = Put(Put(Put(own, Reg, v), Field(a, i), v), Temp(sp), Nil)
        /\ rc' = Retain(v)
        /\ orphan' = IF old \in Block THEN [orphan EXCEPT ![old] = @ + 1] ELSE orphan
  BY <1>2 DEF ArraySet
<1>4. /\ a \in Block /\ v = own[Temp(sp)]
      /\ UNCHANGED <<kind, len, cap, gcLive, drain>>
  BY <1>2 DEF ArraySet, IsKind, Top
<1>5. i \in 1 .. Width
  BY <1>3, <1>4, HeapAssumption DEF IInv, HeapInv, HeapTypeOK, HeapAssumption
<1>6. /\ Temp(sp) \in Slot /\ Temp(sp - 2) \in Slot /\ v \in Value
      /\ Field(a, i) \in Slot /\ own[Field(a, i)] \in Value
      /\ NotFreed(Field(a, i))
  BY <1>1, <1>2, <1>4, <1>5, InUse, FieldOfOwned
<1>7. PICK old, g : old = own[Field(a, i)] /\ g = Put(Put(own, Reg, v), Field(a, i), v)
  OBVIOUS
<1>8. /\ own' = Put(g, Temp(sp), Nil)
      /\ rc' = Retain(v)
      /\ orphan' = IF old \in Block THEN [orphan EXCEPT ![old] = @ + 1] ELSE orphan
  BY <1>3, <1>7
<1>9. /\ own \in [Slot -> Value] /\ Reg \in Slot /\ Nil \in Value /\ Nil \notin Block
      /\ rc \in [Block -> Nat] /\ orphan \in [Block -> Nat]
  BY SlotFamilies, HeapAssumption DEF IInv, HeapInv, HeapTypeOK, Value, HeapAssumption
<1>10. /\ Put(own, Reg, v)[Field(a, i)] = old
       /\ g[Temp(sp)] = v
  BY <1>4, <1>6, <1>7, <1>9, FieldNotRoot, RegApart DEF Put
<1>11. /\ Put(own, Reg, v) \in [Slot -> Value]
       /\ g \in [Slot -> Value]
       /\ Put(g, Temp(sp), Nil) \in [Slot -> Value]
  BY <1>6, <1>7, <1>9 DEF Put
<1>12. v \in Block => kind[v] # "free" /\ rc[v] >= 1 /\ \A j \in 1 .. Len(drain) : drain[j] # v
  BY <1>4, <1>6, OwnedIsLive DEF IInv
<1>13. rc' = IF v \in Block THEN [rc EXCEPT ![v] = @ + 1] ELSE rc
  BY <1>8 DEF Retain
<1>14. HeapTypeOK'
  <2>1. rc' \in [Block -> Nat] /\ orphan' \in [Block -> Nat]
    BY <1>8, <1>9, <1>13
  <2> QED
    BY <1>4, <1>8, <1>11, <2>1 DEF IInv, HeapInv, HeapTypeOK
<1>15. RefExact'
  <2> SUFFICES ASSUME NEW c \in Block
               PROVE  rc'[c] = NRefs(own', c) + orphan'[c]
    BY DEF RefExact
  <2>1. NRefs(Put(own, Reg, v), c) =
          NRefs(own, c) - (IF own[Reg] = c THEN 1 ELSE 0) + (IF v = c THEN 1 ELSE 0)
    <3>1. own \in [Slot -> Value] /\ Reg \in Slot /\ v \in Value
      BY <1>6, <1>9
    <3> QED
      BY <3>1, PutRefs
  <2>2. NRefs(Put(Put(own, Reg, v), Field(a, i), v), c) =
          NRefs(Put(own, Reg, v), c) - (IF Put(own, Reg, v)[Field(a, i)] = c THEN 1 ELSE 0)
                                     + (IF v = c THEN 1 ELSE 0)
    <3>1. Put(own, Reg, v) \in [Slot -> Value] /\ Field(a, i) \in Slot /\ v \in Value
      BY <1>6, <1>11
    <3> QED
      BY <3>1, PutRefs
  <2>3. NRefs(Put(g, Temp(sp), Nil), c) =
          NRefs(g, c) - (IF g[Temp(sp)] = c THEN 1 ELSE 0) + (IF Nil = c THEN 1 ELSE 0)
    <3>1. g \in [Slot -> Value] /\ Temp(sp) \in Slot /\ Nil \in Value
      BY <1>6, <1>9, <1>11
    <3> QED
      BY <3>1, PutRefs
  <2>4. rc[c] = NRefs(own, c) + orphan[c]
    BY DEF IInv, HeapInv, RefExact
  <2>5. NRefs(own, c) \in Nat /\ orphan[c] \in Nat /\ rc[c] \in Nat
    BY <1>9, NRefsType
  <2>6. Nil # c /\ own[Reg] # c
    BY <1>1, <1>9
  <2>7. rc'[c] = IF v = c THEN rc[c] + 1 ELSE rc[c]
    BY <1>9, <1>13
  <2>8. orphan'[c] = IF old = c THEN orphan[c] + 1 ELSE orphan[c]
    BY <1>8, <1>9
  <2>9. NRefs(Put(own, Reg, v), c) = NRefs(own, c) - 0 + (IF v = c THEN 1 ELSE 0)
    BY <2>1, <2>6
  <2>10. NRefs(g, c) = NRefs(Put(own, Reg, v), c) - (IF old = c THEN 1 ELSE 0)
                                                  + (IF v = c THEN 1 ELSE 0)
    BY <1>7, <1>10, <2>2
  <2>11. NRefs(own', c) = NRefs(g, c) - (IF v = c THEN 1 ELSE 0)
    <3>1. NRefs(own', c) = NRefs(g, c) - (IF v = c THEN 1 ELSE 0) + 0
      BY <1>8, <1>10, <2>3, <2>6
    <3>2. NRefs(g, c) \in Nat
      BY NRefsType
    <3> QED
      BY <3>1, <3>2
  <2> QED
    BY <2>4, <2>5, <2>7, <2>8, <2>9, <2>10, <2>11
<1>16. FreeIsZero'
  BY <1>4, <1>9, <1>12, <1>13 DEF IInv, HeapInv, FreeIsZero
<1>17. FreeOwnsNothing'
  <2> SUFFICES ASSUME NEW c \in Block, NEW j \in 1 .. Width, kind[c] = "free"
               PROVE  own'[Field(c, j)] = Nil
    BY <1>4 DEF FreeOwnsNothing
  <2>1. Field(c, j) \in Slot /\ Field(c, j) # Field(a, i)
          /\ Field(c, j) # Reg /\ Field(c, j) # Temp(sp)
    BY <1>6, SlotFamilies, FieldNotRoot DEF NotFreed
  <2>2. own[Field(c, j)] = Nil
    BY DEF IInv, HeapInv, FreeOwnsNothing
  <2> QED
    BY <1>7, <1>8, <1>9, <2>1, <2>2 DEF Put
<1>18. DrainIsDead'
  <2>1. \A j \in 1 .. Len(drain) : drain[j] \in Block
    BY ElementOfSeq DEF IInv, HeapInv, HeapTypeOK
  <2>2. \A j \in 1 .. Len(drain) : rc'[drain[j]] = rc[drain[j]]
    BY <1>9, <1>12, <1>13, <2>1
  <2> QED
    BY <1>4, <2>2 DEF IInv, HeapInv, DrainIsDead
<1>19. DeadIsDrained'
  <2>1. \A c \in Block : rc'[c] = 0 => rc[c] = 0
    BY <1>9, <1>12, <1>13
  <2> QED
    BY <1>4, <1>8, <2>1 DEF IInv, HeapInv, DeadIsDrained
<1> QED
  BY <1>14, <1>15, <1>16, <1>17, <1>18, <1>19 DEF HeapInv

(***************************************************************************)
(* Records and variants.                                                   *)
(***************************************************************************)

(* A field value moves from its temporary into the block just built.       *)
LEMMA StoreFieldStep ==
  ASSUME IInv, StoreField
  PROVE  HeapInv' /\ own'[Reg] = own[Reg]
<1>1. sp \in 1 .. sp
  BY HeapAssumption DEF IInv, ControlOK, StoreField, HeapAssumption
<1>2. todo.n \in 1 .. Width
  BY HeapAssumption DEF IInv, ControlOK, StoreField, HeapAssumption
<1>3. /\ Temp(sp) \in Slot /\ NotFreed(Temp(sp)) /\ Reg \in Slot
      /\ own[Reg] \in Block
  BY <1>1, InUse, SlotFamilies DEF StoreField
<1>4. Field(own[Reg], todo.n) \in Slot /\ NotFreed(Field(own[Reg], todo.n))
  BY <1>2, <1>3, FieldOfOwned
<1>5. UNCHANGED <<kind, rc, orphan, drain>>
  BY DEF StoreField
<1>6. cap' \in [Block -> Nat] /\ gcLive' \in Int /\ len' \in [Block -> 0 .. Width]
  BY DEF StoreField, IInv, HeapInv, HeapTypeOK
<1> QED
  BY <1>3, <1>4, <1>5, <1>6, MoveStep, RegApart DEF StoreField

\* x.f: the field is retained for the register before its block is released.
LEMMA FieldGetStep ==
  ASSUME IInv, NEW k \in 1 .. 2, FieldGet(k)
  PROVE  HeapInv'
<1>1. own[Reg] = Nil /\ sp - k + 1 \in 1 .. sp
  BY RegIsNil, OperandCount DEF FieldGet, Idle
<1>2. PICK o : o = own[Temp(sp - k + 1)]
  OBVIOUS
<1>3. PICK i \in 1 .. len[o] : own' = Put(own, Reg, own[Field(o, i)])
                              /\ rc' = Retain(own[Field(o, i)])
  BY <1>2 DEF FieldGet
<1>4. o \in Block
  BY <1>2 DEF FieldGet, IsKind
<1>5. i \in 1 .. Width
  BY <1>3, <1>4, HeapAssumption DEF IInv, HeapInv, HeapTypeOK, HeapAssumption
<1>6. Field(o, i) \in Slot
  BY <1>1, <1>2, <1>4, <1>5, InUse, FieldOfOwned
<1> QED
  BY <1>1, <1>3, <1>6, ResultCopy DEF FieldGet

(* The field's old value takes the operand's place, the new one is         *)
(* retained a second time for the result.                                  *)
LEMMA FieldSetStep ==
  ASSUME IInv, NEW k \in 2 .. 3, FieldSet(k)
  PROVE  HeapInv'
<1>1. own[Reg] = Nil /\ sp - k + 1 \in 1 .. sp /\ sp \in 1 .. sp
  BY RegIsNil, OperandCount DEF FieldSet, Idle
<1>2. PICK o : o = own[Temp(sp - k + 1)]
  OBVIOUS
<1>3. PICK i \in 1 .. len[o] : own' = Put(Exchange(own, Temp(sp), Field(o, i)), Reg, own[Temp(sp)])
  BY <1>2 DEF FieldSet, Top
<1>4. o \in Block /\ rc' = Retain(own[Temp(sp)])
        /\ UNCHANGED <<kind, len, cap, orphan, gcLive, drain>>
  BY <1>2 DEF FieldSet, IsKind, Top
<1>5. i \in 1 .. Width
  BY <1>3, <1>4, HeapAssumption DEF IInv, HeapInv, HeapTypeOK, HeapAssumption
<1>6. /\ Field(o, i) \in Slot /\ NotFreed(Field(o, i))
      /\ Temp(sp) \in Slot /\ NotFreed(Temp(sp))
  BY <1>1, <1>2, <1>4, <1>5, InUse, FieldOfOwned
<1>7. PICK f : f = Exchange(own, Temp(sp), Field(o, i))
  OBVIOUS
<1>8. Rearranged(f) /\ KeepsFreeEmpty(f)
  BY <1>6, <1>7, ExchangeKeeps DEF IInv
<1>9. f[Reg] = Nil /\ Reg \in Slot /\ NotFreed(Reg)
  BY <1>1, <1>4, <1>6, <1>7, RegApart, RootsNotFreed, SlotFamilies
     DEF Exchange, IInv, HeapInv, HeapTypeOK
<1>10. own' = Put(f, Reg, own[Temp(sp)])
  BY <1>3, <1>7
<1>11. len' \in [Block -> 0 .. Width] /\ cap' \in [Block -> Nat] /\ gcLive' \in Int
  BY <1>4 DEF IInv, HeapInv, HeapTypeOK
<1> QED
  BY <1>4, <1>6, <1>8, <1>9, <1>10, <1>11, CopyStep DEF IInv

(***************************************************************************)
(* Statements.                                                             *)
(***************************************************************************)

(* bind at top level and a reassignment: the variable and the operand      *)
(* exchange their references.                                              *)
LEMMA StoreVarStep ==
  ASSUME IInv, Evaluated, NEW s \in Slot, NotFreed(s), s # Reg, StoreVar(s)
  PROVE  HeapInv' /\ own'[Reg] = own[Reg]
<1>1. sp \in 1 .. sp
  BY DEF Evaluated
<1>2. Temp(sp) \in Slot /\ NotFreed(Temp(sp))
  BY <1>1, InUse
<1>3. UNCHANGED <<kind, rc, orphan, drain>>
  BY DEF StoreVar
<1>4. cap' \in [Block -> Nat] /\ gcLive' \in Int /\ len' \in [Block -> 0 .. Width]
  BY DEF StoreVar, IInv, HeapInv, HeapTypeOK
<1> QED
  BY <1>2, <1>3, <1>4, MoveStep, RegApart DEF StoreVar

(* bind in a scope: the operand moves into the new cell, the cell into the *)
(* scope, and what the scope had there into the operand's place.           *)
LEMMA NewCellStep ==
  ASSUME IInv, sp \in 1 .. sp, NEW d \in 1 .. MaxDepth, NEW x \in LocalName,
         NEW c \in Block, NewCell(d, x, c)
  PROVE  HeapInv' /\ own'[Reg] = own[Reg]
<1>1. 1 \in 1 .. Width
  BY HeapAssumption DEF HeapAssumption
<1>2. /\ Temp(sp) \in Slot /\ Field(c, 1) \in Slot /\ Local(d, x) \in Slot
      /\ NotFreed(Local(d, x)) /\ NotFreed(Temp(sp))
  BY <1>1, InUse, SlotFamilies, RootsNotFreed
<1>3. own \in [Slot -> Value]
  BY DEF IInv, HeapInv, HeapTypeOK
<1>4. PICK e, f : e = Exchange(own, Temp(sp), Field(c, 1)) /\ f = Exchange(e, Temp(sp), Local(d, x))
  OBVIOUS
<1>5. /\ Alloc(c, "cell", 1)
      /\ own' = Put(f, Local(d, x), c)
      /\ gcLive' = gcLive + 1
      /\ UNCHANGED <<cap, orphan, drain>>
  BY <1>4 DEF NewCell
<1>6. e \in [Slot -> Value] /\ f \in [Slot -> Value]
  BY <1>2, <1>3, <1>4 DEF Exchange
<1>7. Rearranged(f)
  <2> SUFFICES ASSUME NEW b \in Block
               PROVE  NRefs(f, b) = NRefs(own, b)
    BY <1>6 DEF Rearranged
  <2>1. NRefs(Exchange(own, Temp(sp), Field(c, 1)), b) = NRefs(own, b)
    BY <1>2, <1>3, ExchangeRefs
  <2>2. NRefs(Exchange(e, Temp(sp), Local(d, x)), b) = NRefs(e, b)
    BY <1>2, <1>6, ExchangeRefs
  <2> QED
    BY <1>4, <2>1, <2>2
<1>8. kind[c] = "free" /\ own[Field(c, 1)] = Nil
  BY <1>1, <1>5 DEF Alloc, Free, IInv, HeapInv, FreeOwnsNothing
<1>9. /\ Field(c, 1) # Temp(sp) /\ Field(c, 1) # Local(d, x) /\ Temp(sp) # Local(d, x)
  BY FieldNotRoot DEF Temp, Local
<1>10. f[Local(d, x)] = Nil
  BY <1>2, <1>3, <1>4, <1>6, <1>8, <1>9 DEF Exchange
<1>11. \A b \in Block \ {c}, i \in 1 .. Width : kind[b] = "free" => f[Field(b, i)] = Nil
  <2> SUFFICES ASSUME NEW b \in Block \ {c}, NEW i \in 1 .. Width, kind[b] = "free"
               PROVE  f[Field(b, i)] = Nil
    OBVIOUS
  <2>1. /\ Field(b, i) \in Slot /\ Field(b, i) # Field(c, 1)
        /\ Field(b, i) # Temp(sp) /\ Field(b, i) # Local(d, x)
    BY SlotFamilies, FieldNotRoot DEF Field
  <2>2. own[Field(b, i)] = Nil
    BY DEF IInv, HeapInv, FreeOwnsNothing
  <2> QED
    BY <1>2, <1>3, <1>4, <1>6, <2>1, <2>2 DEF Exchange
<1>12. "cell" \in Kind \ {"free"} /\ 1 \in 0 .. Width
  BY HeapAssumption DEF Kind, HeapAssumption
<1>13. gcLive' \in Int /\ cap' \in [Block -> Nat]
  BY <1>5 DEF IInv, HeapInv, HeapTypeOK
<1>14. HeapInv'
  BY <1>2, <1>5, <1>7, <1>10, <1>11, <1>12, <1>13, AllocStep DEF IInv
<1>15. own'[Reg] = own[Reg]
  BY <1>2, <1>3, <1>4, <1>5, <1>6, RegApart, SlotFamilies DEF Exchange, Put
<1> QED
  BY <1>14, <1>15

(* The next element of an each loop: a retained element of the array, or a *)
(* fresh one-character string.                                             *)
LEMMA EachIterationStep ==
  ASSUME IInv, NEW b \in Block, EachIteration(b)
  PROVE  HeapInv' /\ own'[Reg] = own[Reg]
<1>1. sp + 1 \in sp + 1 .. MaxTemp
  BY HeapAssumption DEF IInv, ControlOK, EachIteration, HeapAssumption
<1>2. own[Temp(sp + 1)] = Nil /\ Temp(sp + 1) \in Slot
  BY <1>1, AboveIsNil DEF EachIteration, AtCond
<1>3. Rearranged(own) /\ KeepsFreeEmpty(own)
  BY DEF Rearranged, KeepsFreeEmpty, IInv, HeapInv, HeapTypeOK, FreeOwnsNothing
<1>4. PICK a : a = InnerEach.coll
  OBVIOUS
<1>5. CASE IsKind(a, "arr")
  <2>1. PICK i : i = InnerEach.idx + 1
    OBVIOUS
  <2>2. /\ i <= len[a]
        /\ own' = Put(own, Temp(sp + 1), own[Field(a, i)])
        /\ rc' = Retain(own[Field(a, i)])
        /\ UNCHANGED <<kind, len, gcLive>>
    BY <1>4, <1>5, <2>1 DEF EachIteration, FetchElement
  <2>3. a \in Block
    BY <1>5 DEF IsKind
  <2>4. Field(a, i) \in Slot
    <3>1. InnerEach \in EachLoop
      <4>1. fe \in Seq(EachLoop) /\ fe # <<>>
        BY DEF IInv, ControlOK, EachIteration, AtCond, AtEachCond
      <4>2. Len(fe) \in 1 .. Len(fe)
        BY <4>1, EmptySeq, LenProperties
      <4> QED
        BY <4>1, <4>2, ElementOfSeq DEF InnerEach
    <3>2. InnerEach.idx \in Nat
      BY <3>1 DEF EachLoop
    <3>3. len[a] \in 0 .. Width /\ Width \in Nat
      BY <2>3, HeapAssumption DEF IInv, HeapInv, HeapTypeOK, HeapAssumption
    <3>4. i \in 1 .. Width
      BY <2>1, <2>2, <3>2, <3>3
    <3> QED
      BY <2>3, <3>4, SlotFamilies
  <2>5. HeapInv'
    BY <1>2, <1>3, <2>2, <2>4, RootsNotFreed, CopyStep
       DEF IInv, HeapInv, HeapTypeOK, EachIteration
  <2>6. own'[Reg] = own[Reg]
    BY <2>2, RegApart, SlotFamilies DEF Put, IInv, HeapInv, HeapTypeOK
  <2> QED
    BY <2>5, <2>6
<1>6. CASE ~IsKind(a, "arr")
  <2>1. /\ Alloc(b, "str", 0)
        /\ own' = Put(own, Temp(sp + 1), b)
        /\ gcLive' = gcLive + 1
        /\ UNCHANGED <<cap, orphan, drain>>
    BY <1>4, <1>6 DEF EachIteration, FetchElement
  <2>2. "str" \in Kind \ {"free"} /\ 0 \in 0 .. Width
    BY HeapAssumption DEF Kind, HeapAssumption
  <2>3. \A c \in Block \ {b}, i \in 1 .. Width : kind[c] = "free" => own[Field(c, i)] = Nil
    BY <1>3 DEF KeepsFreeEmpty
  <2>4. gcLive' \in Int /\ cap' \in [Block -> Nat]
    BY <2>1 DEF IInv, HeapInv, HeapTypeOK
  <2>5. HeapInv'
    BY <1>2, <1>3, <2>1, <2>2, <2>3, <2>4, RootsNotFreed, AllocStep DEF IInv
  <2>6. own'[Reg] = own[Reg]
    BY <2>1, RegApart, SlotFamilies DEF Put, IInv, HeapInv, HeapTypeOK
  <2> QED
    BY <2>5, <2>6
<1> QED
  BY <1>5, <1>6

(***************************************************************************)
(* The whole next-state relation.                                          *)
(***************************************************************************)

(* An action that leaves the heap alone keeps its invariant.               *)
LEMMA HeapStutter ==
  ASSUME IInv, UNCHANGED heap
  PROVE  HeapInv' /\ own' = own
<1>1. /\ kind' = kind /\ rc' = rc /\ own' = own /\ len' = len /\ cap' = cap
      /\ orphan' = orphan /\ gcLive' = gcLive /\ drain' = drain
  BY DEF heap
<1> QED
  BY <1>1 DEF IInv, HeapInv, HeapTypeOK, RefExact, NRefs, FreeIsZero, FreeOwnsNothing,
     DrainIsDead, DeadIsDrained

(* Releasing a slot other than the register leaves the register alone.     *)
LEMMA DropKeepsReg ==
  ASSUME IInv, NEW s \in Slot, s # Reg, Drop(s)
  PROVE  HeapInv' /\ own'[Reg] = own[Reg]
<1>1. HeapInv'
  BY DropStep DEF IInv
<1>2. own' = Put(own, s, Nil)
  BY DEF Drop
<1> QED
  BY <1>1, <1>2, SlotFamilies DEF Put, IInv, HeapInv, HeapTypeOK

\* A cascade does not touch the result register.
LEMMA CascadeKeepsReg ==
  ASSUME IInv, Cascade
  PROVE  HeapInv' /\ own'[Reg] = own[Reg]
<1>1. HeapInv'
  BY CascadeStep DEF IInv
<1>2. CASE FreeBlock
  BY <1>1, <1>2 DEF FreeBlock
<1>3. CASE ReleaseChild
  <2>1. PICK i \in Owning(Head(drain)) : Drop(Field(Head(drain), i))
    BY <1>3 DEF ReleaseChild
  <2>2. Head(drain) \in Block
    BY <1>3, HeadTailProperties DEF IInv, HeapInv, HeapTypeOK, ReleaseChild
  <2>3. i \in 1 .. Width
    BY <2>1 DEF Owning
  <2>4. Field(Head(drain), i) \in Slot /\ Field(Head(drain), i) # Reg
    BY <2>2, <2>3, SlotFamilies, RegApart
  <2> QED
    BY <2>1, <2>4, DropKeepsReg
<1> QED
  BY <1>1, <1>2, <1>3 DEF Cascade

(* The releases that follow a helper, a statement or a scope.              *)
LEMMA ReleasingStep ==
  ASSUME IInv, Releasing
  PROVE  IInv'
<1> USE DEF ctl
<1>1. CASE ReleaseOperand
  <2>1. PICK i \in Due : Drop(Temp(i))
    BY <1>1 DEF ReleaseOperand
  <2>2. i \in 1 .. MaxTemp
    BY <2>1, HeapAssumption DEF Due, IInv, ControlOK, HeapAssumption
  <2>3. Temp(i) \in Slot /\ Temp(i) # Reg
    BY <2>2, SlotFamilies, RegApart
  <2>4. HeapInv' /\ own'[Reg] = own[Reg]
    BY <2>1, <2>3, DropKeepsReg
  <2> QED
    BY <1>1, <2>4 DEF ReleaseOperand, IInv, ControlOK, RegIdle
<1>2. CASE RunCascade
  <2>1. HeapInv' /\ own'[Reg] = own[Reg]
    BY <1>2, CascadeKeepsReg DEF RunCascade
  <2> QED
    BY <1>2, <2>1 DEF RunCascade, IInv, ControlOK, RegIdle
<1>3. CASE PushResult
  <2>1. HeapInv' /\ own'[Reg] = Nil
    BY <1>3, PushResultStep
  <2>2. sp' \in 0 .. MaxTemp
    BY <1>3, HeapAssumption DEF PushResult, IInv, ControlOK, HeapAssumption
  <2>3. todo' \in [op : {"none", "result", "fill", "load", "bind"}, n : 0 .. Width]
    BY <1>3, HeapAssumption DEF PushResult, Idle, HeapAssumption
  <2> QED
    BY <1>3, <2>1, <2>2, <2>3 DEF PushResult, IInv, ControlOK, RegIdle
<1>4. CASE ReleaseLocal
  <2>1. PICK x \in LocalName : Drop(Local(depth, x))
    BY <1>4 DEF ReleaseLocal
  <2>2. depth \in 1 .. MaxDepth
    BY <1>4, HeapAssumption DEF ReleaseLocal, IInv, ControlOK, HeapAssumption
  <2>3. Local(depth, x) \in Slot /\ Local(depth, x) # Reg
    BY <2>2, SlotFamilies, RegApart
  <2>4. HeapInv' /\ own'[Reg] = own[Reg]
    BY <2>1, <2>3, DropKeepsReg
  <2> QED
    BY <1>4, <2>4 DEF ReleaseLocal, IInv, ControlOK, RegIdle
<1>5. CASE LeaveScope
  <2>1. HeapInv' /\ own' = own
    BY <1>5, HeapStutter DEF LeaveScope
  <2>2. depth' \in 0 .. MaxDepth
    BY <1>5, HeapAssumption DEF LeaveScope, IInv, ControlOK, HeapAssumption
  <2> QED
    BY <1>5, <2>1, <2>2 DEF LeaveScope, IInv, ControlOK, RegIdle
<1>6. CASE ReleaseGlobal
  <2>1. PICK x \in Name : Drop(Glob(x))
    BY <1>6 DEF ReleaseGlobal
  <2>2. Glob(x) \in Slot /\ Glob(x) # Reg
    BY SlotFamilies, RegApart
  <2>3. HeapInv' /\ own'[Reg] = own[Reg]
    BY <2>1, <2>2, DropKeepsReg
  <2> QED
    BY <1>6, <2>3 DEF ReleaseGlobal, IInv, ControlOK, RegIdle
<1>7. CASE Exit
  <2>1. HeapInv' /\ own' = own
    BY <1>7, HeapStutter DEF Exit
  <2> QED
    BY <1>7, <2>1 DEF Exit, IInv, ControlOK, RegIdle
<1> QED
  BY <1>1, <1>2, <1>3, <1>4, <1>5, <1>6, <1>7 DEF Releasing

(* A helper that read k operands and left its result in the register.      *)
LEMMA ReturnsControl ==
  ASSUME IInv, NEW k \in 1 .. 3, Operands(k), Returns(k)
  PROVE  ControlOK' /\ RegIdle'
<1>1. sp' \in 0 .. MaxTemp
  BY OperandCount, HeapAssumption DEF Returns, HeapAssumption
<1>2. todo' \in [op : {"none", "result", "fill", "load", "bind"}, n : 0 .. Width]
  BY HeapAssumption DEF Returns, Result, HeapAssumption
<1>3. todo'.op = "result"
  BY DEF Returns, Result
<1> QED
  BY <1>1, <1>2, <1>3 DEF Returns, ctl, IInv, ControlOK, RegIdle

(* A step that changes neither the control state below nor the register.   *)
LEMMA TempOnlyControl ==
  ASSUME IInv, sp' \in 0 .. MaxTemp, own'[Reg] = own[Reg], UNCHANGED <<todo, ctl>>
  PROVE  ControlOK' /\ RegIdle'
BY DEF ctl, IInv, ControlOK, RegIdle

(* The actions of an expression.                                           *)
LEMMA ExpressionStep ==
  ASSUME IInv, Expression
  PROVE  IInv'
<1>0. sp \in 0 .. MaxTemp /\ MaxTemp \in Nat /\ Width \in Nat
  BY HeapAssumption DEF IInv, ControlOK, HeapAssumption
<1>1. CASE PushConst
  <2>1. HeapInv' /\ own' = own
    BY <1>1, HeapStutter DEF PushConst
  <2>2. sp' \in 0 .. MaxTemp
    BY <1>0, <1>1 DEF PushConst
  <2> QED
    BY <1>1, <2>1, <2>2, TempOnlyControl DEF PushConst, IInv
<1>2. ASSUME NEW x \in Name, LoadVar(x) PROVE IInv'
  <2>1. sp' \in 0 .. MaxTemp
    BY <1>0, <1>2 DEF LoadVar
  <2> QED
    BY <1>2, <2>1, LoadVarStep, TempOnlyControl DEF LoadVar, IInv
<1>3. ASSUME NEW k \in 1 .. 2, ScalarOp(k) PROVE IInv'
  <2>1. HeapInv'
    BY <1>3, HeapStutter DEF ScalarOp
  <2> QED
    BY <1>3, <2>1, ReturnsControl DEF ScalarOp, IInv
<1>4. ASSUME NEW k \in 1 .. 3, NEW b \in Block, StringOp(k, b) PROVE IInv'
  BY <1>4, StringOpStep, ReturnsControl DEF StringOp, IInv
<1>5. CASE ShortCircuit
  <2>1. sp' \in 0 .. MaxTemp
    BY <1>0, <1>5, OperandCount DEF ShortCircuit
  <2> QED
    BY <1>5, <2>1, ShortCircuitStep, TempOnlyControl DEF ShortCircuit, IInv
<1>6. ASSUME NEW n \in 0 .. Width, NEW b \in Block, OpenArray(n, b) PROVE IInv'
  <2>1. HeapInv' /\ own'[Reg] = own[Reg]
    BY <1>6, OpenArrayStep
  <2>2. sp' \in 0 .. MaxTemp
    BY <1>0, <1>6 DEF OpenArray
  <2>3. lit' \in Seq(Literal)
    <3>1. [at |-> sp + 1, n |-> n] \in Literal
      BY <1>0, <1>6 DEF OpenArray, Literal
    <3> QED
      BY <1>6, <3>1, AppendProperties DEF OpenArray, IInv, ControlOK
  <2> QED
    BY <1>6, <2>1, <2>2, <2>3 DEF OpenArray, IInv, ControlOK, RegIdle
<1>7. CASE StoreElement
  <2>1. sp' \in 0 .. MaxTemp
    <3>1. Floor \in Nat /\ sp = Floor + 1
      BY <1>0, <1>7, FloorType DEF StoreElement
    <3> QED
      BY <1>0, <1>7, <3>1 DEF StoreElement
  <2> QED
    BY <1>7, <2>1, StoreElementStep, TempOnlyControl DEF StoreElement, IInv
<1>8. CASE CloseArray
  <2>1. HeapInv' /\ own' = own
    BY <1>8, HeapStutter DEF CloseArray
  <2>2. lit' \in Seq(Literal)
    <3>1. lit \in Seq(Literal) /\ lit' = SubSeq(lit, 1, Len(lit) - 1)
      BY <1>8 DEF CloseArray, IInv, ControlOK
    <3>2. Len(lit) \in Nat
      BY <3>1, LenProperties
    <3>3. \A i \in 1 .. Len(lit) - 1 : lit[i] \in Literal
      BY <3>1, <3>2, ElementOfSeq
    <3> QED
      BY <3>1, <3>2, <3>3, SubSeqProperties
  <2> QED
    BY <1>8, <2>1, <2>2 DEF CloseArray, IInv, ControlOK, RegIdle
<1>9. CASE ArrayGet
  BY <1>9, ArrayGetStep, ReturnsControl DEF ArrayGet, IInv
<1>10. CASE ArraySet
  BY <1>10, ArraySetStep, ReturnsControl DEF ArraySet, IInv
<1>11. CASE ArrayPush
  BY <1>11, ArrayPushStep, ReturnsControl DEF ArrayPush, IInv
<1>12. CASE ArrayPop
  BY <1>12, ArrayPopStep, ReturnsControl DEF ArrayPop, IInv
<1>13. ASSUME NEW k \in {"struct", "enum"}, NEW b \in Block, NEW n \in 0 .. Width,
              Construct(k, b, n)
       PROVE  IInv'
  <2>1. HeapInv'
    BY <1>13, ConstructStep
  <2>2. todo' \in [op : {"none", "result", "fill", "load", "bind"}, n : 0 .. Width]
          /\ todo'.op = "fill"
    BY <1>13 DEF Construct, Fill
  <2> QED
    BY <1>13, <2>1, <2>2 DEF Construct, ctl, IInv, ControlOK, RegIdle
<1>14. CASE StoreField
  <2>1. HeapInv'
    BY <1>14, StoreFieldStep
  <2>2. sp' \in 0 .. MaxTemp
    BY <1>0, <1>14 DEF StoreField
  <2>3. todo' \in [op : {"none", "result", "fill", "load", "bind"}, n : 0 .. Width]
          /\ todo'.op = "fill"
    BY <1>0, <1>14 DEF StoreField, Fill, IInv, ControlOK
  <2> QED
    BY <1>14, <2>1, <2>2, <2>3 DEF StoreField, ctl, IInv, ControlOK, RegIdle
<1>15. CASE Constructed
  <2>1. HeapInv' /\ own' = own
    BY <1>15, HeapStutter DEF Constructed
  <2>2. todo' \in [op : {"none", "result", "fill", "load", "bind"}, n : 0 .. Width]
          /\ todo'.op = "result"
    BY <1>0, <1>15 DEF Constructed, Result
  <2> QED
    BY <1>15, <2>1, <2>2 DEF Constructed, ctl, IInv, ControlOK, RegIdle
<1>16. ASSUME NEW k \in 1 .. 2, FieldGet(k) PROVE IInv'
  BY <1>16, FieldGetStep, ReturnsControl DEF FieldGet, IInv
<1>17. ASSUME NEW k \in 2 .. 3, FieldSet(k) PROVE IInv'
  BY <1>17, FieldSetStep, ReturnsControl DEF FieldSet, IInv
<1> QED
  BY <1>1, <1>2, <1>3, <1>4, <1>5, <1>6, <1>7, <1>8, <1>9, <1>10, <1>11, <1>12,
     <1>13, <1>14, <1>15, <1>16, <1>17 DEF Expression

(* Dropping the last entries of a stack keeps the type of its entries.     *)
LEMMA PrefixType ==
  ASSUME NEW S, NEW q \in Seq(S), NEW k \in Int, k <= Len(q)
  PROVE  SubSeq(q, 1, k) \in Seq(S)
<1>1. Len(q) \in Nat
  BY LenProperties
<1>2. \A i \in 1 .. k : q[i] \in S
  BY <1>1, ElementOfSeq
<1> QED
  BY <1>1, <1>2, SubSeqProperties

(* The innermost each loop is a record of its type.                        *)
LEMMA InnerEachType ==
  ASSUME IInv, fe # <<>>
  PROVE  /\ fe \in Seq(EachLoop) /\ Len(fe) \in Nat /\ Len(fe) \in 1 .. Len(fe)
         /\ InnerEach \in EachLoop
<1>1. fe \in Seq(EachLoop)
  BY DEF IInv, ControlOK
<1>2. Len(fe) \in 1 .. Len(fe) /\ Len(fe) \in Nat
  BY <1>1, EmptySeq, LenProperties
<1> QED
  BY <1>1, <1>2, ElementOfSeq DEF InnerEach

(* The statements that open and close scopes and loops leave the heap      *)
(* alone.                                                                  *)
LEMMA ScopeStep ==
  ASSUME IInv, EnterScope \/ EnterLoopBody \/ EndScope \/ LeaveOrNext \/ EndEach
  PROVE  IInv'
<1>0. /\ depth \in 0 .. MaxDepth /\ MaxDepth \in Nat
      /\ loops \in Seq(1 .. MaxDepth) /\ Len(loops) \in Nat
      /\ fe \in Seq(EachLoop) /\ Len(fe) \in Nat
  BY HeapAssumption, LenProperties DEF IInv, ControlOK, HeapAssumption
<1>1. HeapInv' /\ own' = own /\ UNCHANGED <<sp, todo, lit, status>>
  BY HeapStutter DEF EnterScope, EnterLoopBody, EndScope, LeaveOrNext, EndEach
<1>2. CASE EnterScope
  <2>1. depth' \in 0 .. MaxDepth /\ target' \in 0 .. MaxDepth
    BY <1>0, <1>2 DEF EnterScope
  <2> QED
    BY <1>1, <1>2, <2>1 DEF EnterScope, IInv, ControlOK, RegIdle
<1>3. CASE EnterLoopBody
  <2>1. depth' \in 0 .. MaxDepth /\ target' \in 0 .. MaxDepth /\ depth + 1 \in 1 .. MaxDepth
    BY <1>0, <1>3 DEF EnterLoopBody
  <2>2. loops' \in Seq(1 .. MaxDepth)
    BY <1>0, <1>3, <2>1, AppendProperties DEF EnterLoopBody
  <2> QED
    BY <1>1, <1>3, <2>1, <2>2 DEF EnterLoopBody, IInv, ControlOK, RegIdle
<1>4. CASE EndScope
  <2>1. target' \in 0 .. MaxDepth
    BY <1>0, <1>4 DEF EndScope
  <2>2. SubSeq(loops, 1, Len(loops) - 1) \in Seq(1 .. MaxDepth)
    BY <1>0, PrefixType
  <2>3. loops' \in Seq(1 .. MaxDepth)
    BY <1>0, <1>4, <2>2 DEF EndScope
  <2> QED
    BY <1>1, <1>4, <2>1, <2>3 DEF EndScope, IInv, ControlOK, RegIdle
<1>5. CASE LeaveOrNext
  <2>1. target' \in 0 .. MaxDepth
    <3>1. loops # <<>> /\ target' = loops[Len(loops)] - 1
      BY <1>5 DEF LeaveOrNext
    <3>2. Len(loops) \in 1 .. Len(loops)
      BY <1>0, <3>1, EmptySeq
    <3>3. loops[Len(loops)] \in 1 .. MaxDepth
      BY <1>0, <3>2, ElementOfSeq
    <3> QED
      BY <1>0, <3>1, <3>3
  <2>2. loops' \in Seq(1 .. MaxDepth)
    <3>1. SubSeq(loops, 1, Len(loops) - 1) \in Seq(1 .. MaxDepth)
      BY <1>0, PrefixType
    <3> QED
      BY <1>5, <3>1 DEF LeaveOrNext
  <2>3. fe' \in Seq(EachLoop)
    <3>1. PICK k \in 0 .. Len(fe) : fe' = SubSeq(fe, 1, k)
      BY <1>5 DEF LeaveOrNext
    <3>2. k \in Int /\ k <= Len(fe)
      BY <1>0, <3>1
    <3> QED
      BY <1>0, <3>1, <3>2, PrefixType
  <2> QED
    BY <1>1, <1>5, <2>1, <2>2, <2>3 DEF LeaveOrNext, IInv, ControlOK, RegIdle
<1>6. CASE EndEach
  <2>1. fe # <<>> /\ InnerEach.d = depth
    BY <1>6 DEF EndEach, AtCond, AtEachCond
  <2>2. depth \in 1 .. MaxDepth
    BY <2>1, InnerEachType DEF EachLoop
  <2>3. target' \in 0 .. MaxDepth
    BY <1>0, <1>6, <2>2 DEF EndEach
  <2>4. SubSeq(fe, 1, Len(fe) - 1) \in Seq(EachLoop)
    BY <1>0, PrefixType
  <2> QED
    BY <1>1, <1>6, <2>3, <2>4 DEF EndEach, IInv, ControlOK, RegIdle
<1> QED
  BY <1>2, <1>3, <1>4, <1>5, <1>6

(* `each` over a collection.                                               *)
LEMMA EachStep ==
  ASSUME IInv
  PROVE  /\ \A c \in Block, n \in 0 .. Width : BeginEach(c, n) => IInv'
         /\ \A b \in Block : EachIteration(b) => IInv'
<1>0. /\ depth \in 0 .. MaxDepth /\ MaxDepth \in Nat /\ sp \in 0 .. MaxTemp
      /\ MaxTemp \in Nat /\ Width \in Nat
  BY HeapAssumption DEF IInv, ControlOK, HeapAssumption
<1>1. ASSUME NEW c \in Block, NEW n \in 0 .. Width, BeginEach(c, n) PROVE IInv'
  <2>1. sp = 1 /\ depth + 1 < MaxDepth /\ NewCell(depth + 1, CollName, c)
    BY <1>1 DEF BeginEach, Evaluated
  <2>2. depth + 1 \in 1 .. MaxDepth /\ sp \in 1 .. sp
    BY <1>0, <2>1
  <2>3. HeapInv' /\ own'[Reg] = own[Reg]
    BY <2>1, <2>2, NewCellStep DEF LocalName
  <2>4. Top \in Value
    BY <2>2, InUse DEF Top
  <2>5. [coll |-> Top, idx |-> 0, n |-> n, d |-> depth + 1] \in EachLoop
    BY <1>0, <2>2, <2>4 DEF EachLoop
  <2>6. fe' \in Seq(EachLoop)
    BY <1>1, <2>5, AppendProperties DEF BeginEach, IInv, ControlOK
  <2>7. sp' \in 0 .. MaxTemp /\ depth' \in 0 .. MaxDepth /\ target' \in 0 .. MaxDepth
    BY <1>0, <1>1, <2>1, <2>2 DEF BeginEach
  <2> QED
    BY <1>1, <2>3, <2>6, <2>7 DEF BeginEach, IInv, ControlOK, RegIdle
<1>2. ASSUME NEW b \in Block, EachIteration(b) PROVE IInv'
  <2>1. HeapInv' /\ own'[Reg] = own[Reg]
    BY <1>2, EachIterationStep
  <2>2. fe # <<>> /\ InnerEach.idx < InnerEach.n /\ todo = Idle
    BY <1>2 DEF EachIteration, AtCond, AtEachCond
  <2>3. PICK k, e : k = Len(fe) /\ e = [InnerEach EXCEPT !.idx = @ + 1]
    OBVIOUS
  <2>4. k \in 1 .. Len(fe) /\ e \in EachLoop
    <3>1. InnerEach \in EachLoop /\ k \in 1 .. Len(fe)
      BY <2>2, <2>3, InnerEachType
    <3>2. InnerEach.idx + 1 \in 0 .. Width
      BY <1>0, <2>2, <3>1 DEF EachLoop
    <3> QED
      BY <2>3, <3>1, <3>2 DEF EachLoop
  <2>5. fe' = [fe EXCEPT ![k] = e]
    BY <1>2, <2>3 DEF EachIteration, InnerEach
  <2>6. fe' \in Seq(EachLoop)
    BY <2>4, <2>5, ExceptSeq DEF IInv, ControlOK
  <2>7. sp' \in 0 .. MaxTemp /\ depth' \in 0 .. MaxDepth /\ target' \in 0 .. MaxDepth
    BY <1>0, <1>2 DEF EachIteration
  <2>8. todo' \in [op : {"none", "result", "fill", "load", "bind"}, n : 0 .. Width]
    BY <1>0, <1>2 DEF EachIteration, Binding
  <2>9. own[Reg] = Nil
    BY <2>2, RegIsNil DEF Idle
  <2> QED
    BY <1>2, <2>1, <2>6, <2>7, <2>8, <2>9 DEF EachIteration, IInv, ControlOK, RegIdle
<1> QED
  BY <1>1, <1>2

(* `match`: loading the fields, releasing the scrutinee, binding them.     *)
LEMMA MatchStep ==
  ASSUME IInv
  PROVE  /\ MatchArm => IInv'
         /\ LoadField => IInv'
         /\ ReleaseScrutinee => IInv'
         /\ \A x \in Name, c \in Block : BindNext(x, c) => IInv'
<1>0. /\ depth \in 0 .. MaxDepth /\ MaxDepth \in Nat /\ sp \in 0 .. MaxTemp
      /\ MaxTemp \in Nat /\ Width \in Nat /\ 1 \in 1 .. Width
  BY HeapAssumption DEF IInv, ControlOK, HeapAssumption
<1>1. ASSUME MatchArm PROVE IInv'
  <2>1. HeapInv' /\ own' = own
    BY <1>1, HeapStutter DEF MatchArm
  <2>2. Top \in Block
    BY <1>1 DEF MatchArm, IsKind
  <2>3. todo' \in [op : {"none", "result", "fill", "load", "bind"}, n : 0 .. Width]
    BY <1>1, <2>2 DEF MatchArm, Load, IInv, HeapInv, HeapTypeOK
  <2>4. own[Reg] = Nil
    BY <1>1, RegIsNil DEF MatchArm, Evaluated, Ready, Idle
  <2> QED
    BY <1>1, <2>1, <2>3, <2>4 DEF MatchArm, ctl, IInv, ControlOK, RegIdle
<1>2. ASSUME LoadField PROVE IInv'
  <2>1. PICK e : e = own[Temp(1)]
    OBVIOUS
  <2>2. /\ e \in Block
        /\ own' = Put(own, Temp(sp + 1), own[Field(e, todo.n)])
        /\ rc' = Retain(own[Field(e, todo.n)])
        /\ UNCHANGED <<kind, len, cap, orphan, gcLive, drain>>
    BY <1>2, <2>1 DEF LoadField
  <2>3. sp + 1 \in sp + 1 .. MaxTemp /\ todo.n \in 1 .. Width
    BY <1>0, <1>2 DEF LoadField, IInv, ControlOK
  <2>4. own[Temp(sp + 1)] = Nil /\ Temp(sp + 1) \in Slot
    BY <1>2, <2>3, AboveIsNil DEF LoadField
  <2>5. Field(e, todo.n) \in Slot
    BY <2>2, <2>3, SlotFamilies
  <2>6. Rearranged(own) /\ KeepsFreeEmpty(own)
    BY DEF Rearranged, KeepsFreeEmpty, IInv, HeapInv, HeapTypeOK, FreeOwnsNothing
  <2>7. HeapInv'
    BY <2>2, <2>4, <2>5, <2>6, RootsNotFreed, CopyStep DEF IInv, HeapInv, HeapTypeOK
  <2>8. own'[Reg] = own[Reg] /\ own[Reg] = Nil
    BY <1>2, <2>2, RegApart, RegIsNil, SlotFamilies
       DEF LoadField, Put, IInv, HeapInv, HeapTypeOK
  <2>9. todo' \in [op : {"none", "result", "fill", "load", "bind"}, n : 0 .. Width]
    BY <1>0, <1>2, <2>3 DEF LoadField, Load
  <2>10. sp' \in 0 .. MaxTemp
    BY <1>0, <1>2 DEF LoadField
  <2> QED
    BY <1>2, <2>7, <2>8, <2>9, <2>10 DEF LoadField, ctl, IInv, ControlOK, RegIdle
<1>3. ASSUME ReleaseScrutinee PROVE IInv'
  <2>1. 1 \in 1 .. sp /\ sp \in 1 .. sp
    BY <1>0, <1>3 DEF ReleaseScrutinee
  <2>2. /\ Temp(1) \in Slot /\ NotFreed(Temp(1))
        /\ Temp(sp) \in Slot /\ NotFreed(Temp(sp))
    BY <2>1, InUse
  <2>3. HeapInv' /\ own'[Reg] = own[Reg]
    BY <1>3, <2>2, MoveStep, RegApart DEF ReleaseScrutinee, IInv, HeapInv, HeapTypeOK
  <2>4. own[Reg] = Nil
    BY <1>3, RegIsNil DEF ReleaseScrutinee, Load
  <2>5. sp' \in 0 .. MaxTemp /\ depth' \in 0 .. MaxDepth /\ target' \in 0 .. MaxDepth
    BY <1>0, <1>3 DEF ReleaseScrutinee
  <2>6. todo' \in [op : {"none", "result", "fill", "load", "bind"}, n : 0 .. Width]
    BY <1>0, <1>3 DEF ReleaseScrutinee, Idle, Binding
  <2> QED
    BY <1>3, <2>3, <2>4, <2>5, <2>6 DEF ReleaseScrutinee, IInv, ControlOK, RegIdle
<1>4. ASSUME NEW x \in Name, NEW c \in Block, BindNext(x, c) PROVE IInv'
  <2>1. sp \in 1 .. sp /\ depth \in 1 .. MaxDepth /\ x \in LocalName
    BY <1>0, <1>4 DEF BindNext, LocalName
  <2>2. HeapInv' /\ own'[Reg] = own[Reg]
    BY <1>4, <2>1, NewCellStep DEF BindNext
  <2>3. own[Reg] = Nil
    BY <1>4, RegIsNil DEF BindNext, Binding
  <2>4. sp' \in 0 .. MaxTemp
    BY <1>0, <1>4 DEF BindNext
  <2>5. todo' \in [op : {"none", "result", "fill", "load", "bind"}, n : 0 .. Width]
    BY <1>0, <1>4 DEF BindNext, Idle, Binding
  <2> QED
    BY <1>4, <2>2, <2>3, <2>4, <2>5 DEF BindNext, ctl, IInv, ControlOK, RegIdle
<1> QED
  BY <1>1, <1>2, <1>3, <1>4

(* The actions of a statement.                                             *)
LEMMA StatementStep ==
  ASSUME IInv, Statement
  PROVE  IInv'
<1>0. sp \in 0 .. MaxTemp /\ MaxTemp \in Nat /\ depth \in 0 .. MaxDepth /\ MaxDepth \in Nat
  BY HeapAssumption DEF IInv, ControlOK, HeapAssumption
<1>1. CASE Discard
  <2>1. HeapInv' /\ own' = own
    BY <1>1, HeapStutter DEF Discard
  <2>2. sp' \in 0 .. MaxTemp
    BY <1>0, <1>1 DEF Discard
  <2> QED
    BY <1>1, <2>1, <2>2, TempOnlyControl DEF Discard, IInv
<1>2. ASSUME Evaluated, NEW s \in Slot, NotFreed(s), s # Reg, StoreVar(s) PROVE IInv'
  <2>1. sp' \in 0 .. MaxTemp
    BY <1>0, <1>2 DEF StoreVar, Evaluated
  <2> QED
    BY <1>2, <2>1, StoreVarStep, TempOnlyControl DEF StoreVar, IInv
<1>3. ASSUME NEW x \in Name, AssignGlobal(x) PROVE IInv'
  BY <1>2, <1>3, SlotFamilies, RootsNotFreed, RegApart DEF AssignGlobal
<1>4. ASSUME NEW x \in Name, Reassign(x) PROVE IInv'
  BY <1>2, <1>4, ResolvesToSlot DEF Reassign
<1>5. ASSUME NEW x \in Name, NEW c \in Block, AssignLocal(x, c) PROVE IInv'
  <2>1. sp \in 1 .. sp /\ depth \in 1 .. MaxDepth /\ x \in LocalName
    BY <1>0, <1>5 DEF AssignLocal, Evaluated, LocalName
  <2>2. sp' \in 0 .. MaxTemp
    BY <1>0, <1>5, <2>1 DEF AssignLocal
  <2> QED
    BY <1>5, <2>1, <2>2, NewCellStep, TempOnlyControl DEF AssignLocal, IInv
<1>6. CASE EnterScope \/ EnterLoopBody \/ EndScope \/ LeaveOrNext \/ EndEach
  BY <1>6, ScopeStep
<1>7. CASE Abort \/ EndProgram
  <2>1. HeapInv' /\ own' = own
    BY <1>7, HeapStutter DEF Abort, EndProgram
  <2> QED
    BY <1>7, <2>1 DEF Abort, EndProgram, IInv, ControlOK, RegIdle
<1> QED
  BY <1>1, <1>3, <1>4, <1>5, <1>6, <1>7, EachStep, MatchStep DEF Statement

(* In the initial state every count is zero and nothing is referenced.     *)
LEMMA InitInv ==
  ASSUME Init
  PROVE  IInv
<1>1. HeapInv
  BY HeapStart DEF Init
<1>2. ControlOK
  BY HeapAssumption, EmptySeq DEF Init, Idle, ControlOK, HeapAssumption
<1>3. RegIdle
  BY SlotFamilies DEF Init, HeapInit, RegIdle
<1> QED
  BY <1>1, <1>2, <1>3 DEF IInv

(* The invariant is inductive.                                             *)
LEMMA NextInv ==
  ASSUME IInv, [Next]_vars
  PROVE  IInv'
<1>1. CASE UNCHANGED vars
  <2>1. HeapInv' /\ own' = own
    BY <1>1, HeapStutter DEF vars
  <2> QED
    BY <1>1, <2>1 DEF vars, ctl, IInv, ControlOK, RegIdle
<1>2. CASE Next
  BY <1>1, <1>2, ReleasingStep, ExpressionStep, StatementStep DEF Next, Stopped
<1> QED
  BY <1>1, <1>2

(* Every state of every program satisfies it.                              *)
THEOREM Invariance == Spec => []IInv
<1>1. Init => IInv
  BY InitInv
<1>2. IInv /\ [Next]_vars => IInv'
  BY NextInv
<1> QED
  BY <1>1, <1>2, PTL DEF Spec

(***************************************************************************)
(* What the invariant is for.                                              *)
(***************************************************************************)

(* The slots, headers and control state of the generated code keep their   *)
(* types: no cascade frees a block twice into a negative count, no scope   *)
(* stack or loop stack is popped below its bottom.                         *)
THEOREM TypeCorrect == Spec => []TypeOK
<1>1. IInv => TypeOK
  BY DEF IInv, HeapInv, TypeOK
<1> QED
  BY <1>1, Invariance, PTL

(* Whatever the program, a block's refcount word is the number of slots    *)
(* that own it plus the references array set has lost.                     *)
THEOREM CountsExact == Spec => []RefExact
<1>1. IInv => RefExact
  BY DEF IInv, HeapInv
<1> QED
  BY <1>1, Invariance, PTL

(* The nested releases of a cascade work on distinct live blocks nobody    *)
(* refers to, and on every such block: nothing is freed twice, and nothing *)
(* whose count reached zero is forgotten.                                  *)
THEOREM CascadeExact == Spec => []CascadeOwnsItsBlocks
<1>1. IInv => CascadeOwnsItsBlocks
  BY DEF IInv, HeapInv, DrainIsDead, DeadIsDrained, CascadeOwnsItsBlocks, Live
<1> QED
  BY <1>1, Invariance, PTL

(* No slot of a program refers to a freed block, and freed blocks own      *)
(* nothing: the generated code never uses memory it has given back.        *)
THEOREM NothingDangles == Spec => []NoDangling
<1>1. IInv => NoDangling
  <2> SUFFICES ASSUME IInv, NEW b \in Block, kind[b] = "free"
               PROVE  NRefs(own, b) = 0 /\ Owning(b) = {}
    BY DEF NoDangling
  <2>1. NRefs(own, b) = 0
    BY FreeIsUnreferenced DEF IInv
  <2>2. Owning(b) = {}
    BY DEF Owning, IInv, HeapInv, FreeOwnsNothing
  <2> QED
    BY <2>1, <2>2
<1> QED
  BY <1>1, Invariance, PTL

(***************************************************************************)
(* The count that VERB_GC_DEBUG prints.                                    *)
(***************************************************************************)

LEMMA ReleasingWeight ==
  ASSUME IInv, LiveInv, Releasing
  PROVE  LiveInv'
<1>1. CASE RunCascade
  BY <1>1, CascadeWeight DEF RunCascade, IInv
<1>2. CASE ReleaseOperand \/ ReleaseLocal \/ ReleaseGlobal
  BY <1>2, WeightStutter DEF ReleaseOperand, ReleaseLocal, ReleaseGlobal, Drop
<1>3. CASE PushResult \/ LeaveScope \/ Exit
  BY <1>3, WeightStutter DEF PushResult, LeaveScope, Exit, heap
<1> QED
  BY <1>1, <1>2, <1>3 DEF Releasing

\* Every step of an expression that allocates counts what it takes from the
\* allocator.
LEMMA ExpressionWeight ==
  ASSUME IInv, LiveInv, Expression
  PROVE  LiveInv'
<1>0. HeapTypeOK
  BY DEF IInv, HeapInv
<1>1. CASE PushConst \/ \E x \in Name : LoadVar(x)
  BY <1>1, WeightStutter DEF PushConst, LoadVar, heap
<1>2. CASE ShortCircuit \/ StoreElement \/ CloseArray \/ \E k \in 1 .. 2 : ScalarOp(k)
  BY <1>2, WeightStutter DEF ShortCircuit, StoreElement, CloseArray, ScalarOp, heap
<1>3. CASE ArrayGet \/ ArraySet \/ ArrayPop
  BY <1>3, WeightStutter DEF ArrayGet, ArraySet, ArrayPop
<1>4. CASE StoreField \/ Constructed
  BY <1>4, WeightStutter DEF StoreField, Constructed, heap
<1>5. CASE (\E k \in 1 .. 2 : FieldGet(k)) \/ \E k \in 2 .. 3 : FieldSet(k)
  BY <1>5, WeightStutter DEF FieldGet, FieldSet
<1>6. ASSUME NEW k \in 1 .. 3, NEW b \in Block, StringOp(k, b)
      PROVE  LiveInv'
  BY <1>0, <1>6, AllocPlain DEF StringOp, Kind
<1>7. ASSUME NEW k \in {"struct", "enum"}, NEW b \in Block, NEW n \in 0 .. Width, Construct(k, b, n)
      PROVE  LiveInv'
  BY <1>0, <1>7, AllocPlain DEF Construct, Kind
<1>8. ASSUME NEW n \in 0 .. Width, NEW b \in Block, OpenArray(n, b)
      PROVE  LiveInv'
  <2>1. /\ Alloc(b, "arr", 0)
        /\ cap' = [cap EXCEPT ![b] = n]
        /\ gcLive' = gcLive + 1 + Buffers(n)
    BY <1>8 DEF OpenArray
  <2>2. n \in Nat /\ "arr" \in Kind \ {"free"}
    BY HeapAssumption DEF HeapAssumption, Kind
  <2> QED
    BY <1>0, <2>1, <2>2, AllocWeight
<1>9. CASE ArrayPush
  <2>1. PICK a \in Block : a = own[Temp(sp - 1)] /\ kind[a] = "arr"
    BY <1>9 DEF ArrayPush, IsKind
  <2>2. CASE len[a] = cap[a]
    <3>1. UNCHANGED kind /\ cap' = [cap EXCEPT ![a] = NewCap(cap[a])] /\ gcLive' = gcLive + 1 - Buffers(cap[a])
      BY <1>9, <2>1, <2>2 DEF ArrayPush, GrowLive
    <3>2. NewCap(cap[a]) \in Nat \ {0}
      BY <1>0 DEF NewCap, HeapTypeOK
    <3> QED
      BY <1>0, <2>1, <3>1, <3>2, GrowWeight
  <2>3. CASE len[a] # cap[a]
    BY <1>9, <2>1, <2>3, WeightStutter DEF ArrayPush
  <2> QED
    BY <2>2, <2>3
<1> QED
  BY <1>1, <1>2, <1>3, <1>4, <1>5, <1>6, <1>7, <1>8, <1>9 DEF Expression

\* So does every statement: only a cell is allocated, once for each binding.
LEMMA StatementWeight ==
  ASSUME IInv, LiveInv, Statement
  PROVE  LiveInv'
<1>0. HeapTypeOK
  BY DEF IInv, HeapInv
<1>1. ASSUME NEW d, NEW x, NEW c \in Block, NewCell(d, x, c)
      PROVE  LiveInv'
  BY <1>0, <1>1, AllocPlain DEF NewCell, Kind
<1>2. CASE (\E x \in Name, c \in Block : AssignLocal(x, c)) \/ \E x \in Name, c \in Block : BindNext(x, c)
  BY <1>1, <1>2 DEF AssignLocal, BindNext
<1>3. CASE \E c \in Block, n \in 0 .. Width : BeginEach(c, n)
  BY <1>1, <1>3 DEF BeginEach
<1>4. ASSUME NEW b \in Block, EachIteration(b)
      PROVE  LiveInv'
  <2>1. FetchElement(b) /\ UNCHANGED cap
    BY <1>4 DEF EachIteration
  <2>2. CASE UNCHANGED <<kind, len, gcLive>>
    BY <2>1, <2>2, WeightStutter
  <2>3. CASE Alloc(b, "str", 0) /\ gcLive' = gcLive + 1
    BY <1>0, <2>1, <2>3, AllocPlain DEF Kind
  <2> QED
    BY <2>1, <2>2, <2>3 DEF FetchElement
<1>5. CASE Discard \/ EnterScope \/ EnterLoopBody \/ EndScope \/ LeaveOrNext
  BY <1>5, WeightStutter DEF Discard, EnterScope, EnterLoopBody, EndScope, LeaveOrNext, heap
<1>6. CASE (\E x \in Name : AssignGlobal(x)) \/ \E x \in Name : Reassign(x)
  BY <1>6, WeightStutter DEF AssignGlobal, Reassign, StoreVar
<1>7. CASE EndEach \/ MatchArm \/ LoadField \/ ReleaseScrutinee \/ Abort \/ EndProgram
  BY <1>7, WeightStutter DEF EndEach, MatchArm, LoadField, ReleaseScrutinee, Abort, EndProgram, heap
<1> QED
  BY <1>2, <1>3, <1>4, <1>5, <1>6, <1>7 DEF Statement

\* At the start nothing is allocated and nothing counted.
LEMMA LiveInit == Init => LiveInv
<1> SUFFICES ASSUME Init
             PROVE  LiveInv
  OBVIOUS
<1>1. Live = {} /\ Buffered = {}
  BY DEF Init, HeapInit, Live, Buffered
<1>2. gcLive = Cardinality(Live) + Cardinality(Buffered)
  BY <1>1, FS_EmptySet DEF Init, HeapInit
<1> QED
  BY <1>2 DEF Init, HeapInit, LiveInv, LiveCountExact, BuffersOfArrays, Buffered

(* verb_gc_live is the number of blocks verb_alloc handed out and nobody   *)
(* gave back, elems buffers included: growing an array, popping it and     *)
(* freeing it in a cascade count each buffer once.                         *)
THEOREM LeakCountExact == Spec => []LiveCountExact
<1>1. Init => LiveInv
  BY LiveInit
<1>2. IInv /\ LiveInv /\ [Next]_vars => LiveInv'
  <2>1. ASSUME LiveInv, UNCHANGED vars
        PROVE  LiveInv'
    BY <2>1, WeightStutter DEF vars, heap
  <2> QED
    BY <2>1, ReleasingWeight, ExpressionWeight, StatementWeight DEF Next, Stopped
<1>3. LiveInv => LiveCountExact
  BY DEF LiveInv
<1> QED
  BY <1>1, <1>2, <1>3, Invariance, PTL DEF Spec

(***************************************************************************)
(* Every release leaves less to release.                                   *)
(***************************************************************************)

\* At the end of the program nothing is under way and no scope is open.
EndInv == status = "ending" => todo = Idle /\ depth = target

(* One slot less owns a reference.                                         *)
LEMMA DropShrinks ==
  ASSUME IInv, NEW s \in Slot, Drop(s)
  PROVE  Held' < Held
<1>1. own \in [Slot -> Value] /\ own[s] # Nil
  BY HeapAssumption DEF Drop, IInv, HeapInv, HeapTypeOK, HeapAssumption
<1>2. own' = Put(own, s, Nil) /\ Live' = Live
  BY DEF Drop, Live
<1>3. PICK S, T : S = {u \in Slot : own[u] # Nil} /\ T = {u \in Slot : own'[u] # Nil}
  OBVIOUS
<1>4. T = S \ {s} /\ s \in S
  BY <1>1, <1>2, <1>3 DEF Put
<1>5. IsFiniteSet(S)
  BY <1>3, SlotFinite, FS_Subset
<1>6. Cardinality(T) = Cardinality(S) - 1 /\ Cardinality(S) \in Nat
  BY <1>4, <1>5, FS_RemoveElement, FS_CardinalityType
<1>7. Cardinality(Live) \in Nat
  BY FS_Subset, FS_CardinalityType, HeapAssumption DEF HeapAssumption, Live
<1>8. Held = Cardinality(S) + Cardinality(Live) /\ Held' = Cardinality(T) + Cardinality(Live)
  BY <1>2, <1>3 DEF Held
<1> QED
  BY <1>6, <1>7, <1>8

(* One block less is in use.                                               *)
LEMMA FreeShrinks ==
  ASSUME IInv, FreeBlock
  PROVE  Held' < Held
<1>1. drain \in Seq(Block) /\ drain # <<>>
  BY DEF FreeBlock, IInv, HeapInv, HeapTypeOK
<1>2. PICK b \in Block : b = Head(drain) /\ b = drain[1] /\ 1 \in 1 .. Len(drain)
  BY <1>1
<1>3. kind' = [kind EXCEPT ![b] = "free"] /\ own' = own /\ kind \in [Block -> Kind] /\ kind[b] # "free"
  BY <1>2 DEF FreeBlock, IInv, HeapInv, HeapTypeOK, DrainIsDead
<1>4. PICK L, M : L = Live /\ M = {c \in Block : kind'[c] # "free"}
  OBVIOUS
<1>5. M = L \ {b} /\ b \in L
  BY <1>3, <1>4 DEF Live
<1>6. IsFiniteSet(L)
  BY <1>4, FS_Subset, HeapAssumption DEF HeapAssumption, Live
<1>7. Cardinality(M) = Cardinality(L) - 1 /\ Cardinality(L) \in Nat
  BY <1>5, <1>6, FS_RemoveElement, FS_CardinalityType
<1>8. PICK n : n = Cardinality({u \in Slot : own[u] # Nil})
  OBVIOUS
<1>9. n \in Nat
  BY <1>8, SlotFinite, FS_Subset, FS_CardinalityType
<1>10. Held = n + Cardinality(L) /\ Held' = n + Cardinality(M)
  BY <1>3, <1>4, <1>8 DEF Held, Live
<1> QED
  BY <1>7, <1>9, <1>10

(* What runs while a cascade is under way or the program is ending.        *)
LEMMA ShrinkingSteps ==
  ASSUME IInv, EndInv, Next, drain # <<>> \/ (status = "ending" /\ status' = "ending")
  PROVE  UNCHANGED vars \/ ReleaseOperand \/ RunCascade \/ ReleaseGlobal
<1>0. status # "running" \/ drain # <<>>
  OBVIOUS
<1>1. ~Ready /\ ~AtCond
  BY <1>0 DEF Ready, AtCond, Settled
<1>2. Settled => drain = <<>> /\ status = "ending" /\ status' = "ending" /\ todo = Idle /\ depth = target
  BY DEF Settled, EndInv
<1>3. ~Expression
  <2>1. \A k : ~Operands(k)
    BY <1>1 DEF Operands
  <2>2. ~StoreField /\ ~Constructed
    BY <1>2 DEF StoreField, Constructed, Idle, Fill
  <2>3. ~PushConst /\ ~ShortCircuit /\ ~StoreElement /\ ~CloseArray /\ ~ArrayGet /\ ~ArraySet
        /\ ~ArrayPush /\ ~ArrayPop
    BY <1>1, <2>1 DEF PushConst, ShortCircuit, StoreElement, CloseArray, ArrayGet, ArraySet,
                      ArrayPush, ArrayPop
  <2>4. /\ \A x : ~LoadVar(x)
        /\ \A k : ~ScalarOp(k) /\ ~FieldGet(k) /\ ~FieldSet(k)
        /\ \A k, b : ~StringOp(k, b) /\ ~OpenArray(k, b)
        /\ \A k, b, n : ~Construct(k, b, n)
    BY <1>1, <2>1 DEF LoadVar, ScalarOp, FieldGet, FieldSet, StringOp, OpenArray, Construct
  <2> QED
    BY <2>2, <2>3, <2>4 DEF Expression
<1>4. ~Statement
  <2>1. ~AtStatement /\ ~Evaluated
    BY <1>1 DEF AtStatement, Evaluated
  <2>2. ~LoadField /\ ~ReleaseScrutinee /\ \A x, c : ~BindNext(x, c)
    BY <1>2 DEF LoadField, ReleaseScrutinee, BindNext, Idle, Load, Binding
  <2>3. ~Discard /\ ~EnterScope /\ ~EnterLoopBody /\ ~EndScope /\ ~LeaveOrNext /\ ~EndEach
        /\ ~MatchArm /\ ~EndProgram
    BY <1>1, <2>1 DEF Discard, EnterScope, EnterLoopBody, EndScope, LeaveOrNext, EndEach, MatchArm,
                      EndProgram
  <2>4. ~Abort
    BY <1>0 DEF Abort, Settled
  <2>5. /\ \A x : ~AssignGlobal(x) /\ ~Reassign(x)
        /\ \A x, c : ~AssignLocal(x, c) /\ ~BeginEach(x, c)
        /\ \A c : ~EachIteration(c)
    BY <1>1, <2>1 DEF AssignGlobal, Reassign, AssignLocal, BeginEach, EachIteration
  <2> QED
    BY <2>2, <2>3, <2>4, <2>5 DEF Statement
<1>5. ~PushResult /\ ~ReleaseLocal /\ ~LeaveScope /\ ~Exit
  <2>1. depth \in Int
    BY HeapAssumption DEF IInv, ControlOK, HeapAssumption
  <2> QED
    BY <1>2, <2>1 DEF PushResult, ReleaseLocal, LeaveScope, Exit, Idle, Result
<1> QED
  BY <1>3, <1>4, <1>5 DEF Next, Releasing, Stopped

(* Nothing starts again once the last statement has run.                   *)
LEMMA EndStep ==
  ASSUME IInv, EndInv, [Next]_vars
  PROVE  EndInv'
<1>1. CASE UNCHANGED vars
  BY <1>1 DEF vars, ctl, EndInv
<1>2. CASE Next /\ status = "ending" /\ status' = "ending"
  <2>1. UNCHANGED vars \/ ReleaseOperand \/ RunCascade \/ ReleaseGlobal
    BY <1>2, ShrinkingSteps
  <2>2. UNCHANGED <<todo, depth, target>>
    BY <2>1 DEF vars, ctl, ReleaseOperand, RunCascade, ReleaseGlobal
  <2> QED
    BY <1>2, <2>2 DEF EndInv
<1>3. CASE Next /\ status # "ending" /\ status' = "ending"
  <2>1. ASSUME status' = status PROVE FALSE
    BY <1>3, <2>1
  <2>2. EndProgram
    <3>1. ~Releasing
      BY <1>3 DEF Releasing, ReleaseOperand, RunCascade, PushResult, ReleaseLocal, LeaveScope,
                  ReleaseGlobal, Exit, ctl
    <3>2. ~Expression
      <4>1. ~PushConst /\ ~ShortCircuit /\ ~StoreElement /\ ~CloseArray /\ ~StoreField /\ ~Constructed
        BY <2>1 DEF PushConst, ShortCircuit, StoreElement, CloseArray, StoreField, Constructed, ctl
      <4>2. ~ArrayGet /\ ~ArraySet /\ ~ArrayPush /\ ~ArrayPop
        BY <2>1 DEF ArrayGet, ArraySet, ArrayPush, ArrayPop, Returns, ctl
      <4>3. /\ \A x : ~LoadVar(x)
            /\ \A k : ~ScalarOp(k) /\ ~FieldGet(k) /\ ~FieldSet(k)
            /\ \A k, b : ~StringOp(k, b) /\ ~OpenArray(k, b)
            /\ \A k, b, n : ~Construct(k, b, n)
        BY <2>1 DEF LoadVar, ScalarOp, FieldGet, FieldSet, StringOp, OpenArray, Construct, Returns, ctl
      <4> QED
        BY <4>1, <4>2, <4>3 DEF Expression
    <3>3. Statement => EndProgram
      <4>1. ~Discard /\ ~EnterScope /\ ~EnterLoopBody /\ ~EndScope /\ ~LeaveOrNext /\ ~EndEach
            /\ ~MatchArm /\ ~LoadField /\ ~ReleaseScrutinee
        BY <2>1 DEF Discard, EnterScope, EnterLoopBody, EndScope, LeaveOrNext, EndEach, MatchArm,
                    LoadField, ReleaseScrutinee, ctl
      <4>2. ~Abort
        BY <1>3 DEF Abort
      <4>3. /\ \A x : ~AssignGlobal(x) /\ ~Reassign(x)
            /\ \A x, c : ~AssignLocal(x, c) /\ ~BeginEach(x, c) /\ ~BindNext(x, c)
            /\ \A c : ~EachIteration(c)
        BY <2>1 DEF AssignGlobal, Reassign, StoreVar, AssignLocal, BeginEach, BindNext, EachIteration, ctl
      <4> QED
        BY <4>1, <4>2, <4>3 DEF Statement
    <3>4. ~Stopped
      BY <1>3 DEF Stopped, vars, ctl
    <3> QED
      BY <1>3, <3>1, <3>2, <3>3, <3>4 DEF Next
  <2> QED
    BY <2>2 DEF EndProgram, AtStatement, Ready, EndInv
<1> QED
  BY <1>1, <1>2, <1>3 DEF EndInv

(* A cascade over blocks that refer to each other in any way, and the      *)
(* releases at the end of a program, make progress with every step: the    *)
(* references and blocks they leave are fewer than those they found.       *)
THEOREM ReleasesEnd == Spec => ReleasesShrink
<1>1. Init => EndInv
  BY DEF Init, EndInv
<1>2. IInv /\ EndInv /\ [Next]_vars => EndInv'
  BY EndStep
<1>3. IInv /\ EndInv /\ [Next]_vars =>
        [drain # <<>> \/ (status = "ending" /\ status' = "ending") => Held' < Held]_vars
  <2> SUFFICES ASSUME IInv, EndInv, Next, drain # <<>> \/ (status = "ending" /\ status' = "ending")
               PROVE  UNCHANGED vars \/ Held' < Held
    OBVIOUS
  <2>1. CASE ReleaseOperand
    <3>1. PICK i \in Due : Drop(Temp(i))
      BY <2>1 DEF ReleaseOperand
    <3>2. Temp(i) \in Slot
      BY SlotFamilies, HeapAssumption DEF Due, IInv, ControlOK, HeapAssumption
    <3> QED
      BY <3>1, <3>2, DropShrinks
  <2>2. CASE RunCascade
    <3>1. CASE FreeBlock
      BY <3>1, FreeShrinks
    <3>2. CASE ReleaseChild
      <4>1. Head(drain) \in Block
        BY <3>2 DEF ReleaseChild, IInv, HeapInv, HeapTypeOK
      <4>2. PICK i \in 1 .. Width : Drop(Field(Head(drain), i))
        BY <3>2 DEF ReleaseChild, Owning
      <4> QED
        BY <4>1, <4>2, SlotFamilies, DropShrinks
    <3> QED
      BY <2>2, <3>1, <3>2 DEF RunCascade, Cascade
  <2>3. CASE ReleaseGlobal
    BY <2>3, SlotFamilies, DropShrinks DEF ReleaseGlobal
  <2> QED
    BY <2>1, <2>2, <2>3, ShrinkingSteps
<1> QED
  BY <1>1, <1>2, <1>3, Invariance, PTL DEF Spec, ReleasesShrink

(***************************************************************************)
(* What is released is garbage, and nothing else changes.                  *)
(***************************************************************************)
\* A step leaves what the block b is, and refers to, as it was.
LeavesAsItWas(b) ==
  /\ kind'[b] = kind[b] /\ len'[b] = len[b] /\ cap'[b] = cap[b]
  /\ \A k \in 1 .. Width : own'[Field(b, k)] = own[Field(b, k)]

\* A release that is due, the end of a scope or of the program leaves every
\* block some slot still refers to as it was.
ReleasesSpareTheRest ==
  [][Releasing => \A b \in Block : NRefs(own', b) # 0 => LeavesAsItWas(b)]_vars

(* Releasing what a root owns changes no block.                            *)
LEMMA DropSpares ==
  ASSUME IInv, NEW s \in Slot, Drop(s), NEW b \in Block,
         \A k \in 1 .. Width : s # Field(b, k)
  PROVE  LeavesAsItWas(b)
<1>1. own \in [Slot -> Value]
  BY DEF IInv, HeapInv, HeapTypeOK
<1>2. own' = Put(own, s, Nil) /\ kind' = kind /\ len' = len /\ cap' = cap
  BY DEF Drop
<1>3. ASSUME NEW k \in 1 .. Width PROVE own'[Field(b, k)] = own[Field(b, k)]
  <2>1. Field(b, k) \in Slot
    BY SlotFamilies
  <2> QED
    BY <1>1, <1>2, <2>1 DEF Put
<1> QED
  BY <1>2, <1>3 DEF LeavesAsItWas

(* A cascade works on a block that nothing refers to.                      *)
LEMMA CascadeSpares ==
  ASSUME IInv, Cascade, NEW b \in Block, NRefs(own', b) # 0
  PROVE  LeavesAsItWas(b)
<1>1. drain \in Seq(Block) /\ drain # <<>> /\ own \in [Slot -> Value]
  BY DEF Cascade, ReleaseChild, FreeBlock, IInv, HeapInv, HeapTypeOK
<1>2. PICK h \in Block : h = Head(drain) /\ h = drain[1] /\ 1 \in 1 .. Len(drain)
  BY <1>1
<1>3. NRefs(own, h) = 0
  <2>1. rc[h] = 0 /\ rc[h] = NRefs(own, h) + orphan[h] /\ orphan[h] \in Nat
    BY <1>2 DEF IInv, HeapInv, HeapTypeOK, DrainIsDead, RefExact
  <2>2. NRefs(own, h) \in Nat
    BY NRefsType
  <2> QED
    BY <2>1, <2>2
<1>4. CASE FreeBlock
  <2>1. own' = own /\ b # h
    BY <1>3, <1>4 DEF FreeBlock
  <2>2. /\ kind' = [kind EXCEPT ![h] = "free"] /\ len' = [len EXCEPT ![h] = 0]
        /\ cap' = [cap EXCEPT ![h] = 0]
    BY <1>2, <1>4 DEF FreeBlock
  <2>3. kind \in [Block -> Kind] /\ len \in [Block -> 0 .. Width] /\ cap \in [Block -> Nat]
    BY DEF IInv, HeapInv, HeapTypeOK
  <2>4. kind'[b] = kind[b] /\ len'[b] = len[b] /\ cap'[b] = cap[b]
    BY <2>1, <2>2, <2>3
  <2> QED
    BY <2>1, <2>4 DEF LeavesAsItWas
<1>5. CASE ReleaseChild
  <2>1. PICK j \in 1 .. Width : Drop(Field(h, j))
    BY <1>2, <1>5 DEF ReleaseChild, Owning
  <2>2. Field(h, j) \in Slot /\ own' = Put(own, Field(h, j), Nil)
    BY <2>1, SlotFamilies DEF Drop
  <2>3. NRefs(own', h) = 0
    <3>1. /\ NRefs(Put(own, Field(h, j), Nil), h)
               = NRefs(own, h) - (IF own[Field(h, j)] = h THEN 1 ELSE 0)
                   + (IF Nil = h THEN 1 ELSE 0)
      BY <1>1, <2>2, PutRefs DEF Value
    <3>2. own[Field(h, j)] # h
      BY <1>3, <2>2, NRefsZero
    <3>3. Nil # h
      BY HeapAssumption DEF HeapAssumption
    <3> QED
      BY <1>3, <2>2, <3>1, <3>2, <3>3
  <2>4. b # h
    BY <2>3
  <2>5. \A k \in 1 .. Width : Field(h, j) # Field(b, k)
    BY <2>4 DEF Field
  <2> QED
    BY <2>1, <2>2, <2>5, DropSpares
<1> QED
  BY <1>4, <1>5 DEF Cascade

(* Whatever blocks a program made and however they refer to each other,    *)
(* the releases the generated code adds to it are invisible to it: no      *)
(* verb_release_value, and nothing it frees on the way, changes a block    *)
(* that a variable, an operand or another block still refers to.           *)
THEOREM ReleasesInvisible == Spec => ReleasesSpareTheRest
<1>1. IInv /\ [Next]_vars =>
        [Releasing => \A b \in Block : NRefs(own', b) # 0 => LeavesAsItWas(b)]_vars
  <2> SUFFICES ASSUME IInv, Releasing, NEW b \in Block, NRefs(own', b) # 0
               PROVE  LeavesAsItWas(b)
    OBVIOUS
  <2>1. CASE RunCascade
    BY <2>1, CascadeSpares DEF RunCascade
  <2>2. CASE ReleaseOperand
    <3>1. PICK k \in Due : Drop(Temp(k))
      BY <2>2 DEF ReleaseOperand
    <3>2. Temp(k) \in Slot
      BY SlotFamilies, HeapAssumption DEF Due, IInv, ControlOK, HeapAssumption
    <3>3. \A j \in 1 .. Width : Temp(k) # Field(b, j)
      BY FieldNotRoot
    <3> QED
      BY <3>1, <3>2, <3>3, DropSpares
  <2>3. CASE ReleaseGlobal
    <3>1. PICK x \in Name : Drop(Glob(x))
      BY <2>3 DEF ReleaseGlobal
    <3>2. Glob(x) \in Slot /\ \A j \in 1 .. Width : Glob(x) # Field(b, j)
      BY SlotFamilies, FieldNotRoot
    <3> QED
      BY <3>1, <3>2, DropSpares
  <2>4. CASE ReleaseLocal
    <3>1. PICK x \in LocalName : Drop(Local(depth, x))
      BY <2>4 DEF ReleaseLocal
    <3>2. depth \in 1 .. MaxDepth
      BY <2>4, HeapAssumption DEF ReleaseLocal, IInv, ControlOK, HeapAssumption
    <3>3. Local(depth, x) \in Slot /\ \A j \in 1 .. Width : Local(depth, x) # Field(b, j)
      BY <3>2, SlotFamilies, FieldNotRoot
    <3> QED
      BY <3>1, <3>3, DropSpares
  <2>5. CASE PushResult
    <3>1. /\ own' = Exchange(own, Reg, Temp(sp + 1))
          /\ kind' = kind /\ len' = len /\ cap' = cap /\ own \in [Slot -> Value]
      BY <2>5 DEF PushResult, IInv, HeapInv, HeapTypeOK
    <3>2. ASSUME NEW k \in 1 .. Width PROVE own'[Field(b, k)] = own[Field(b, k)]
      <4>1. Field(b, k) \in Slot /\ Field(b, k) # Reg /\ Field(b, k) # Temp(sp + 1)
        BY SlotFamilies, FieldNotRoot
      <4> QED
        BY <3>1, <4>1 DEF Exchange
    <3> QED
      BY <3>1, <3>2 DEF LeavesAsItWas
  <2>6. CASE LeaveScope \/ Exit
    BY <2>6 DEF LeaveScope, Exit, heap, LeavesAsItWas
  <2> QED
    BY <2>1, <2>2, <2>3, <2>4, <2>5, <2>6 DEF Releasing
<1> QED
  BY <1>1, Invariance, PTL DEF Spec, ReleasesSpareTheRest

(***************************************************************************)
(* Scopes hold what is bound in them until they are left and no longer,    *)
(* and the collection of an each loop outlives the loop, whatever the body *)
(* does to the variable it came from and however the loop is left.         *)
(*                                                                         *)
(* The argument: a cell has one owner, its scope, and nothing else ever    *)
(* holds a cell but the operand a rebinding left to be released.  So the   *)
(* value of a hidden cell is out of reach of every assignment, and what    *)
(* releases the scopes of an inner loop stops short of the outer ones.     *)
(*                                                                         *)
(* The last part is about the program of VerbMap: its maps keep the counts *)
(* of the heap exact, as the invariant of the programs without maps is     *)
(* kept by every function of std map.                                      *)
(***************************************************************************)

LocalSlot == {Local(d, x) : d \in 1 .. MaxDepth, x \in LocalName}

IsCell(v) == v \in Block /\ kind[v] = "cell"

\* A cell belongs to a scope; one that was rebound waits for its release.
CellsInScopes ==
  \A s \in Slot : IsCell(own[s]) =>
    \/ s \in LocalSlot
    \/ \E i \in 1 .. MaxTemp : i > sp /\ s = Temp(i)

CellsUnshared ==
  \A s, t \in Slot : IsCell(own[s]) /\ own[s] = own[t] => s = t

\* The each loops that are open are nested in the scopes that stay.
EachNested ==
  /\ \A k \in 1 .. Len(fe) : fe[k].d <= target
  /\ \A j, k \in 1 .. Len(fe) : j < k => fe[j].d < fe[k].d

\* Whatever is under way, no scope is being left.
BusyHere == todo # Idle => depth = target

ScopeInv ==
  /\ NoStrandedLocals
  /\ EachCollectionParked
  /\ CellsInScopes
  /\ CellsUnshared
  /\ EachNested

(***************************************************************************)
(* What an expression may touch: every slot but the scopes and the values  *)
(* of the hidden cells.                                                    *)
(***************************************************************************)

\* The cell in which an each loop parks its collection.
Hidden(c) == IsCell(c) /\ \E d \in 1 .. MaxDepth : own[Local(d, CollName)] = c

Quiet(s) ==
  /\ s \in Slot \ LocalSlot
  /\ \A c \in Block : Hidden(c) => s # Field(c, 1)

\* Slots that hold what an expression may leave behind.
Harmless(f) ==
  /\ f \in [Slot -> Value]
  /\ \A s \in Slot : IF Quiet(s) THEN ~IsCell(f[s]) ELSE f[s] = own[s]

(* Temporaries, the register, globals and the fields of what is no cell    *)
(* are such slots.                                                         *)
LEMMA QuietSlots ==
  /\ \A i \in 1 .. MaxTemp : Quiet(Temp(i))
  /\ Quiet(Reg)
  /\ \A x \in Name : Quiet(Glob(x))
  /\ \A b \in Block, i \in 1 .. Width : ~IsCell(b) => Quiet(Field(b, i))
<1>1. /\ \A i : Temp(i) \notin LocalSlot
      /\ Reg \notin LocalSlot
      /\ \A x : Glob(x) \notin LocalSlot
      /\ \A b \in Block, i \in 1 .. Width : Field(b, i) \notin LocalSlot
  BY FieldNotRoot DEF LocalSlot, Temp, Reg, Glob, Local
<1>2. \A b, c \in Block, i \in 1 .. Width : ~IsCell(b) /\ Hidden(c) => Field(b, i) # Field(c, 1)
  BY DEF Field, Hidden
<1> QED
  BY <1>1, <1>2, SlotFamilies, FieldNotRoot DEF Quiet

\* A name of a scope is a slot of its own, which no expression touches.
LEMMA LocalSlots ==
  /\ \A d \in 1 .. MaxDepth, x \in LocalName : Local(d, x) \in LocalSlot /\ Local(d, x) \in Slot
  /\ \A d \in 1 .. MaxDepth, x \in LocalName : ~Quiet(Local(d, x))
  /\ \A d, e, x, y : Local(d, x) = Local(e, y) => d = e /\ x = y
<1>1. \A d \in 1 .. MaxDepth, x \in LocalName : Local(d, x) \in LocalSlot /\ Local(d, x) \in Slot
  BY SlotFamilies DEF LocalSlot
<1>2. \A d, e, x, y : Local(d, x) = Local(e, y) => d = e /\ x = y
  BY DEF Local
<1> QED
  BY <1>1, <1>2 DEF Quiet

(* When no release is due, the slots are in such a state.                  *)
LEMMA SettledHarmless ==
  ASSUME IInv, ScopeInv, Settled
  PROVE  /\ Harmless(own)
         /\ \A s \in Slot \ LocalSlot : ~IsCell(own[s])
<1>1. \A i \in 1 .. MaxTemp : i > sp => ~IsCell(own[Temp(i)])
  <2> SUFFICES ASSUME NEW i \in 1 .. MaxTemp, i > sp
               PROVE  ~IsCell(own[Temp(i)])
    OBVIOUS
  <2>1. i \in sp + 1 .. MaxTemp
    BY HeapAssumption DEF IInv, ControlOK, HeapAssumption
  <2> QED
    BY <2>1, AboveIsNil, HeapAssumption DEF IsCell, HeapAssumption
<1>2. \A s \in Slot \ LocalSlot : ~IsCell(own[s])
  BY <1>1 DEF ScopeInv, CellsInScopes
<1> QED
  BY <1>2 DEF Harmless, Quiet, IInv, HeapInv, HeapTypeOK

\* Moving a value between two places of expressions disturbs no name of a
\* scope.
LEMMA HarmlessExchange ==
  ASSUME NEW f, Harmless(f), NEW s, NEW t, Quiet(s), Quiet(t)
  PROVE  Harmless(Exchange(f, s, t))
<1> DEFINE g == Exchange(f, s, t)
<1>1. s \in Slot /\ t \in Slot
  BY DEF Quiet
<1>2. f \in [Slot -> Value] /\ ~IsCell(f[s]) /\ ~IsCell(f[t])
  BY <1>1 DEF Harmless
<1>3. /\ g \in [Slot -> Value]
      /\ \A u \in Slot : g[u] = IF u = t THEN f[s] ELSE IF u = s THEN f[t] ELSE f[u]
  BY <1>1, <1>2 DEF Exchange
<1> HIDE DEF g
<1>4. Harmless(g)
  BY <1>1, <1>2, <1>3 DEF Harmless
<1> QED
  BY <1>4 DEF g

\* Nor does storing anything but a cell in such a place.
LEMMA HarmlessPut ==
  ASSUME NEW f, Harmless(f), NEW s, Quiet(s), NEW v \in Value, ~IsCell(v)
  PROVE  Harmless(Put(f, s, v))
<1> DEFINE g == Put(f, s, v)
<1>1. s \in Slot /\ f \in [Slot -> Value]
  BY DEF Quiet, Harmless
<1>2. /\ g \in [Slot -> Value]
      /\ \A u \in Slot : g[u] = IF u = s THEN v ELSE f[u]
  BY <1>1 DEF Put
<1> HIDE DEF g
<1>3. Harmless(g)
  BY <1>1, <1>2 DEF Harmless
<1> QED
  BY <1>3 DEF g

\* Blocks in use stay what they are, and none becomes a cell.
KindsKept ==
  /\ \A b \in Block : kind[b] # "free" => kind'[b] = kind[b]
  /\ \A b \in Block : kind'[b] = "cell" => kind[b] = "cell"

\* The each loops that stay open are those of before, the outer ones.
EachKept ==
  \A k \in 1 .. Len(fe') :
    k \in 1 .. Len(fe) /\ fe'[k].coll = fe[k].coll /\ fe'[k].d = fe[k].d

(* An open each loop has its scope among the scopes there are.             *)
LEMMA EachDepth ==
  ASSUME IInv, NEW k \in 1 .. Len(fe)
  PROVE  /\ fe[k].d \in 1 .. MaxDepth
         /\ fe[k].coll \in Value
         /\ Local(fe[k].d, CollName) \in Slot
         /\ Local(fe[k].d, CollName) \in LocalSlot
<1>1. fe[k] \in EachLoop
  BY ElementOfSeq DEF IInv, ControlOK
<1> QED
  BY <1>1, LocalSlots DEF EachLoop, LocalName

(* A step that only touches such slots keeps the scopes.                   *)
LEMMA HarmlessStep ==
  ASSUME IInv, ScopeInv, Harmless(own'), KindsKept, EachKept, EachNested',
         depth \in Int, depth' \in Int, depth' >= depth
  PROVE  ScopeInv'
<1>1. \A d \in 1 .. MaxDepth, x \in LocalName : own'[Local(d, x)] = own[Local(d, x)]
  BY LocalSlots DEF Harmless
<1>2. NoStrandedLocals'
  BY <1>1 DEF ScopeInv, NoStrandedLocals
<1>3. own' \in [Slot -> Value]
  BY DEF Harmless
<1>4. \A s \in Slot : IsCell(own[s])' => IsCell(own'[s])
  BY DEF IsCell, KindsKept
<1>5. \A s \in Slot : IsCell(own'[s]) => own'[s] = own[s] /\ s \in LocalSlot
  <2> SUFFICES ASSUME NEW s \in Slot, IsCell(own'[s])
               PROVE  own'[s] = own[s] /\ s \in LocalSlot
    OBVIOUS
  <2>1. ~Quiet(s) /\ own'[s] = own[s]
    BY DEF Harmless
  <2>2. \A i \in 1 .. MaxTemp : s # Temp(i)
    BY <2>1, QuietSlots
  <2> QED
    BY <2>1, <2>2 DEF ScopeInv, CellsInScopes
<1>6. CellsInScopes'
  BY <1>4, <1>5 DEF CellsInScopes
<1>7. CellsUnshared'
  BY <1>4, <1>5 DEF ScopeInv, CellsUnshared
<1>8. EachCollectionParked'
  <2> SUFFICES ASSUME NEW k \in 1 .. Len(fe'), fe'[k].coll \in Block
               PROVE  /\ IsKind(own[Local(fe[k].d, CollName)], "cell")'
                      /\ own'[Field(own'[Local(fe'[k].d, CollName)], 1)] = fe'[k].coll
                      /\ kind'[fe'[k].coll] \in {"arr", "map", "str"}
    BY DEF EachCollectionParked
  <2>1. k \in 1 .. Len(fe) /\ fe'[k].coll = fe[k].coll /\ fe'[k].d = fe[k].d
    BY DEF EachKept
  <2>2. PICK c : c = own[Local(fe[k].d, CollName)]
    OBVIOUS
  <2>3. /\ IsCell(c)
        /\ own[Field(c, 1)] = fe[k].coll
        /\ kind[fe[k].coll] \in {"arr", "map", "str"}
    BY <2>1, <2>2 DEF ScopeInv, EachCollectionParked, IsKind, IsCell
  <2>4. fe[k].d \in 1 .. MaxDepth
    BY <2>1, EachDepth
  <2>5. own'[Local(fe'[k].d, CollName)] = c
    BY <1>1, <2>1, <2>2, <2>4 DEF LocalName
  <2>6. Hidden(c) /\ c \in Block
    BY <2>2, <2>3, <2>4 DEF Hidden, IsCell
  <2>7. Field(c, 1) \in Slot /\ ~Quiet(Field(c, 1))
    BY <2>6, SlotFamilies, HeapAssumption DEF Quiet, HeapAssumption
  <2>8. own'[Field(c, 1)] = own[Field(c, 1)]
    BY <2>7 DEF Harmless
  <2>9. kind'[c] = "cell" /\ kind'[fe[k].coll] = kind[fe[k].coll]
    BY <2>1, <2>3 DEF KindsKept, IsCell
  <2> QED
    BY <2>1, <2>3, <2>5, <2>6, <2>8, <2>9 DEF IsKind
<1> QED
  BY <1>2, <1>6, <1>7, <1>8 DEF ScopeInv

(***************************************************************************)
(* Releases.                                                               *)
(***************************************************************************)

(* What keeps a collection alive: neither slot may be released.            *)
LEMMA ReleaseKeeps ==
  ASSUME IInv, ScopeInv, NEW s \in Slot, own' = Put(own, s, Nil),
         UNCHANGED <<kind, sp, fe, target, depth>>,
         \A k \in 1 .. Len(fe) : fe[k].coll \in Block =>
           s # Local(fe[k].d, CollName) /\ s # Field(own[Local(fe[k].d, CollName)], 1)
  PROVE  ScopeInv'
<1>1. /\ own \in [Slot -> Value]
      /\ \A u \in Slot : own'[u] = IF u = s THEN Nil ELSE own[u]
  BY DEF IInv, HeapInv, HeapTypeOK, Put
<1>2. \A u \in Slot : IsCell(own[u])' => IsCell(own[u]) /\ own'[u] = own[u]
  BY <1>1, HeapAssumption DEF IsCell, HeapAssumption
<1>3. NoStrandedLocals'
  BY <1>1, LocalSlots DEF ScopeInv, NoStrandedLocals
<1>4. CellsInScopes'
  BY <1>2 DEF ScopeInv, CellsInScopes
<1>5. CellsUnshared'
  BY <1>2 DEF ScopeInv, CellsUnshared
<1>6. EachCollectionParked'
  <2> SUFFICES ASSUME NEW k \in 1 .. Len(fe), fe[k].coll \in Block
               PROVE  /\ IsKind(own[Local(fe[k].d, CollName)], "cell")'
                      /\ own'[Field(own'[Local(fe[k].d, CollName)], 1)] = fe[k].coll
                      /\ kind'[fe[k].coll] \in {"arr", "map", "str"}
    BY DEF EachCollectionParked
  <2>1. PICK c : c = own[Local(fe[k].d, CollName)]
    OBVIOUS
  <2>2. own'[Local(fe[k].d, CollName)] = c
    BY <1>1, <2>1, EachDepth
  <2>3. /\ c \in Block /\ kind[c] = "cell"
        /\ own[Field(c, 1)] = fe[k].coll
        /\ kind[fe[k].coll] \in {"arr", "map", "str"}
    BY <2>1 DEF ScopeInv, EachCollectionParked, IsKind
  <2>4. Field(c, 1) \in Slot
    BY <2>3, SlotFamilies, HeapAssumption DEF HeapAssumption
  <2>5. own'[Field(c, 1)] = fe[k].coll
    BY <1>1, <2>1, <2>3, <2>4
  <2> QED
    BY <2>2, <2>3, <2>5 DEF IsKind
<1>7. EachNested'
  BY DEF ScopeInv, EachNested
<1> QED
  BY <1>3, <1>4, <1>5, <1>6, <1>7 DEF ScopeInv

(* The block a cascade frees is none of those that are needed.             *)
LEMMA FreeKeeps ==
  ASSUME IInv, ScopeInv, FreeBlock, UNCHANGED <<sp, fe, target, depth>>
  PROVE  ScopeInv'
<1>1. PICK b \in Block : b = Head(drain) /\ b = drain[1] /\ 1 \in 1 .. Len(drain)
  <2>1. drain \in Seq(Block) /\ drain # <<>>
    BY DEF FreeBlock, IInv, HeapInv, HeapTypeOK
  <2> QED
    BY <2>1
<1>2. kind' = [kind EXCEPT ![b] = "free"] /\ own' = own /\ kind \in [Block -> Kind]
  BY <1>1 DEF FreeBlock, IInv, HeapInv, HeapTypeOK
<1>3. \A s \in Slot : own[s] \in Block => kind'[own[s]] = kind[own[s]]
  <2> SUFFICES ASSUME NEW s \in Slot, own[s] \in Block
               PROVE  kind'[own[s]] = kind[own[s]]
    OBVIOUS
  <2>1. own[s] # b
    BY <1>1, OwnedIsLive DEF IInv
  <2> QED
    BY <1>2, <2>1
<1>4. NoStrandedLocals' /\ EachNested'
  BY <1>2 DEF ScopeInv, NoStrandedLocals, EachNested
<1>5. \A s \in Slot : IsCell(own[s])' <=> IsCell(own[s])
  BY <1>2, <1>3 DEF IsCell
<1>6. CellsInScopes' /\ CellsUnshared'
  BY <1>2, <1>5 DEF ScopeInv, CellsInScopes, CellsUnshared
<1>7. EachCollectionParked'
  <2> SUFFICES ASSUME NEW k \in 1 .. Len(fe), fe[k].coll \in Block
               PROVE  /\ IsKind(own[Local(fe[k].d, CollName)], "cell")'
                      /\ own'[Field(own'[Local(fe[k].d, CollName)], 1)] = fe[k].coll
                      /\ kind'[fe[k].coll] \in {"arr", "map", "str"}
    BY DEF EachCollectionParked
  <2>1. PICK c : c = own[Local(fe[k].d, CollName)]
    OBVIOUS
  <2>2. /\ c \in Block /\ kind[c] = "cell"
        /\ own[Field(c, 1)] = fe[k].coll
        /\ kind[fe[k].coll] \in {"arr", "map", "str"}
    BY <2>1 DEF ScopeInv, EachCollectionParked, IsKind
  <2>3. Field(c, 1) \in Slot /\ Local(fe[k].d, CollName) \in Slot
    BY <2>2, SlotFamilies, EachDepth, HeapAssumption DEF HeapAssumption
  <2>4. kind'[c] = "cell" /\ kind'[fe[k].coll] = kind[fe[k].coll]
    BY <1>3, <2>1, <2>2, <2>3
  <2> QED
    BY <1>2, <2>1, <2>2, <2>4 DEF IsKind
<1> QED
  BY <1>4, <1>6, <1>7 DEF ScopeInv

(***************************************************************************)
(* Bindings.                                                               *)
(***************************************************************************)

(* What NewCell does to the slots.                                         *)
LEMMA NewCellSlots ==
  ASSUME IInv, sp \in 1 .. MaxTemp, NEW d \in 1 .. MaxDepth, NEW x \in LocalName,
         NEW c \in Block, NewCell(d, x, c)
  PROVE  /\ own'[Local(d, x)] = c
         /\ own'[Field(c, 1)] = own[Temp(sp)]
         /\ own'[Temp(sp)] = own[Local(d, x)]
         /\ \A s \in Slot \ {Local(d, x), Field(c, 1), Temp(sp)} : own'[s] = own[s]
         /\ kind[c] = "free" /\ kind' = [kind EXCEPT ![c] = "cell"]
         /\ \A s \in Slot : own[s] # c
<1>1. 1 \in 1 .. Width
  BY HeapAssumption DEF HeapAssumption
<1>2. /\ Temp(sp) \in Slot /\ Field(c, 1) \in Slot /\ Local(d, x) \in Slot
      /\ Field(c, 1) # Temp(sp) /\ Field(c, 1) # Local(d, x) /\ Temp(sp) # Local(d, x)
  BY <1>1, SlotFamilies, FieldNotRoot DEF Temp, Local
<1>3. own \in [Slot -> Value]
  BY DEF IInv, HeapInv, HeapTypeOK
<1>4. kind[c] = "free" /\ kind' = [kind EXCEPT ![c] = "cell"]
  BY DEF NewCell, Alloc, Free
<1>5. own[Field(c, 1)] = Nil /\ \A s \in Slot : own[s] # c
  BY <1>1, <1>4, FreeIsUnreferenced DEF IInv, HeapInv, FreeOwnsNothing
<1>6. PICK e, f : e = Exchange(own, Temp(sp), Field(c, 1)) /\ f = Exchange(e, Temp(sp), Local(d, x))
  OBVIOUS
<1>7. /\ e \in [Slot -> Value]
      /\ e[Temp(sp)] = Nil /\ e[Field(c, 1)] = own[Temp(sp)]
      /\ \A s \in Slot \ {Field(c, 1), Temp(sp)} : e[s] = own[s]
  BY <1>2, <1>3, <1>5, <1>6 DEF Exchange
<1>8. /\ f \in [Slot -> Value]
      /\ f[Temp(sp)] = own[Local(d, x)] /\ f[Field(c, 1)] = own[Temp(sp)]
      /\ \A s \in Slot \ {Local(d, x), Field(c, 1), Temp(sp)} : f[s] = own[s]
  BY <1>2, <1>6, <1>7 DEF Exchange
<1>9. own' = Put(f, Local(d, x), c)
  BY <1>6 DEF NewCell
<1> QED
  BY <1>2, <1>4, <1>5, <1>8, <1>9 DEF Put

(* A new cell in an open scope, under a name no each loop uses there.      *)
LEMMA NewCellKeeps ==
  ASSUME IInv, ScopeInv, Settled, sp \in 1 .. MaxTemp,
         NEW d \in 1 .. MaxDepth, NEW x \in LocalName, NEW c \in Block, NewCell(d, x, c),
         sp' = sp - 1, d <= depth', depth \in Int, depth' \in Int, depth <= depth'
  PROVE  /\ NoStrandedLocals' /\ CellsInScopes' /\ CellsUnshared'
         /\ own'[Local(d, x)] = c /\ kind'[c] = "cell"
         /\ own'[Field(c, 1)] = own[Temp(sp)]
         /\ \A b \in Block : kind[b] # "free" => kind'[b] = kind[b]
         /\ \A k \in 1 .. Len(fe) : fe[k].coll \in Block /\ Local(fe[k].d, CollName) # Local(d, x) =>
              /\ IsKind(own'[Local(fe[k].d, CollName)], "cell")
              /\ kind'[own'[Local(fe[k].d, CollName)]] = "cell"
              /\ own'[Field(own'[Local(fe[k].d, CollName)], 1)] = fe[k].coll
              /\ kind'[fe[k].coll] = kind[fe[k].coll]
              /\ kind[fe[k].coll] \in {"arr", "map", "str"}
<1>1. /\ own'[Local(d, x)] = c
      /\ own'[Field(c, 1)] = own[Temp(sp)]
      /\ own'[Temp(sp)] = own[Local(d, x)]
      /\ \A s \in Slot \ {Local(d, x), Field(c, 1), Temp(sp)} : own'[s] = own[s]
      /\ kind[c] = "free" /\ kind' = [kind EXCEPT ![c] = "cell"]
      /\ \A s \in Slot : own[s] # c
  BY NewCellSlots
<1>2. kind \in [Block -> Kind] /\ own \in [Slot -> Value]
  BY DEF IInv, HeapInv, HeapTypeOK
<1>3. /\ Temp(sp) \in Slot /\ Field(c, 1) \in Slot /\ Local(d, x) \in Slot
      /\ Local(d, x) \in LocalSlot
      /\ Temp(sp) \notin LocalSlot /\ Field(c, 1) \notin LocalSlot
  BY SlotFamilies, LocalSlots, FieldNotRoot, HeapAssumption DEF HeapAssumption, Temp, Local, LocalSlot
<1>4. \A s \in Slot \ LocalSlot : ~IsCell(own[s])
  BY SettledHarmless
<1>5. \A b \in Block \ {c} : kind'[b] = kind[b]
  BY <1>1, <1>2
<1>6. NoStrandedLocals'
  <2> SUFFICES ASSUME NEW e \in 1 .. MaxDepth, NEW y \in LocalName, e > depth'
               PROVE  own'[Local(e, y)] = Nil
    BY DEF NoStrandedLocals
  <2>1. Local(e, y) # Local(d, x) /\ Local(e, y) \in Slot /\ Local(e, y) \in LocalSlot
    BY LocalSlots
  <2>2. own[Local(e, y)] = Nil
    BY DEF ScopeInv, NoStrandedLocals
  <2> QED
    BY <1>1, <1>3, <2>1, <2>2
<1>7. \A s \in Slot : IsCell(own[s])' =>
        \/ s = Local(d, x)
        \/ s = Temp(sp) /\ IsCell(own[Local(d, x)])
        \/ s \in LocalSlot \ {Local(d, x)} /\ own'[s] = own[s] /\ IsCell(own[s])
  <2> SUFFICES ASSUME NEW s \in Slot, own'[s] \in Block, kind'[own'[s]] = "cell", s # Local(d, x)
               PROVE  \/ s = Temp(sp) /\ IsCell(own[Local(d, x)])
                      \/ s \in LocalSlot \ {Local(d, x)} /\ own'[s] = own[s] /\ IsCell(own[s])
    BY DEF IsCell
  <2>1. PICK u \in Slot : /\ own'[s] = own[u]
                          /\ \/ s = Temp(sp) /\ u = Local(d, x)
                             \/ s = Field(c, 1) /\ u = Temp(sp)
                             \/ s \notin {Temp(sp), Field(c, 1)} /\ u = s
    BY <1>1, <1>3
  <2>2. IsCell(own[u])
    BY <1>1, <1>5, <2>1 DEF IsCell
  <2>3. u \in LocalSlot
    BY <1>4, <2>2
  <2> QED
    BY <1>3, <2>1, <2>2, <2>3
<1>8. CellsInScopes'
  <2>1. sp > sp'
    BY HeapAssumption DEF HeapAssumption
  <2> QED
    BY <1>3, <1>7, <2>1 DEF CellsInScopes
<1>9. CellsUnshared'
  <2> SUFFICES ASSUME NEW s \in Slot, NEW u \in Slot, IsCell(own[s])', own'[s] = own'[u]
               PROVE  s = u
    BY DEF CellsUnshared
  <2>1. IsCell(own[u])'
    BY DEF IsCell
  <2>2. \A w \in Slot \ {Local(d, x)} : own'[w] # c
    BY <1>1, <1>3
  <2> QED
    BY <1>1, <1>3, <1>7, <2>1, <2>2 DEF ScopeInv, CellsUnshared
<1>10. \A b \in Block : kind[b] # "free" => kind'[b] = kind[b]
  BY <1>1, <1>5
<1>11. ASSUME NEW k \in 1 .. Len(fe), fe[k].coll \in Block, Local(fe[k].d, CollName) # Local(d, x)
       PROVE  /\ IsKind(own'[Local(fe[k].d, CollName)], "cell")
              /\ kind'[own'[Local(fe[k].d, CollName)]] = "cell"
              /\ own'[Field(own'[Local(fe[k].d, CollName)], 1)] = fe[k].coll
              /\ kind'[fe[k].coll] = kind[fe[k].coll]
              /\ kind[fe[k].coll] \in {"arr", "map", "str"}
  <2>1. PICK o : o = own[Local(fe[k].d, CollName)]
    OBVIOUS
  <2>2. /\ o \in Block /\ kind[o] = "cell"
        /\ own[Field(o, 1)] = fe[k].coll
        /\ kind[fe[k].coll] \in {"arr", "map", "str"}
    BY <1>11, <2>1 DEF ScopeInv, EachCollectionParked, IsKind
  <2>3. own'[Local(fe[k].d, CollName)] = o
    BY <1>1, <1>3, <1>11, <2>1, EachDepth
  <2>4. o # c
    BY <1>1, <2>2
  <2>5. Field(o, 1) # Field(c, 1)
    BY <2>4 DEF Field
  <2>6. Field(o, 1) # Temp(sp) /\ Field(o, 1) # Local(d, x)
    BY <2>2, FieldNotRoot
  <2>7. Field(o, 1) \in Slot
    BY <2>2, SlotFamilies, HeapAssumption DEF HeapAssumption
  <2>8. own'[Field(o, 1)] = fe[k].coll
    BY <1>1, <2>2, <2>5, <2>6, <2>7
  <2>9. kind'[o] = "cell"
    BY <1>10, <2>2
  <2>10. kind[fe[k].coll] # "free"
    BY <2>2
  <2>11. kind'[fe[k].coll] = kind[fe[k].coll]
    BY <1>10, <1>11, <2>10
  <2>12. IsKind(own'[Local(fe[k].d, CollName)], "cell")
    BY <2>2, <2>3 DEF IsKind
  <2>13. kind'[own'[Local(fe[k].d, CollName)]] = "cell"
    BY <2>3, <2>9
  <2>14. own'[Field(own'[Local(fe[k].d, CollName)], 1)] = fe[k].coll
    BY <2>3, <2>8
  <2> QED
    BY <2>2, <2>11, <2>12, <2>13, <2>14
<1>12. kind'[c] = "cell"
  BY <1>1, <1>2
<1> QED
  BY <1>1, <1>6, <1>8, <1>9, <1>10, <1>11, <1>12

(***************************************************************************)
(* Each action keeps the scopes: releases.                                 *)
(***************************************************************************)

(* The slot an open each loop reads its collection from.                   *)
LEMMA ParkedCell ==
  ASSUME IInv, ScopeInv, NEW k \in 1 .. Len(fe), fe[k].coll \in Block
  PROVE  LET o == own[Local(fe[k].d, CollName)] IN
         o \in Block /\ \A i \in 1 .. Len(drain) : drain[i] # o
<1>1. own[Local(fe[k].d, CollName)] \in Block
  BY DEF ScopeInv, EachCollectionParked, IsKind
<1> QED
  BY <1>1, EachDepth, OwnedIsLive DEF IInv

\* What leaves the values, the kinds, the depths and the statements alone
\* keeps the scopes.
LEMMA ScopeStutter ==
  ASSUME ScopeInv, UNCHANGED <<kind, own, sp, fe, target, depth>>
  PROVE  ScopeInv'
BY DEF ScopeInv, NoStrandedLocals, EachCollectionParked, CellsInScopes, CellsUnshared,
       EachNested, IsCell, IsKind

\* The releases at the end of a scope and the cascades they start keep the
\* scopes: a step drops one name, and no other changes.
LEMMA ReleasingScopes ==
  ASSUME IInv, ScopeInv, Releasing
  PROVE  ScopeInv'
<1>0. depth \in 0 .. MaxDepth /\ target \in 0 .. MaxDepth /\ MaxDepth \in Nat
  BY HeapAssumption DEF IInv, ControlOK, HeapAssumption
<1>1. ASSUME NEW s \in Slot, Drop(s), UNCHANGED <<sp, todo, ctl>>,
             \A k \in 1 .. Len(fe) : s # Local(fe[k].d, CollName),
             \A b \in Block : s = Field(b, 1) => \E i \in 1 .. Len(drain) : drain[i] = b
      PROVE  ScopeInv'
  <2>1. own' = Put(own, s, Nil) /\ UNCHANGED <<kind, sp, fe, target, depth>>
    BY <1>1 DEF Drop, ctl
  <2>2. \A k \in 1 .. Len(fe) : fe[k].coll \in Block =>
          s # Local(fe[k].d, CollName) /\ s # Field(own[Local(fe[k].d, CollName)], 1)
    BY <1>1, ParkedCell
  <2> QED
    BY <2>1, <2>2, ReleaseKeeps
<1>2. CASE ReleaseOperand
  <2>1. PICK i \in Due : Drop(Temp(i))
    BY <1>2 DEF ReleaseOperand
  <2>2. i \in 1 .. MaxTemp
    BY HeapAssumption DEF Due, IInv, ControlOK, HeapAssumption
  <2>3. Temp(i) \in Slot /\ \A d, x : Temp(i) # Local(d, x)
    BY <2>2, SlotFamilies DEF Temp, Local
  <2> QED
    BY <1>1, <1>2, <2>1, <2>3, FieldNotRoot DEF ReleaseOperand
<1>3. CASE RunCascade
  <2>1. UNCHANGED <<sp, todo, ctl>>
    BY <1>3 DEF RunCascade
  <2>2. CASE FreeBlock
    BY <2>1, <2>2, FreeKeeps DEF ctl
  <2>3. CASE ReleaseChild
    <3>1. drain \in Seq(Block) /\ drain # <<>>
      BY <2>3 DEF ReleaseChild, IInv, HeapInv, HeapTypeOK
    <3>2. PICK h \in Block : h = Head(drain) /\ h = drain[1] /\ 1 \in 1 .. Len(drain)
      BY <3>1
    <3>3. PICK i \in 1 .. Width : Drop(Field(h, i))
      BY <2>3, <3>2 DEF ReleaseChild, Owning
    <3>4. Field(h, i) \in Slot
      BY <3>2, SlotFamilies
    <3>5. \A d, x : Field(h, i) # Local(d, x)
      BY FieldNotRoot
    <3>6. \A b \in Block : Field(h, i) = Field(b, 1) => drain[1] = b
      BY <3>2 DEF Field
    <3> QED
      BY <1>1, <2>1, <3>2, <3>3, <3>4, <3>5, <3>6
  <2> QED
    BY <1>3, <2>2, <2>3 DEF RunCascade, Cascade
<1>4. CASE PushResult
  <2>1. sp + 1 \in 1 .. MaxTemp
    BY <1>4, HeapAssumption DEF PushResult, IInv, ControlOK, HeapAssumption
  <2>2. Harmless(Exchange(own, Reg, Temp(sp + 1)))
    BY <1>4, <2>1, SettledHarmless, QuietSlots, HarmlessExchange DEF PushResult
  <2>3. own' = Exchange(own, Reg, Temp(sp + 1)) /\ UNCHANGED <<kind, fe, target, depth>>
    BY <1>4 DEF PushResult, ctl
  <2>4. PICK f : f = own' /\ Harmless(f)
    BY <2>2, <2>3
  <2>5. Harmless(own')
    BY <2>4 DEF Harmless
  <2>6. KindsKept /\ EachKept /\ EachNested'
    BY <2>3 DEF KindsKept, EachKept, EachNested, ScopeInv
  <2> QED
    BY <1>0, <2>3, <2>5, <2>6, HarmlessStep
<1>5. CASE ReleaseLocal
  <2>1. PICK x \in LocalName : Drop(Local(depth, x))
    BY <1>5 DEF ReleaseLocal
  <2>2. depth \in 1 .. MaxDepth /\ depth > target
    BY <1>0, <1>5 DEF ReleaseLocal
  <2>3. Local(depth, x) \in Slot
    BY <2>2, LocalSlots
  <2>4. \A k \in 1 .. Len(fe) : Local(depth, x) # Local(fe[k].d, CollName)
    <3> SUFFICES ASSUME NEW k \in 1 .. Len(fe)
                 PROVE  depth # fe[k].d
      BY LocalSlots
    <3>1. fe[k].d \in 1 .. MaxDepth /\ fe[k].d <= target
      BY EachDepth DEF ScopeInv, EachNested
    <3> QED
      BY <1>0, <2>2, <3>1
  <2> QED
    BY <1>1, <1>5, <2>1, <2>3, <2>4, FieldNotRoot DEF ReleaseLocal
<1>6. CASE LeaveScope
  <2>1. UNCHANGED <<kind, own, sp, fe, target>> /\ depth' = depth - 1
    BY <1>6 DEF LeaveScope, heap
  <2>2. NoStrandedLocals'
    <3> SUFFICES ASSUME NEW d \in 1 .. MaxDepth, NEW x \in LocalName, d > depth - 1
                 PROVE  own[Local(d, x)] = Nil
      BY <2>1 DEF NoStrandedLocals
    <3>1. d = depth \/ d > depth
      BY <1>0
    <3> QED
      BY <1>6, <3>1 DEF LeaveScope, ScopeInv, NoStrandedLocals
  <2> QED
    BY <2>1, <2>2 DEF ScopeInv, EachCollectionParked, CellsInScopes, CellsUnshared,
                      EachNested, IsCell, IsKind
<1>7. CASE ReleaseGlobal
  <2>1. PICK x \in Name : Drop(Glob(x))
    BY <1>7 DEF ReleaseGlobal
  <2>2. Glob(x) \in Slot /\ \A d, y : Glob(x) # Local(d, y)
    BY SlotFamilies DEF Glob, Local
  <2> QED
    BY <1>1, <1>7, <2>1, <2>2, FieldNotRoot DEF ReleaseGlobal
<1>8. CASE Exit
  BY <1>8, ScopeStutter DEF Exit, heap
<1> QED
  BY <1>2, <1>3, <1>4, <1>5, <1>6, <1>7, <1>8 DEF Releasing

(***************************************************************************)
(* Expressions.                                                            *)
(***************************************************************************)

(* An expression leaves scopes and each loops alone.                       *)
LEMMA ExpressionKeeps ==
  ASSUME IInv, ScopeInv, NEW f, Harmless(f), own' = f, KindsKept,
         UNCHANGED <<depth, target, fe>>
  PROVE  ScopeInv'
<1>1. Harmless(own')
  BY DEF Harmless
<1>2. EachKept /\ EachNested'
  BY DEF EachKept, EachNested, ScopeInv
<1>3. depth \in Int
  BY HeapAssumption DEF IInv, ControlOK, HeapAssumption
<1> QED
  BY <1>1, <1>2, <1>3, HarmlessStep

(* A block that is allocated as something else is no cell.                 *)
LEMMA AllocKinds ==
  ASSUME HeapTypeOK, NEW b \in Block, NEW k, NEW n, Alloc(b, k, n), k # "cell"
  PROVE  KindsKept /\ b \in Value /\ ~IsCell(b)
<1>1. kind \in [Block -> Kind] /\ kind[b] = "free" /\ kind' = [kind EXCEPT ![b] = k]
  BY DEF HeapTypeOK, Alloc, Free
<1>2. \A c \in Block : kind'[c] = IF c = b THEN k ELSE kind[c]
  BY <1>1
<1>3. KindsKept
  BY <1>1, <1>2 DEF KindsKept
<1> QED
  BY <1>1, <1>3 DEF Value, IsCell

(* A variable resolves to a global or to a cell no each loop hides.        *)
LEMMA ResolvesQuiet ==
  ASSUME IInv, ScopeInv, NEW x \in Name, NEW s, Resolves(x, s)
  PROVE  Quiet(s)
<1>1. CASE s = Glob(x)
  BY <1>1, QuietSlots
<1>2. CASE s # Glob(x)
  <2>1. PICK d \in 1 .. depth : own[Local(d, x)] # Nil /\ s = Field(own[Local(d, x)], 1)
    BY <1>2 DEF Resolves
  <2>2. d \in 1 .. MaxDepth /\ x \in LocalName /\ x # CollName /\ 1 \in 1 .. Width
    BY HeapAssumption DEF IInv, ControlOK, LocalName, HeapAssumption
  <2>3. PICK o : o = own[Local(d, x)]
    OBVIOUS
  <2>4. o \in Block /\ Local(d, x) \in Slot
    BY <2>1, <2>2, <2>3, SlotFamilies DEF IInv, HeapInv, HeapTypeOK, Value
  <2>5. s \in Slot \ LocalSlot
    <3>1. s = Field(o, 1) /\ s \in Slot
      BY <2>1, <2>2, <2>3, <2>4, SlotFamilies
    <3>2. \A e, y : s # Local(e, y)
      BY <2>4, <3>1, FieldNotRoot
    <3> QED
      BY <3>1, <3>2 DEF LocalSlot
  <2>6. ASSUME NEW c \in Block, Hidden(c), s = Field(c, 1)
        PROVE  FALSE
    <3>1. c = o
      BY <2>1, <2>3, <2>6 DEF Field
    <3>2. PICK e \in 1 .. MaxDepth : own[Local(e, CollName)] = o /\ IsCell(o)
      BY <2>6, <3>1 DEF Hidden
    <3>3. Local(e, CollName) \in Slot
      BY SlotFamilies DEF LocalName
    <3>4. Local(e, CollName) = Local(d, x)
      BY <2>3, <2>4, <3>2, <3>3 DEF ScopeInv, CellsUnshared
    <3> QED
      BY <2>2, <3>4, LocalSlots
  <2> QED
    BY <2>5, <2>6 DEF Quiet
<1> QED
  BY <1>1, <1>2

(* A value an expression reads from a slot it may touch is no cell.        *)
LEMMA QuietValue ==
  ASSUME IInv, ScopeInv, Settled, NEW s, Quiet(s)
  PROVE  s \in Slot /\ own[s] \in Value /\ ~IsCell(own[s])
<1>1. s \in Slot \ LocalSlot
  BY DEF Quiet
<1> QED
  BY <1>1, SettledHarmless DEF IInv, HeapInv, HeapTypeOK

(* Operands and the fields of the blocks they are.                         *)
LEMMA OperandFields ==
  ASSUME IInv, ScopeInv, Settled, NEW i \in 1 .. MaxTemp, own[Temp(i)] \in Block, NEW j \in 1 .. Width
  PROVE  /\ Quiet(Field(own[Temp(i)], j))
         /\ own[Field(own[Temp(i)], j)] \in Value
         /\ ~IsCell(own[Field(own[Temp(i)], j)])
<1>1. ~IsCell(own[Temp(i)])
  BY QuietSlots, QuietValue
<1>2. Quiet(Field(own[Temp(i)], j))
  BY <1>1, QuietSlots
<1> QED
  BY <1>2, QuietValue

\* The result of a call, left in the register.
LEMMA ResultScopes ==
  ASSUME IInv, ScopeInv, Settled, NEW v \in Value, ~IsCell(v), own' = Put(own, Reg, v), KindsKept,
         UNCHANGED <<depth, target, fe>>
  PROVE  ScopeInv'
<1>1. Harmless(Put(own, Reg, v))
  BY SettledHarmless, QuietSlots, HarmlessPut
<1> QED
  BY <1>1, ExpressionKeeps

\* A value moved between the stack, the register and the fields of a block.
LEMMA MoveScopes ==
  ASSUME IInv, ScopeInv, Settled, NEW s, NEW u, Quiet(s), Quiet(u), own' = Exchange(own, s, u),
         UNCHANGED <<kind, depth, target, fe>>
  PROVE  ScopeInv'
<1>1. Harmless(Exchange(own, s, u))
  BY SettledHarmless, HarmlessExchange
<1>2. KindsKept
  BY DEF KindsKept
<1> QED
  BY <1>1, <1>2, ExpressionKeeps

\* A constant or a variable pushed on the stack.
LEMMA LoadScopes ==
  ASSUME IInv, ScopeInv, Settled, sp < MaxTemp, NEW v \in Value, ~IsCell(v),
         own' = Put(own, Temp(sp + 1), v), KindsKept,
         UNCHANGED <<depth, target, fe>>
  PROVE  ScopeInv'
<1>1. sp + 1 \in 1 .. MaxTemp
  BY HeapAssumption DEF IInv, ControlOK, HeapAssumption
<1>2. Harmless(Put(own, Temp(sp + 1), v))
  BY <1>1, SettledHarmless, QuietSlots, HarmlessPut
<1> QED
  BY <1>2, ExpressionKeeps

\* No step of an expression touches the names of a scope.
LEMMA ExpressionScopes ==
  ASSUME IInv, ScopeInv, Expression
  PROVE  ScopeInv'
<1>0. /\ sp \in 0 .. MaxTemp /\ MaxTemp \in Nat /\ Width \in Nat /\ HeapTypeOK
      /\ len \in [Block -> 0 .. Width] /\ kind \in [Block -> Kind]
      /\ Nil \in Value /\ ~IsCell(Nil)
  BY HeapAssumption DEF IInv, HeapInv, HeapTypeOK, ControlOK, HeapAssumption, Value, IsCell
<1>1. UNCHANGED kind => KindsKept
  BY DEF KindsKept
<1>2. CASE PushConst
  <2>1. Harmless(own) /\ own' = own /\ UNCHANGED <<kind, depth, target, fe>>
    BY <1>2, SettledHarmless DEF PushConst, Ready, heap, ctl
  <2> QED
    BY <1>1, <2>1, ExpressionKeeps
<1>3. ASSUME NEW x \in Name, LoadVar(x)
      PROVE  ScopeInv'
  <2>1. PICK s \in Slot : Resolves(x, s) /\ own' = Put(own, Temp(sp + 1), own[s])
    BY <1>3 DEF LoadVar
  <2>2. Settled /\ sp < MaxTemp /\ UNCHANGED <<kind, depth, target, fe>>
    BY <1>3 DEF LoadVar, Ready, ctl
  <2>3. own[s] \in Value /\ ~IsCell(own[s])
    BY <2>1, <2>2, ResolvesQuiet, QuietValue
  <2> QED
    BY <1>1, <2>1, <2>2, <2>3, LoadScopes
<1>4. ASSUME NEW k \in 1 .. 2, ScalarOp(k)
      PROVE  ScopeInv'
  <2>1. Harmless(own) /\ own' = own /\ UNCHANGED <<kind, depth, target, fe>>
    BY <1>4, SettledHarmless DEF ScalarOp, Operands, Ready, Returns, heap, ctl
  <2> QED
    BY <1>1, <2>1, ExpressionKeeps
<1>5. ASSUME NEW k \in 1 .. 3, NEW b \in Block, StringOp(k, b)
      PROVE  ScopeInv'
  <2>1. /\ Settled /\ Alloc(b, "str", 0) /\ own' = Put(own, Reg, b)
        /\ UNCHANGED <<depth, target, fe>>
    BY <1>5 DEF StringOp, Operands, Ready, Returns, ctl
  <2> QED
    BY <1>0, <2>1, AllocKinds, ResultScopes
<1>6. CASE ShortCircuit
  <2>1. /\ Settled /\ sp - 1 \in 1 .. MaxTemp /\ sp \in 1 .. MaxTemp
    BY <1>0, <1>6, OperandCount DEF ShortCircuit
  <2>2. own' = Exchange(own, Temp(sp - 1), Temp(sp)) /\ UNCHANGED <<kind, depth, target, fe>>
    BY <1>6 DEF ShortCircuit, ctl
  <2> QED
    BY <2>1, <2>2, QuietSlots, MoveScopes
<1>7. ASSUME NEW n \in 0 .. Width, NEW b \in Block, OpenArray(n, b)
      PROVE  ScopeInv'
  <2>1. /\ Settled /\ sp < MaxTemp /\ Alloc(b, "arr", 0) /\ own' = Put(own, Temp(sp + 1), b)
        /\ UNCHANGED <<depth, target, fe>>
    BY <1>7 DEF OpenArray, Ready
  <2> QED
    BY <1>0, <2>1, AllocKinds, LoadScopes
<1>8. CASE StoreElement
  <2>1. PICK a \in Block : /\ a = own[Temp(Floor)] /\ len[a] < lit[Len(lit)].n
                           /\ own' = Exchange(own, Temp(sp), Field(a, len[a] + 1))
    BY <1>8 DEF StoreElement
  <2>2. Settled /\ UNCHANGED <<kind, depth, target, fe>>
    BY <1>8 DEF StoreElement, Ready, ctl
  <2>3. Floor \in 1 .. MaxTemp /\ lit[Len(lit)].n \in 0 .. Width
    BY <1>8, FloorType DEF StoreElement
  <2>4. sp \in 1 .. MaxTemp
    BY <1>0, <1>8, <2>3 DEF StoreElement
  <2>5. len[a] + 1 \in 1 .. Width
    BY <1>0, <2>1, <2>3
  <2>6. Quiet(Temp(sp)) /\ Quiet(Field(a, len[a] + 1))
    BY <2>1, <2>2, <2>3, <2>4, <2>5, QuietSlots, OperandFields
  <2> QED
    BY <2>1, <2>2, <2>6, MoveScopes
<1>9. CASE CloseArray
  <2>1. Harmless(own) /\ own' = own /\ UNCHANGED <<kind, depth, target, fe>>
    BY <1>9, SettledHarmless DEF CloseArray, Ready, heap
  <2> QED
    BY <1>1, <2>1, ExpressionKeeps
<1>10. CASE ArrayGet
  <2>1. /\ sp - 1 \in 1 .. MaxTemp /\ Settled /\ UNCHANGED <<kind, depth, target, fe>>
    BY <1>0, <1>10, OperandCount DEF ArrayGet, Returns, ctl
  <2>2. PICK a \in Block : a = own[Temp(sp - 1)] /\ \E i \in 1 .. len[a] : own' = Put(own, Reg, own[Field(a, i)])
    BY <1>10 DEF ArrayGet, IsKind
  <2>3. PICK i \in 1 .. len[a] : own' = Put(own, Reg, own[Field(a, i)])
    BY <2>2
  <2>4. i \in 1 .. Width
    BY <1>0, <2>3
  <2>5. own[Field(a, i)] \in Value /\ ~IsCell(own[Field(a, i)])
    BY <2>1, <2>2, <2>4, OperandFields
  <2> QED
    BY <1>1, <2>1, <2>3, <2>5, ResultScopes
<1>11. CASE ArraySet
  <2>1. /\ sp - 2 \in 1 .. MaxTemp /\ sp \in 1 .. MaxTemp
        /\ Settled /\ UNCHANGED <<kind, depth, target, fe>>
    BY <1>0, <1>11, OperandCount DEF ArraySet, Returns, ctl
  <2>2. PICK a \in Block, v \in {own[Temp(sp)]} :
               /\ a = own[Temp(sp - 2)]
               /\ \E i \in 1 .. len[a] :
                    own' = Put(Put(Put(own, Reg, v), Field(a, i), v), Temp(sp), Nil)
    BY <1>11 DEF ArraySet, IsKind, Top
  <2>3. PICK i \in 1 .. len[a] : own' = Put(Put(Put(own, Reg, v), Field(a, i), v), Temp(sp), Nil)
    BY <2>2
  <2>4. i \in 1 .. Width
    BY <1>0, <2>3
  <2>5. v \in Value /\ ~IsCell(v)
    BY <2>1, <2>2, QuietSlots, QuietValue
  <2>6. Quiet(Field(a, i)) /\ Quiet(Temp(sp)) /\ Quiet(Reg)
    BY <2>1, <2>2, <2>4, OperandFields, QuietSlots
  <2>7. Harmless(Put(own, Reg, v))
    BY <2>1, <2>5, <2>6, SettledHarmless, HarmlessPut
  <2>8. Harmless(Put(Put(own, Reg, v), Field(a, i), v))
    BY <2>5, <2>6, <2>7, HarmlessPut
  <2>9. Harmless(Put(Put(Put(own, Reg, v), Field(a, i), v), Temp(sp), Nil))
    BY <1>0, <2>6, <2>8, HarmlessPut
  <2> QED
    BY <1>1, <2>1, <2>3, <2>9, ExpressionKeeps
<1>12. CASE ArrayPush
  <2>1. /\ sp - 1 \in 1 .. MaxTemp /\ sp \in 1 .. MaxTemp
        /\ Settled /\ UNCHANGED <<kind, depth, target, fe>>
    BY <1>0, <1>12, OperandCount DEF ArrayPush, Returns, ctl
  <2>2. PICK a \in Block : /\ a = own[Temp(sp - 1)] /\ len[a] < Width
                           /\ own' = Exchange(own, Temp(sp), Field(a, len[a] + 1))
    BY <1>12 DEF ArrayPush, IsKind
  <2>3. len[a] + 1 \in 1 .. Width
    BY <1>0, <2>2
  <2>4. Quiet(Temp(sp)) /\ Quiet(Field(a, len[a] + 1))
    BY <2>1, <2>2, <2>3, QuietSlots, OperandFields
  <2> QED
    BY <2>1, <2>2, <2>4, MoveScopes
<1>13. CASE ArrayPop
  <2>1. /\ sp \in 1 .. MaxTemp /\ Settled /\ UNCHANGED <<kind, depth, target, fe>>
    BY <1>0, <1>13, OperandCount DEF ArrayPop, Returns, ctl
  <2>2. PICK a \in Block : /\ a = own[Temp(sp)] /\ len[a] > 0
                           /\ own' = Exchange(own, Reg, Field(a, len[a]))
    BY <1>13 DEF ArrayPop, IsKind, Top
  <2>3. len[a] \in 1 .. Width
    BY <1>0, <2>2
  <2>4. Quiet(Reg) /\ Quiet(Field(a, len[a]))
    BY <2>1, <2>2, <2>3, QuietSlots, OperandFields
  <2> QED
    BY <2>1, <2>2, <2>4, MoveScopes
<1>14. ASSUME NEW k \in {"struct", "enum"}, NEW b \in Block, NEW n \in 0 .. Width, Construct(k, b, n)
       PROVE  ScopeInv'
  <2>1. /\ Settled /\ Alloc(b, k, n) /\ own' = Put(own, Reg, b) /\ k # "cell"
        /\ UNCHANGED <<depth, target, fe>>
    BY <1>14 DEF Construct, Operands, Ready, ctl
  <2> QED
    BY <1>0, <2>1, AllocKinds, ResultScopes
<1>15. CASE StoreField
  <2>1. /\ sp \in 1 .. MaxTemp /\ todo.n \in 1 .. Width
        /\ Settled /\ UNCHANGED <<kind, depth, target, fe>>
    BY <1>0, <1>15 DEF StoreField, ctl, IInv, ControlOK
  <2>2. PICK a \in Block : a = own[Reg] /\ own' = Exchange(own, Temp(sp), Field(a, todo.n))
    BY <1>15 DEF StoreField
  <2>3. ~IsCell(a)
    BY <2>1, <2>2, QuietSlots, QuietValue
  <2>4. Quiet(Temp(sp)) /\ Quiet(Field(a, todo.n))
    BY <2>1, <2>3, QuietSlots
  <2> QED
    BY <2>1, <2>2, <2>4, MoveScopes
<1>16. CASE Constructed
  <2>1. Harmless(own) /\ own' = own /\ UNCHANGED <<kind, depth, target, fe>>
    BY <1>16, SettledHarmless DEF Constructed, heap, ctl
  <2> QED
    BY <1>1, <2>1, ExpressionKeeps
<1>17. ASSUME NEW k \in 1 .. 2, FieldGet(k)
       PROVE  ScopeInv'
  <2>1. /\ sp - k + 1 \in 1 .. MaxTemp /\ Settled /\ UNCHANGED <<kind, depth, target, fe>>
    BY <1>0, <1>17, OperandCount DEF FieldGet, Returns, ctl
  <2>2. PICK a \in Block : a = own[Temp(sp - k + 1)] /\ \E i \in 1 .. len[a] : own' = Put(own, Reg, own[Field(a, i)])
    BY <1>17 DEF FieldGet, IsKind
  <2>3. PICK i \in 1 .. len[a] : own' = Put(own, Reg, own[Field(a, i)])
    BY <2>2
  <2>4. i \in 1 .. Width
    BY <1>0, <2>3
  <2>5. own[Field(a, i)] \in Value /\ ~IsCell(own[Field(a, i)])
    BY <2>1, <2>2, <2>4, OperandFields
  <2> QED
    BY <1>1, <2>1, <2>3, <2>5, ResultScopes
<1>18. ASSUME NEW k \in 2 .. 3, FieldSet(k)
       PROVE  ScopeInv'
  <2>1. /\ sp - k + 1 \in 1 .. MaxTemp /\ sp \in 1 .. MaxTemp
        /\ Settled /\ UNCHANGED <<kind, depth, target, fe>>
    BY <1>0, <1>18, OperandCount DEF FieldSet, Returns, ctl
  <2>2. PICK a \in Block, v \in {own[Temp(sp)]} :
               /\ a = own[Temp(sp - k + 1)]
               /\ \E i \in 1 .. len[a] :
                    own' = Put(Exchange(own, Temp(sp), Field(a, i)), Reg, v)
    BY <1>18 DEF FieldSet, IsKind, Top
  <2>3. PICK i \in 1 .. len[a] : own' = Put(Exchange(own, Temp(sp), Field(a, i)), Reg, v)
    BY <2>2
  <2>4. i \in 1 .. Width
    BY <1>0, <2>3
  <2>5. v \in Value /\ ~IsCell(v)
    BY <2>1, <2>2, QuietSlots, QuietValue
  <2>6. Quiet(Field(a, i)) /\ Quiet(Temp(sp)) /\ Quiet(Reg)
    BY <2>1, <2>2, <2>4, OperandFields, QuietSlots
  <2>7. Harmless(Exchange(own, Temp(sp), Field(a, i)))
    BY <2>1, <2>6, SettledHarmless, HarmlessExchange
  <2>8. Harmless(Put(Exchange(own, Temp(sp), Field(a, i)), Reg, v))
    BY <2>5, <2>6, <2>7, HarmlessPut
  <2> QED
    BY <1>1, <2>1, <2>3, <2>8, ExpressionKeeps
<1> QED
  BY <1>2, <1>3, <1>4, <1>5, <1>6, <1>7, <1>8, <1>9, <1>10, <1>11, <1>12, <1>13, <1>14,
     <1>15, <1>16, <1>17, <1>18 DEF Expression

(***************************************************************************)
(* Statements.                                                             *)
(***************************************************************************)

(* Opening a scope, or turning back towards an outer one.                  *)
LEMMA TurnScopes ==
  ASSUME IInv, ScopeInv, Settled, UNCHANGED heap, EachKept, EachNested',
         depth' \in Int, depth' >= depth
  PROVE  ScopeInv'
<1>1. Harmless(own') /\ KindsKept
  BY SettledHarmless DEF heap, Harmless, KindsKept
<1>2. depth \in Int
  BY HeapAssumption DEF IInv, ControlOK, HeapAssumption
<1> QED
  BY <1>1, <1>2, HarmlessStep

(* Leaving the each loops from the k-th on.                                *)
LEMMA OuterLoops ==
  ASSUME IInv, ScopeInv, NEW k \in 0 .. Len(fe), fe' = SubSeq(fe, 1, k),
         \A j \in 1 .. k : fe[j].d <= target'
  PROVE  EachKept /\ EachNested'
<1>1. fe \in Seq(EachLoop) /\ Len(fe) \in Nat
  BY LenProperties DEF IInv, ControlOK
<1>2. Len(fe') = k /\ \A j \in 1 .. k : fe'[j] = fe[j]
  BY <1>1, SubSeqProperties
<1>3. EachKept
  BY <1>1, <1>2 DEF EachKept
<1>4. \A j \in 1 .. k : j \in 1 .. Len(fe)
  BY <1>1
<1>5. EachNested'
  BY <1>2, <1>4 DEF EachNested, ScopeInv
<1> QED
  BY <1>3, <1>5

(* Away from the condition of the innermost each loop, all of them lie     *)
(* outside the current scope.                                              *)
LEMMA LoopsOutside ==
  ASSUME IInv, ScopeInv, depth = target, NEW j \in 1 .. Len(fe)
  PROVE  /\ fe[j].d \in 1 .. MaxDepth /\ fe[j].d <= depth
         /\ j # Len(fe) \/ ~AtEachCond => fe[j].d <= depth - 1
<1>1. fe # <<>> /\ Len(fe) \in Nat /\ Len(fe) \in 1 .. Len(fe)
  <2>1. fe # <<>>
    BY DEF IInv, ControlOK
  <2> QED
    BY <2>1, InnerEachType
<1>2. fe[j].d \in 1 .. MaxDepth /\ fe[Len(fe)].d \in 1 .. MaxDepth
  BY <1>1, EachDepth
<1>3. fe[j].d <= depth /\ fe[Len(fe)].d <= depth /\ (j < Len(fe) => fe[j].d < fe[Len(fe)].d)
  BY <1>1 DEF ScopeInv, EachNested
<1>4. j # Len(fe) => fe[j].d <= depth - 1
  BY <1>1, <1>2, <1>3, HeapAssumption DEF IInv, ControlOK, HeapAssumption
<1>5. j = Len(fe) /\ ~AtEachCond => fe[j].d # depth
  BY <1>1 DEF AtEachCond, InnerEach
<1>6. j = Len(fe) /\ ~AtEachCond => fe[j].d <= depth - 1
  BY <1>2, <1>3, <1>5, HeapAssumption DEF IInv, ControlOK, HeapAssumption
<1> QED
  BY <1>2, <1>3, <1>4, <1>6

(* Blocks, loops, leave and next.                                          *)
LEMMA BlockScopes ==
  ASSUME IInv, ScopeInv, EnterScope \/ EnterLoopBody \/ EndScope \/ LeaveOrNext \/ EndEach
  PROVE  ScopeInv'
<1>0. /\ depth \in 0 .. MaxDepth /\ MaxDepth \in Nat /\ depth = target /\ Settled
      /\ Len(fe) \in Nat /\ UNCHANGED heap
  BY HeapAssumption, LenProperties
     DEF IInv, ControlOK, HeapAssumption, EnterScope, EnterLoopBody, EndScope, LeaveOrNext, EndEach,
         AtStatement, Ready, AtCond
<1>1. CASE EnterScope \/ EnterLoopBody
  <2>1. depth' = depth + 1 /\ target' = depth + 1 /\ fe' = fe
    BY <1>1 DEF EnterScope, EnterLoopBody
  <2>2. EachKept
    BY <2>1 DEF EachKept
  <2>3. \A j \in 1 .. Len(fe) : fe[j].d <= depth + 1
    BY <1>0, LoopsOutside
  <2>4. EachNested'
    BY <2>1, <2>3 DEF EachNested, ScopeInv
  <2> QED
    BY <1>0, <2>1, <2>2, <2>4, TurnScopes
<1>2. CASE EndScope
  <2>1. depth' = depth /\ target' = depth - 1 /\ fe' = fe /\ ~AtEachCond
    BY <1>2 DEF EndScope, AtStatement, Ready
  <2>2. EachKept
    BY <2>1 DEF EachKept
  <2>3. \A j \in 1 .. Len(fe) : fe[j].d <= depth - 1
    BY <1>0, <2>1, LoopsOutside
  <2>4. EachNested'
    BY <2>1, <2>3 DEF EachNested, ScopeInv
  <2> QED
    BY <1>0, <2>1, <2>2, <2>4, TurnScopes
<1>3. CASE LeaveOrNext
  <2>1. PICK m : m = loops[Len(loops)] /\ m \in 1 .. MaxDepth
    <3>1. loops \in Seq(1 .. MaxDepth) /\ loops # <<>>
      BY <1>3 DEF LeaveOrNext, IInv, ControlOK
    <3>2. Len(loops) \in 1 .. Len(loops)
      BY <3>1, EmptySeq, LenProperties
    <3> QED
      BY <3>1, <3>2, ElementOfSeq
  <2>2. depth' = depth /\ target' = m - 1
    BY <1>3, <2>1 DEF LeaveOrNext
  <2>3. PICK k \in 0 .. Len(fe) : /\ \A i \in 1 .. Len(fe) : fe[i].d < m <=> i <= k
                                  /\ fe' = SubSeq(fe, 1, k)
    BY <1>3, <2>1 DEF LeaveOrNext
  <2>4. \A j \in 1 .. k : fe[j].d <= m - 1
    <3> SUFFICES ASSUME NEW j \in 1 .. k
                 PROVE  fe[j].d <= m - 1
      OBVIOUS
    <3>1. j \in 1 .. Len(fe) /\ j <= k
      BY <1>0, <2>3
    <3>2. fe[j].d < m /\ fe[j].d \in 1 .. MaxDepth
      BY <2>3, <3>1, EachDepth
    <3> QED
      BY <1>0, <2>1, <3>2
  <2>5. EachKept /\ EachNested'
    BY <2>2, <2>3, <2>4, OuterLoops
  <2> QED
    BY <1>0, <2>2, <2>5, TurnScopes
<1>4. CASE EndEach
  <2>1. depth' = depth /\ target' = depth - 1 /\ fe' = SubSeq(fe, 1, Len(fe) - 1) /\ fe # <<>>
    BY <1>4 DEF EndEach, AtCond, AtEachCond
  <2>2. Len(fe) - 1 \in 0 .. Len(fe)
    BY <2>1, InnerEachType
  <2>3. \A j \in 1 .. Len(fe) - 1 : j \in 1 .. Len(fe) /\ j # Len(fe)
    BY <1>0
  <2>4. \A j \in 1 .. Len(fe) - 1 : fe[j].d <= depth - 1
    BY <1>0, <2>3, LoopsOutside
  <2>5. EachKept /\ EachNested'
    BY <2>1, <2>2, <2>4, OuterLoops
  <2> QED
    BY <1>0, <2>1, <2>5, TurnScopes
<1> QED
  BY <1>1, <1>2, <1>3, <1>4

(* The bindings of a scope: a new cell under a name of the program.        *)
LEMMA BindScopes ==
  ASSUME IInv, ScopeInv, Settled, sp \in 1 .. MaxTemp, depth \in 1 .. MaxDepth,
         NEW x \in Name, NEW c \in Block, NewCell(depth, x, c),
         sp' = sp - 1, UNCHANGED <<depth, target, fe>>
  PROVE  ScopeInv'
<1>1. x \in LocalName /\ x # CollName
  BY HeapAssumption DEF LocalName, HeapAssumption
<1>2. \A k \in 1 .. Len(fe) : Local(fe[k].d, CollName) # Local(depth, x)
  BY <1>1, LocalSlots
<1>3. PICK d, o : d = depth /\ o = own'
  OBVIOUS
<1>4. d \in 1 .. MaxDepth /\ NewCell(d, x, c) /\ d <= depth' /\ depth <= depth' /\ depth \in Int /\ depth' \in Int
  BY <1>3, HeapAssumption DEF HeapAssumption
<1>5. \A k \in 1 .. Len(fe) : Local(fe[k].d, CollName) # Local(d, x)
  BY <1>2, <1>3
<1>6. /\ NoStrandedLocals' /\ CellsInScopes' /\ CellsUnshared'
      /\ \A k \in 1 .. Len(fe) : fe[k].coll \in Block =>
              /\ IsKind(own'[Local(fe[k].d, CollName)], "cell")
              /\ kind'[own'[Local(fe[k].d, CollName)]] = "cell"
              /\ own'[Field(own'[Local(fe[k].d, CollName)], 1)] = fe[k].coll
              /\ kind'[fe[k].coll] = kind[fe[k].coll]
              /\ kind[fe[k].coll] \in {"arr", "map", "str"}
  BY <1>1, <1>4, <1>5, NewCellKeeps
<1>7. EachCollectionParked'
  BY <1>6 DEF EachCollectionParked, IsKind
<1>8. EachNested'
  BY DEF EachNested, ScopeInv
<1> QED
  BY <1>6, <1>7, <1>8 DEF ScopeInv

(* `each` over a collection.                                               *)
LEMMA EachScopes ==
  ASSUME IInv, ScopeInv
  PROVE  /\ \A c \in Block, n \in 0 .. Width : BeginEach(c, n) => ScopeInv'
         /\ \A b \in Block : EachIteration(b) => ScopeInv'
<1>0. /\ depth \in 0 .. MaxDepth /\ MaxDepth \in Nat /\ sp \in 0 .. MaxTemp
      /\ MaxTemp \in Nat /\ Width \in Nat /\ Len(fe) \in Nat /\ fe \in Seq(EachLoop)
      /\ len \in [Block -> 0 .. Width] /\ HeapTypeOK
  BY HeapAssumption, LenProperties DEF IInv, ControlOK, HeapAssumption, HeapInv, HeapTypeOK
<1>1. ASSUME NEW c \in Block, NEW n \in 0 .. Width, BeginEach(c, n)
      PROVE  ScopeInv'
  <2>1. PICK d, v : d = depth + 1 /\ v = Top
    OBVIOUS
  <2>2. /\ Settled /\ sp = 1 /\ depth = target /\ d \in 1 .. MaxDepth /\ NewCell(d, CollName, c)
        /\ sp' = sp - 1 /\ depth' = d /\ target' = d
        /\ v = Nil \/ IsKind(v, "arr") \/ IsKind(v, "str")
    BY <1>0, <1>1, <2>1 DEF BeginEach, Evaluated, Ready
  <2>3. PICK e : e = [coll |-> v, idx |-> 0, n |-> n, d |-> d] /\ fe' = Append(fe, e)
    BY <1>1, <2>1 DEF BeginEach
  <2>4. v = own[Temp(sp)]
    BY <2>1 DEF Top
  <2>5. \A k \in 1 .. Len(fe) : fe[k].d \in 1 .. MaxDepth /\ fe[k].d < d
    BY <1>0, <2>1, <2>2, LoopsOutside
  <2>6. \A k \in 1 .. Len(fe) : Local(fe[k].d, CollName) # Local(d, CollName)
    BY <2>5, LocalSlots
  <2>7. sp \in 1 .. MaxTemp /\ depth \in Int /\ depth' \in Int /\ d <= depth' /\ depth <= depth'
        /\ CollName \in LocalName
    BY <1>0, <2>1, <2>2 DEF LocalName
  <2>8. /\ NoStrandedLocals' /\ CellsInScopes' /\ CellsUnshared'
        /\ own'[Local(d, CollName)] = c /\ kind'[c] = "cell"
        /\ own'[Field(c, 1)] = own[Temp(sp)]
        /\ \A b \in Block : kind[b] # "free" => kind'[b] = kind[b]
        /\ \A k \in 1 .. Len(fe) : fe[k].coll \in Block =>
              /\ IsKind(own'[Local(fe[k].d, CollName)], "cell")
              /\ kind'[own'[Local(fe[k].d, CollName)]] = "cell"
              /\ own'[Field(own'[Local(fe[k].d, CollName)], 1)] = fe[k].coll
              /\ kind'[fe[k].coll] = kind[fe[k].coll]
              /\ kind[fe[k].coll] \in {"arr", "map", "str"}
    BY <2>2, <2>6, <2>7, NewCellKeeps
  <2>9. /\ Len(fe') = Len(fe) + 1
        /\ \A k \in 1 .. Len(fe') : (k \in 1 .. Len(fe) /\ fe'[k] = fe[k]) \/ (k = Len(fe) + 1 /\ fe'[k] = e)
    BY <1>0, <2>3
  <2>10. e.coll = v /\ e.d = d
    BY <2>3
  <2>11. EachCollectionParked'
    <3> SUFFICES ASSUME NEW k \in 1 .. Len(fe'), fe'[k].coll \in Block
                 PROVE  /\ own'[Local(fe'[k].d, CollName)] \in Block
                        /\ kind'[own'[Local(fe'[k].d, CollName)]] = "cell"
                        /\ own'[Field(own'[Local(fe'[k].d, CollName)], 1)] = fe'[k].coll
                        /\ kind'[fe'[k].coll] \in {"arr", "map", "str"}
      BY DEF EachCollectionParked, IsKind
    <3>1. CASE k \in 1 .. Len(fe) /\ fe'[k] = fe[k]
      BY <2>8, <3>1 DEF IsKind
    <3>2. CASE k = Len(fe) + 1 /\ fe'[k] = e
      <4>1. fe'[k].coll = v /\ fe'[k].d = d /\ v \in Block
        BY <2>10, <3>2
      <4>2. kind[v] \in {"arr", "str"}
        BY <2>2, <4>1, HeapAssumption DEF IsKind, HeapAssumption
      <4>3. kind'[v] = kind[v]
        BY <2>8, <4>1, <4>2
      <4> QED
        BY <2>4, <2>8, <4>1, <4>2, <4>3
    <3> QED
      BY <2>9, <3>1, <3>2
  <2>12. EachNested'
    <3>1. \A k \in 1 .. Len(fe') : fe'[k].d <= d
      BY <1>0, <2>1, <2>5, <2>9, <2>10
    <3>2. \A j, k \in 1 .. Len(fe') : j < k => fe'[j].d < fe'[k].d
      <4> SUFFICES ASSUME NEW j \in 1 .. Len(fe'), NEW k \in 1 .. Len(fe'), j < k
                   PROVE  fe'[j].d < fe'[k].d
        OBVIOUS
      <4>1. j \in 1 .. Len(fe) /\ fe'[j] = fe[j]
        BY <1>0, <2>9
      <4>2. CASE k \in 1 .. Len(fe) /\ fe'[k] = fe[k]
        BY <4>1, <4>2 DEF ScopeInv, EachNested
      <4>3. CASE k = Len(fe) + 1 /\ fe'[k] = e
        BY <2>5, <2>10, <4>1, <4>3
      <4> QED
        BY <2>9, <4>2, <4>3
    <3> QED
      BY <2>2, <3>1, <3>2 DEF EachNested
  <2> QED
    BY <2>8, <2>11, <2>12 DEF ScopeInv
<1>2. ASSUME NEW b \in Block, EachIteration(b)
      PROVE  ScopeInv'
  <2>1. /\ Settled /\ fe # <<>> /\ depth = target /\ sp + 1 \in 1 .. MaxTemp /\ FetchElement(b)
        /\ depth' = depth + 1 /\ target' = depth + 1
        /\ fe' = [fe EXCEPT ![Len(fe)].idx = @ + 1]
    BY <1>0, <1>2 DEF EachIteration, AtCond, AtEachCond
  <2>2. PICK k : k = Len(fe) /\ k \in 1 .. Len(fe)
    BY <2>1, InnerEachType
  <2>3. Len(fe') = Len(fe) /\ \A j \in 1 .. Len(fe) : fe'[j].coll = fe[j].coll /\ fe'[j].d = fe[j].d
    <3>1. PICK e : e = [fe[k] EXCEPT !.idx = @ + 1]
      OBVIOUS
    <3>2. fe' = [fe EXCEPT ![k] = e]
      BY <2>1, <2>2, <3>1
    <3>3. fe[k] \in EachLoop
      BY <1>0, <2>2, ElementOfSeq
    <3>4. e.coll = fe[k].coll /\ e.d = fe[k].d
      BY <3>1, <3>3 DEF EachLoop
    <3>5. Len(fe') = Len(fe) /\ \A j \in 1 .. Len(fe) : fe'[j] = IF j = k THEN e ELSE fe[j]
      BY <1>0, <2>2, <3>2
    <3> QED
      BY <3>4, <3>5
  <2>4. EachKept
    BY <2>3 DEF EachKept
  <2>5. \A j \in 1 .. Len(fe) : fe[j].d <= depth + 1
    BY <1>0, <2>1, LoopsOutside
  <2>6. EachNested'
    BY <2>1, <2>3, <2>5 DEF EachNested, ScopeInv
  <2>7. KindsKept /\ \E v \in Value : ~IsCell(v) /\ own' = Put(own, Temp(sp + 1), v)
    <3>1. PICK v : v = InnerEach.coll
      OBVIOUS
    <3>2. CASE IsKind(v, "arr")
      <4>1. PICK i : i = InnerEach.idx + 1
        OBVIOUS
      <4>2. i <= len[v] /\ own' = Put(own, Temp(sp + 1), own[Field(v, i)]) /\ UNCHANGED kind
        BY <2>1, <3>1, <3>2, <4>1 DEF FetchElement
      <4>3. i \in 1 .. Width
        <5>1. InnerEach.idx \in 0 .. Width
          BY <2>1, InnerEachType DEF EachLoop
        <5>2. len[v] \in 0 .. Width
          BY <1>0, <3>2 DEF IsKind
        <5> QED
          BY <1>0, <4>1, <4>2, <5>1, <5>2
      <4>4. v \in Block /\ ~IsCell(v)
        BY <3>2 DEF IsKind, IsCell
      <4>5. own[Field(v, i)] \in Value /\ ~IsCell(own[Field(v, i)])
        BY <2>1, <4>3, <4>4, QuietSlots, QuietValue
      <4> QED
        BY <4>2, <4>5 DEF KindsKept
    <3>3. CASE ~IsKind(v, "arr")
      <4>1. Alloc(b, "str", 0) /\ own' = Put(own, Temp(sp + 1), b)
        BY <2>1, <3>1, <3>3 DEF FetchElement
      <4> QED
        BY <1>0, <4>1, AllocKinds
    <3> QED
      BY <3>2, <3>3
  <2>8. PICK v \in Value : ~IsCell(v) /\ own' = Put(own, Temp(sp + 1), v)
    BY <2>7
  <2>9. Harmless(Put(own, Temp(sp + 1), v))
    BY <2>1, <2>8, SettledHarmless, QuietSlots, HarmlessPut
  <2>10. Harmless(own')
    BY <2>8, <2>9 DEF Harmless
  <2> QED
    BY <1>0, <2>1, <2>4, <2>6, <2>7, <2>10, HarmlessStep
<1> QED
  BY <1>1, <1>2

(* `match`, and a variable's assignment.                                   *)
LEMMA MatchScopes ==
  ASSUME IInv, ScopeInv, BusyHere
  PROVE  /\ MatchArm => ScopeInv'
         /\ LoadField => ScopeInv'
         /\ ReleaseScrutinee => ScopeInv'
         /\ \A x \in Name, c \in Block : BindNext(x, c) => ScopeInv'
<1>0. /\ depth \in 0 .. MaxDepth /\ MaxDepth \in Nat /\ sp \in 0 .. MaxTemp
      /\ MaxTemp \in Nat /\ Width \in Nat /\ todo.n \in 0 .. Width
  BY HeapAssumption DEF IInv, ControlOK, HeapAssumption
<1>1. ASSUME MatchArm PROVE ScopeInv'
  BY <1>1, ScopeStutter DEF MatchArm, heap, ctl
<1>2. ASSUME LoadField PROVE ScopeInv'
  <2>1. PICK e \in Block : e = own[Temp(1)] /\ own' = Put(own, Temp(sp + 1), own[Field(e, todo.n)])
    BY <1>2 DEF LoadField
  <2>2. /\ Settled /\ sp < MaxTemp /\ todo.n \in 1 .. Width /\ 1 \in 1 .. MaxTemp
        /\ UNCHANGED <<kind, depth, target, fe>>
    BY <1>0, <1>2 DEF LoadField, ctl
  <2>3. own[Field(e, todo.n)] \in Value /\ ~IsCell(own[Field(e, todo.n)])
    BY <2>1, <2>2, OperandFields
  <2>4. KindsKept
    BY <2>2 DEF KindsKept
  <2> QED
    BY <2>1, <2>2, <2>3, <2>4, LoadScopes
<1>3. ASSUME ReleaseScrutinee PROVE ScopeInv'
  <2>1. /\ Settled /\ sp \in 1 .. MaxTemp /\ 1 \in 1 .. MaxTemp /\ depth < MaxDepth
        /\ own' = Exchange(own, Temp(1), Temp(sp)) /\ UNCHANGED <<kind, fe>>
        /\ depth' = depth + 1 /\ target' = depth + 1
    BY <1>0, <1>3 DEF ReleaseScrutinee
  <2>2. depth = target
    BY <1>3 DEF BusyHere, ReleaseScrutinee, Load, Idle
  <2>3. Harmless(Exchange(own, Temp(1), Temp(sp)))
    BY <2>1, SettledHarmless, QuietSlots, HarmlessExchange
  <2>4. Harmless(own')
    BY <2>1, <2>3 DEF Harmless
  <2>5. KindsKept /\ EachKept
    BY <2>1 DEF KindsKept, EachKept
  <2>6. \A k \in 1 .. Len(fe) : fe[k].d <= depth + 1
    BY <1>0, <2>2, LoopsOutside
  <2>7. EachNested'
    BY <2>1, <2>6 DEF EachNested, ScopeInv
  <2> QED
    BY <1>0, <2>1, <2>4, <2>5, <2>7, HarmlessStep
<1>4. ASSUME NEW x \in Name, NEW c \in Block, BindNext(x, c) PROVE ScopeInv'
  <2>1. /\ Settled /\ sp \in 1 .. MaxTemp /\ depth \in 1 .. MaxDepth /\ NewCell(depth, x, c)
        /\ sp' = sp - 1 /\ UNCHANGED <<depth, target, fe>>
    BY <1>0, <1>4 DEF BindNext, ctl
  <2> QED
    BY <2>1, BindScopes
<1> QED
  BY <1>1, <1>2, <1>3, <1>4

\* A statement enters a scope, binds in the innermost one, or asks for the
\* end of the scopes above its target.
LEMMA StatementScopes ==
  ASSUME IInv, ScopeInv, BusyHere, Statement
  PROVE  ScopeInv'
<1>0. /\ depth \in 0 .. MaxDepth /\ MaxDepth \in Nat /\ sp \in 0 .. MaxTemp /\ MaxTemp \in Nat
  BY HeapAssumption DEF IInv, ControlOK, HeapAssumption
<1>1. CASE Discard
  <2>1. Settled /\ UNCHANGED heap /\ UNCHANGED <<depth, target, fe>>
    BY <1>1 DEF Discard, Evaluated, Ready, ctl
  <2>2. EachKept /\ EachNested'
    BY <2>1 DEF EachKept, EachNested, ScopeInv
  <2> QED
    BY <1>0, <2>1, <2>2, TurnScopes
<1>2. ASSUME Evaluated, NEW s, Quiet(s), StoreVar(s)
      PROVE  ScopeInv'
  <2>1. Settled /\ sp \in 1 .. MaxTemp /\ own' = Exchange(own, Temp(sp), s)
        /\ UNCHANGED <<kind, depth, target, fe>>
    BY <1>0, <1>2 DEF Evaluated, Ready, StoreVar, ctl
  <2> QED
    BY <1>2, <2>1, QuietSlots, MoveScopes
<1>3. ASSUME NEW x \in Name, AssignGlobal(x) PROVE ScopeInv'
  BY <1>2, <1>3, QuietSlots DEF AssignGlobal
<1>4. ASSUME NEW x \in Name, Reassign(x) PROVE ScopeInv'
  BY <1>2, <1>4, ResolvesQuiet DEF Reassign
<1>5. ASSUME NEW x \in Name, NEW c \in Block, AssignLocal(x, c) PROVE ScopeInv'
  <2>1. /\ Settled /\ sp \in 1 .. MaxTemp /\ depth \in 1 .. MaxDepth /\ NewCell(depth, x, c)
        /\ sp' = sp - 1 /\ UNCHANGED <<depth, target, fe>>
    BY <1>0, <1>5 DEF AssignLocal, Evaluated, Ready, ctl
  <2> QED
    BY <2>1, BindScopes
<1>6. CASE EnterScope \/ EnterLoopBody \/ EndScope \/ LeaveOrNext \/ EndEach
  BY <1>6, BlockScopes
<1>7. CASE Abort \/ EndProgram
  BY <1>7, ScopeStutter DEF Abort, EndProgram, heap
<1> QED
  BY <1>1, <1>3, <1>4, <1>5, <1>6, <1>7, EachScopes, MatchScopes DEF Statement

(* While an operation is under way no scope is entered or left.            *)
LEMMA BusyStep ==
  ASSUME IInv, BusyHere, [Next]_vars
  PROVE  BusyHere'
<1>0. depth \in Int /\ target \in Int
  BY HeapAssumption DEF IInv, ControlOK, HeapAssumption
<1>1. CASE UNCHANGED vars
  BY <1>1 DEF vars, ctl, BusyHere
<1>2. CASE Releasing
  BY <1>0, <1>2 DEF Releasing, ReleaseOperand, RunCascade, PushResult, ReleaseLocal, LeaveScope,
                    ReleaseGlobal, Exit, BusyHere, ctl
<1>3. CASE Expression
  <2>1. CASE PushConst \/ ShortCircuit \/ StoreElement \/ CloseArray
    BY <2>1 DEF PushConst, ShortCircuit, StoreElement, CloseArray, Operands, Ready, ctl, BusyHere
  <2>2. CASE ArrayGet \/ ArraySet \/ ArrayPush \/ ArrayPop
    BY <2>2 DEF ArrayGet, ArraySet, ArrayPush, ArrayPop, Operands, Ready, Returns, ctl, BusyHere
  <2>3. CASE StoreField \/ Constructed
    BY <2>3 DEF StoreField, Constructed, ctl, BusyHere, Idle, Fill
  <2>4. ASSUME NEW x \in Name, LoadVar(x) PROVE BusyHere'
    BY <2>4 DEF LoadVar, Ready, ctl, BusyHere
  <2>5. ASSUME NEW k, ScalarOp(k) \/ FieldGet(k) \/ FieldSet(k) PROVE BusyHere'
    BY <2>5 DEF ScalarOp, FieldGet, FieldSet, Operands, Ready, Returns, ctl, BusyHere
  <2>6. ASSUME NEW k, NEW b, StringOp(k, b) PROVE BusyHere'
    BY <2>6 DEF StringOp, Operands, Ready, Returns, ctl, BusyHere
  <2>7. ASSUME NEW k, NEW b, NEW n, OpenArray(n, b) \/ Construct(k, b, n) PROVE BusyHere'
    BY <2>7 DEF OpenArray, Construct, Operands, Ready, ctl, BusyHere
  <2> QED
    BY <1>3, <2>1, <2>2, <2>3, <2>4, <2>5, <2>6, <2>7 DEF Expression
<1>4. CASE Statement
  <2>1. ASSUME NEW x \in Name, AssignGlobal(x) \/ Reassign(x) PROVE BusyHere'
    BY <2>1 DEF AssignGlobal, Reassign, StoreVar, ctl, BusyHere
  <2>2. ASSUME NEW x \in Name, NEW c \in Block, AssignLocal(x, c) PROVE BusyHere'
    BY <2>2 DEF AssignLocal, ctl, BusyHere
  <2>3. ASSUME NEW x \in Name, NEW c \in Block, BindNext(x, c) PROVE BusyHere'
    BY <2>3 DEF BindNext, ctl, BusyHere, Binding, Idle
  <2>4. CASE Discard \/ Abort \/ EndProgram
    BY <2>4 DEF Discard, Abort, EndProgram, ctl, BusyHere
  <2>5. CASE EnterScope \/ EnterLoopBody \/ EndScope \/ LeaveOrNext
    BY <2>5 DEF EnterScope, EnterLoopBody, EndScope, LeaveOrNext, AtStatement, Ready, BusyHere
  <2>6. CASE EndEach
    BY <2>6 DEF EndEach, AtCond, BusyHere
  <2>7. ASSUME NEW c \in Block, NEW n \in 0 .. Width, BeginEach(c, n) PROVE BusyHere'
    BY <2>7 DEF BeginEach, BusyHere
  <2>8. ASSUME NEW b \in Block, EachIteration(b) PROVE BusyHere'
    BY <2>8 DEF EachIteration, BusyHere
  <2>9. CASE MatchArm
    BY <2>9 DEF MatchArm, Evaluated, Ready, ctl, BusyHere
  <2>10. CASE LoadField
    BY <2>10 DEF LoadField, ctl, BusyHere, Idle
  <2>11. CASE ReleaseScrutinee
    BY <2>11 DEF ReleaseScrutinee, BusyHere
  <2> QED
    BY <1>4, <2>1, <2>2, <2>3, <2>4, <2>5, <2>6, <2>7, <2>8, <2>9, <2>10, <2>11 DEF Statement
<1> QED
  BY <1>1, <1>2, <1>3, <1>4 DEF Next, Stopped

\* At the start no name is bound and the frame has one scope.
LEMMA InitScopes ==
  ASSUME Init
  PROVE  ScopeInv /\ BusyHere
<1>1. IInv
  BY InitInv
<1>2. \A s \in Slot : own[s] = Nil
  BY DEF Init, HeapInit
<1>3. \A s \in Slot : ~IsCell(own[s])
  BY <1>2, HeapAssumption DEF IsCell, HeapAssumption
<1>4. Len(fe) = 0
  BY EmptySeq DEF Init
<1>5. NoStrandedLocals /\ CellsInScopes /\ CellsUnshared
  BY <1>2, <1>3, LocalSlots DEF NoStrandedLocals, CellsInScopes, CellsUnshared
<1>6. EachCollectionParked /\ EachNested
  BY <1>4 DEF EachCollectionParked, EachNested
<1> QED
  BY <1>5, <1>6 DEF ScopeInv, BusyHere, Init

(* Whichever way control leaves a scope (its end, leave or next out of     *)
(* several scopes and loops, the end of an each), every cell of it has     *)
(* been released; and as long as an each loop is open, its hidden cell     *)
(* still owns the collection the loop reads through an uncounted pointer.  *)
THEOREM ScopesHold == Spec => []ScopesExact
<1>1. Init => ScopeInv /\ BusyHere
  BY InitScopes
<1>2. IInv /\ ScopeInv /\ BusyHere /\ [Next]_vars => ScopeInv' /\ BusyHere'
  <2>1. ASSUME ScopeInv, UNCHANGED vars
        PROVE  ScopeInv'
    BY <2>1, ScopeStutter DEF vars, heap, ctl
  <2> QED
    BY <2>1, ReleasingScopes, ExpressionScopes, StatementScopes, BusyStep DEF Next, Stopped
<1>3. IInv /\ ScopeInv => ScopesExact
  BY DEF IInv, HeapInv, TypeOK, ScopeInv, ScopesExact
<1> QED
  BY <1>1, <1>2, <1>3, Invariance, PTL DEF Spec

(***************************************************************************)
(* What survives the program.                                              *)
(***************************************************************************)

\* A program that has run its last statement is outside of every scope and
\* expression; one that has ended has released its globals.
FinalInv ==
  /\ status \in {"ending", "ended"} => todo = Idle /\ depth = 0 /\ target = 0 /\ sp = 0
  /\ status = "ended" => drain = <<>> /\ Due = {} /\ \A x \in Name : own[Glob(x)] = Nil

(* What changes the status of the process.                                 *)
LEMMA StatusStep ==
  ASSUME Next
  PROVE  status' = status \/ Abort \/ EndProgram \/ Exit
<1>1. Releasing => status' = status \/ Exit
  BY DEF Releasing, ReleaseOperand, RunCascade, PushResult, ReleaseLocal, LeaveScope,
         ReleaseGlobal, ctl
<1>2. Expression => status' = status
  <2>1. PushConst \/ ShortCircuit \/ StoreElement \/ CloseArray \/ StoreField \/ Constructed
          => status' = status
    BY DEF PushConst, ShortCircuit, StoreElement, CloseArray, StoreField, Constructed, ctl
  <2>2. ArrayGet \/ ArraySet \/ ArrayPush \/ ArrayPop => status' = status
    BY DEF ArrayGet, ArraySet, ArrayPush, ArrayPop, Returns, ctl
  <2>3. \A x, b : LoadVar(x) \/ ScalarOp(x) \/ StringOp(x, b) \/ OpenArray(x, b) => status' = status
    BY DEF LoadVar, ScalarOp, StringOp, OpenArray, Returns, ctl
  <2>4. \A k, b, n : Construct(k, b, n) \/ FieldGet(k) \/ FieldSet(k) => status' = status
    BY DEF Construct, FieldGet, FieldSet, Returns, ctl
  <2> QED
    BY <2>1, <2>2, <2>3, <2>4 DEF Expression
<1>3. Statement => status' = status \/ Abort \/ EndProgram
  <2>1. Discard \/ EnterScope \/ EnterLoopBody \/ EndScope \/ LeaveOrNext \/ EndEach
        \/ MatchArm \/ LoadField \/ ReleaseScrutinee => status' = status
    BY DEF Discard, EnterScope, EnterLoopBody, EndScope, LeaveOrNext, EndEach, MatchArm,
           LoadField, ReleaseScrutinee, ctl
  <2>2. \A x, c : AssignGlobal(x) \/ Reassign(x) \/ AssignLocal(x, c) \/ BeginEach(x, c)
                \/ EachIteration(c) \/ BindNext(x, c) => status' = status
    BY DEF AssignGlobal, Reassign, StoreVar, AssignLocal, BeginEach, EachIteration, BindNext, ctl
  <2> QED
    BY <2>1, <2>2 DEF Statement
<1>4. Stopped => status' = status
  BY DEF Stopped, vars, ctl
<1> QED
  BY <1>1, <1>2, <1>3, <1>4 DEF Next

(* Nothing happens after the end.                                          *)
LEMMA EndedStops ==
  ASSUME status = "ended", drain = <<>>, Next
  PROVE  UNCHANGED vars
<1>1. ~Settled /\ ~Ready /\ ~AtCond /\ ~AtStatement /\ ~Evaluated /\ \A k : ~Operands(k)
  BY DEF Settled, Ready, AtCond, AtStatement, Evaluated, Operands
<1>2. ~Releasing
  BY <1>1 DEF Releasing, ReleaseOperand, RunCascade, Cascade, ReleaseChild, FreeBlock, PushResult,
              ReleaseLocal, LeaveScope, ReleaseGlobal, Exit
<1>3. ~Expression
  <2>1. ~PushConst /\ ~ShortCircuit /\ ~StoreElement /\ ~CloseArray /\ ~ArrayGet /\ ~ArraySet
        /\ ~ArrayPush /\ ~ArrayPop /\ ~StoreField /\ ~Constructed
    BY <1>1 DEF PushConst, ShortCircuit, StoreElement, CloseArray, ArrayGet, ArraySet,
                ArrayPush, ArrayPop, StoreField, Constructed
  <2>2. /\ \A x : ~LoadVar(x)
        /\ \A k : ~ScalarOp(k) /\ ~FieldGet(k) /\ ~FieldSet(k)
        /\ \A k, b : ~StringOp(k, b) /\ ~OpenArray(k, b)
        /\ \A k, b, n : ~Construct(k, b, n)
    BY <1>1 DEF LoadVar, ScalarOp, FieldGet, FieldSet, StringOp, OpenArray, Construct
  <2> QED
    BY <2>1, <2>2 DEF Expression
<1>4. ~Statement
  <2>1. ~LoadField /\ ~ReleaseScrutinee /\ ~Abort /\ \A x, c : ~BindNext(x, c)
    BY <1>1 DEF LoadField, ReleaseScrutinee, BindNext, Abort
  <2>2. ~Discard /\ ~EnterScope /\ ~EnterLoopBody /\ ~EndScope /\ ~LeaveOrNext /\ ~EndEach
        /\ ~MatchArm /\ ~EndProgram
    BY <1>1 DEF Discard, EnterScope, EnterLoopBody, EndScope, LeaveOrNext, EndEach, MatchArm,
                EndProgram
  <2>3. /\ \A x : ~AssignGlobal(x) /\ ~Reassign(x)
        /\ \A x, c : ~AssignLocal(x, c) /\ ~BeginEach(x, c)
        /\ \A c : ~EachIteration(c)
    BY <1>1 DEF AssignGlobal, Reassign, AssignLocal, BeginEach, EachIteration
  <2> QED
    BY <2>1, <2>2, <2>3 DEF Statement
<1> QED
  BY <1>2, <1>3, <1>4 DEF Next, Stopped

LEMMA FinalStep ==
  ASSUME IInv, FinalInv, [Next]_vars
  PROVE  FinalInv'
<1>1. CASE UNCHANGED vars
  BY <1>1 DEF vars, heap, ctl, FinalInv, Due
<1>2. CASE Next /\ status' = status /\ status = "ending"
  <2>1. EndInv
    BY <1>2 DEF FinalInv, EndInv
  <2>2. UNCHANGED <<todo, depth, target, sp>>
    BY <1>2, <2>1, ShrinkingSteps DEF vars, ctl, ReleaseOperand, RunCascade, ReleaseGlobal
  <2> QED
    BY <1>2, <2>2 DEF FinalInv
<1>3. CASE Next /\ status' = status /\ status = "ended"
  BY <1>1, <1>3, EndedStops DEF FinalInv
<1>4. CASE status' = status /\ status \notin {"ending", "ended"}
  BY <1>4 DEF FinalInv
<1>5. CASE Abort
  BY <1>5 DEF Abort, FinalInv
<1>6. CASE EndProgram
  BY <1>6 DEF EndProgram, AtStatement, Ready, FinalInv
<1>7. CASE Exit
  BY <1>7 DEF Exit, Settled, FinalInv, Due, heap
<1> QED
  BY <1>1, <1>2, <1>3, <1>4, <1>5, <1>6, <1>7, StatusStep

(* At the end no slot but the fields of blocks owns anything.              *)
LEMMA RootsReleased ==
  ASSUME IInv, NoStrandedLocals, FinalInv, status = "ended"
  PROVE  drain = <<>> /\ \A s \in RootSlot : own[s] = Nil
<1>1. drain = <<>> /\ depth = 0 /\ sp = 0 /\ Due = {} /\ todo = Idle
  BY DEF FinalInv
<1>2. \A i \in 1 .. MaxTemp : own[Temp(i)] = Nil
  BY <1>1 DEF Due
<1>3. own[Reg] = Nil
  BY <1>1 DEF IInv, RegIdle, Idle
<1>4. \A x \in Name : own[Glob(x)] = Nil
  BY DEF FinalInv
<1>5. \A d \in 1 .. MaxDepth, x \in LocalName : own[Local(d, x)] = Nil
  BY <1>1 DEF NoStrandedLocals
<1>6. ASSUME NEW s \in RootSlot
      PROVE  own[s] = Nil
  <2>1. CASE s \in {"temp"} \X (1 .. MaxTemp)
    BY <1>2, <2>1 DEF Temp
  <2>2. CASE s = Reg
    BY <1>3, <2>2
  <2>3. CASE s \in {"glob"} \X Name
    BY <1>4, <2>3 DEF Glob
  <2>4. CASE s \in {"scope"} \X ((1 .. MaxDepth) \X LocalName)
    BY <1>5, <2>4 DEF Local
  <2> QED
    BY <2>1, <2>2, <2>3, <2>4 DEF RootSlot
<1> QED
  BY <1>1, <1>6

(* A program that runs to its end, of whatever statements, leaves behind   *)
(* only what a refcounter cannot free, which is cycles, what array set     *)
(* lost, and what these refer to: no other path of the generated code      *)
(* loses a block.                                                          *)
THEOREM OnlyGarbageSurvives == Spec => []OnlyLostOrCyclicSurvive
<1>1. Init => FinalInv
  BY DEF Init, FinalInv
<1>2. IInv /\ FinalInv /\ [Next]_vars => FinalInv'
  BY FinalStep
<1>3. IInv /\ FinalInv /\ ScopesExact => OnlyLostOrCyclicSurvive
  <2> SUFFICES ASSUME IInv, FinalInv, NoStrandedLocals, status = "ended"
               PROVE  Live \subseteq Reach(own, Lost \cup Cyclic)
    BY DEF ScopesExact, OnlyLostOrCyclicSurvive
  <2>1. drain = <<>> /\ \A s \in RootSlot : own[s] = Nil
    BY RootsReleased
  <2>2. Lost \cup Cyclic \in SUBSET Block
    BY DEF Lost, Cyclic, Live
  <2>3. \A b \in Live : orphan[b] > 0 \/ b \in Reach(own, Children(own, {b})) => b \in Lost \cup Cyclic
    BY DEF Lost, Cyclic
  <2> QED
    BY <2>1, <2>2, <2>3, Survivors DEF IInv
<1> QED
  BY <1>1, <1>2, <1>3, Invariance, ScopesHold, PTL DEF Spec

(***************************************************************************)
(* Without array set nothing is lost.                                      *)
(***************************************************************************)
NothingLost == orphan = [b \in Block |-> 0]

LEMMA OnlySetLoses ==
  ASSUME "set" \notin Lang, Next
  PROVE  orphan' = orphan
<1>1. Releasing => orphan' = orphan
  BY DEF Releasing, ReleaseOperand, RunCascade, Cascade, ReleaseChild, FreeBlock, Drop,
         PushResult, ReleaseLocal, LeaveScope, ReleaseGlobal, Exit, heap
<1>2. Expression => orphan' = orphan
  <2>1. PushConst \/ ShortCircuit \/ StoreElement \/ CloseArray \/ StoreField \/ Constructed
          => orphan' = orphan
    BY DEF PushConst, ShortCircuit, StoreElement, CloseArray, StoreField, Constructed, heap
  <2>2. ArrayGet \/ ArraySet \/ ArrayPush \/ ArrayPop => orphan' = orphan
    BY DEF ArrayGet, ArraySet, ArrayPush, ArrayPop
  <2>3. \A x, b : LoadVar(x) \/ ScalarOp(x) \/ StringOp(x, b) \/ OpenArray(x, b) => orphan' = orphan
    BY DEF LoadVar, ScalarOp, StringOp, OpenArray, heap
  <2>4. \A k, b, n : Construct(k, b, n) \/ FieldGet(k) \/ FieldSet(k) => orphan' = orphan
    BY DEF Construct, FieldGet, FieldSet
  <2> QED
    BY <2>1, <2>2, <2>3, <2>4 DEF Expression
<1>3. Statement => orphan' = orphan
  <2>1. Discard \/ EnterScope \/ EnterLoopBody \/ EndScope \/ LeaveOrNext \/ EndEach
        \/ MatchArm \/ LoadField \/ ReleaseScrutinee \/ Abort \/ EndProgram => orphan' = orphan
    BY DEF Discard, EnterScope, EnterLoopBody, EndScope, LeaveOrNext, EndEach, MatchArm,
           LoadField, ReleaseScrutinee, Abort, EndProgram, heap
  <2>2. \A x, c : AssignGlobal(x) \/ Reassign(x) \/ AssignLocal(x, c) \/ BeginEach(x, c)
                \/ EachIteration(c) \/ BindNext(x, c) => orphan' = orphan
    BY DEF AssignGlobal, Reassign, StoreVar, AssignLocal, BeginEach, EachIteration, BindNext,
           NewCell, heap
  <2> QED
    BY <2>1, <2>2 DEF Statement
<1>4. Stopped => orphan' = orphan
  BY DEF Stopped, vars, heap
<1> QED
  BY <1>1, <1>2, <1>3, <1>4 DEF Next

(* A program without array set whose blocks form no cycle at its end       *)
(* leaves no block and no buffer behind, and verb_gc_live says so: what    *)
(* the design of the refcounter promises holds of all the rest of the      *)
(* language.                                                               *)
THEOREM AcyclicProgramsLeakNothing ==
  ASSUME "set" \notin Lang
  PROVE  Spec => []AcyclicLeaksNothing
<1>1. Init => NothingLost
  BY DEF Init, HeapInit, NothingLost
<1>2. NothingLost /\ [Next]_vars => NothingLost'
  <2>1. UNCHANGED vars => orphan' = orphan
    BY DEF vars, heap
  <2> QED
    BY <2>1, OnlySetLoses DEF NothingLost
<1>3. IInv /\ LiveCountExact /\ NothingLost /\ OnlyLostOrCyclicSurvive => AcyclicLeaksNothing
  <2> SUFFICES ASSUME IInv, LiveCountExact, NothingLost, status = "ended", Cyclic = {},
                      Live \subseteq Reach(own, Lost \cup Cyclic)
               PROVE  Live = {} /\ gcLive = 0
    BY DEF OnlyLostOrCyclicSurvive, AcyclicLeaksNothing
  <2>1. Lost \cup Cyclic = {}
    BY DEF Lost, NothingLost, Live
  <2>2. Reach(own, {}) \subseteq {}
    <3>1. Children(own, {}) = {}
      BY DEF Children
    <3> QED
      BY <3>1, ReachLeast
  <2>3. Live = {}
    BY <2>1, <2>2
  <2>4. {b \in Live : kind[b] = "arr" /\ cap[b] # 0} = {}
    BY <2>3
  <2> QED
    BY <2>3, <2>4, FS_EmptySet DEF LiveCountExact
<1> QED
  BY <1>1, <1>2, <1>3, Invariance, LeakCountExact, OnlyGarbageSurvives, PTL DEF Spec

(***************************************************************************)
(* Maps.                                                                   *)
(***************************************************************************)

\* A key is a value or gone, and its string is alive although nobody may
\* count it.
KeysLive ==
  /\ keyOf \in [Block -> [1 .. Width -> Value \cup {Gone}]]
  /\ \A m \in Block, i \in 1 .. Width : keyOf[m][i] \in Block => kind[keyOf[m][i]] # "free"

\* It holds up to the moment a program is spoiled.
MapInv == ~spoiled => IInv /\ KeysLive

\* A step that frees no block keeps the keys of the entries it moves alive.
LEMMA KeysKept ==
  ASSUME KeysLive,
         keyOf' \in [Block -> [1 .. Width -> Value \cup {Gone}]],
         \A m \in Block, i \in 1 .. Width :
           keyOf'[m][i] \in Block => kind[keyOf'[m][i]] # "free",
         \A b \in Block : kind[b] # "free" => kind'[b] # "free"
  PROVE  KeysLive'
BY DEF KeysLive

\* So does one that leaves the keys alone.
LEMMA KeysSame ==
  ASSUME KeysLive, keyOf' = keyOf, \A b \in Block : kind[b] # "free" => kind'[b] # "free"
  PROVE  KeysLive'
BY KeysKept DEF KeysLive

\* A program that is not spoiled after a step was not before it.
LEMMA SpoiledStays ==
  ASSUME [MapNext]_mapVars, ~spoiled'
  PROVE  ~spoiled
BY DEF MapNext, mapVars

\* The empty map of a program that has just started holds no key.
LEMMA MapStart ==
  ASSUME MapInit
  PROVE  IInv /\ KeysLive
<1>1. Nil \in Value /\ Nil \notin Block
  BY HeapAssumption DEF Value, HeapAssumption
<1>2. NoKeys \in [1 .. Width -> Value \cup {Gone}] /\ \A i \in 1 .. Width : NoKeys[i] = Nil
  BY <1>1 DEF NoKeys
<1> QED
  BY <1>1, <1>2, InitInv DEF MapInit, KeysLive

(* The operands of a map function.                                         *)
LEMMA MapOperands ==
  ASSUME IInv, NEW k \in 1 .. 3, NEW m, MapCall(k, m)
  PROVE  /\ own[Reg] = Nil /\ drain = <<>>
         /\ sp \in 1 .. sp /\ Temp(sp) \in Slot /\ NotFreed(Temp(sp))
         /\ m \in Block /\ kind[m] = "map"
         /\ \A i \in 1 .. Width : /\ Field(m, i) \in Slot
                                  /\ NotFreed(Field(m, i))
                                  /\ own[Field(m, i)] \in Value
         /\ len[m] \in 0 .. Width
<1>1. /\ Operands(k) /\ own[Temp(sp - k + 1)] = m /\ m \in Block /\ kind[m] = "map"
  BY DEF MapCall, IsKind
<1>2. sp \in Nat /\ k <= sp /\ Settled /\ todo = Idle
  BY <1>1, OperandCount
<1>3. sp - k + 1 \in 1 .. sp /\ sp \in 1 .. sp
  BY <1>2
<1>4. Temp(sp - k + 1) \in Slot
  BY <1>3, InUse
<1>5. \A i \in 1 .. Width : /\ Field(m, i) \in Slot
                            /\ NotFreed(Field(m, i))
                            /\ own[Field(m, i)] \in Value
  BY <1>1, <1>4, FieldOfOwned
<1>6. own[Reg] = Nil
  BY <1>2, RegIsNil DEF Idle
<1>7. len[m] \in 0 .. Width
  BY <1>1 DEF IInv, HeapInv, HeapTypeOK
<1>8. Temp(sp) \in Slot /\ NotFreed(Temp(sp))
  BY <1>3, InUse
<1> QED
  BY <1>1, <1>2, <1>3, <1>5, <1>6, <1>7, <1>8 DEF Settled

(* map_set: the value is moved into an entry, what the entry held is left  *)
(* to be released, and the map itself is handed back with a retain.        *)
LEMMA MapStore ==
  ASSUME IInv, NEW m, MapCall(3, m), NEW i \in 1 .. Width,
         own' = Put(Exchange(own, Temp(sp), Field(m, i)), Reg, m), rc' = Retain(m),
         UNCHANGED <<kind, cap, orphan, gcLive, drain>>,
         len' \in [Block -> 0 .. Width], Returns(3)
  PROVE  IInv'
<1>1. /\ own[Reg] = Nil
      /\ Temp(sp) \in Slot /\ NotFreed(Temp(sp))
      /\ Field(m, i) \in Slot /\ NotFreed(Field(m, i)) /\ m \in Block
  BY MapOperands
<1>2. PICK f : f = Exchange(own, Temp(sp), Field(m, i))
  OBVIOUS
<1>3. Rearranged(f) /\ KeepsFreeEmpty(f)
  BY <1>1, <1>2, ExchangeKeeps DEF IInv
<1>4. f[Reg] = Nil /\ Reg \in Slot /\ NotFreed(Reg)
  BY <1>1, <1>2, RegApart, RootsNotFreed, SlotFamilies DEF Exchange, IInv, HeapInv, HeapTypeOK
<1>5. PICK s \in Slot : own[s] = m
  <2>1. Operands(3) /\ own[Temp(sp - 3 + 1)] = m
    BY DEF MapCall
  <2>2. sp - 3 + 1 \in 1 .. sp
    BY <2>1, OperandCount
  <2> QED
    BY <2>1, <2>2, InUse
<1>6. own' = Put(f, Reg, own[s]) /\ rc' = Retain(own[s])
  BY <1>2, <1>5
<1>7. cap' \in [Block -> Nat] /\ gcLive' \in Int
  BY DEF IInv, HeapInv, HeapTypeOK
<1>8. HeapInv'
  BY <1>3, <1>4, <1>6, <1>7, CopyStep DEF IInv
<1>9. ControlOK' /\ RegIdle'
  BY ReturnsControl DEF MapCall
<1> QED
  BY <1>8, <1>9 DEF IInv

\* The entries of a map after the one that is removed move down; the entry
\* itself takes the place of the last.
Removal(m, i) ==
  [s \in Slot |->
     IF s \in FieldSlot /\ s[1] = m
       THEN Field(m, IF s[2] < i THEN s[2] ELSE IF s[2] < Width THEN s[2] + 1 ELSE i)
       ELSE s]

Permutes(p) ==
  /\ p \in [Slot -> Slot]
  /\ \A s, t \in Slot : p[s] = p[t] => s = t
  /\ \A t \in Slot : \E s \in Slot : p[s] = t

\* Which slot owns what does not matter to the counts.
LEMMA PermutedRefs ==
  ASSUME NEW p, Permutes(p), NEW f, NEW b
  PROVE  NRefs([s \in Slot |-> f[p[s]]], b) = NRefs(f, b)
<1> DEFINE g == [s \in Slot |-> f[p[s]]]
           S == {s \in Slot : g[s] = b}
           T == {s \in Slot : f[s] = b}
           q == [s \in S |-> p[s]]
<1>1. /\ p \in [Slot -> Slot]
      /\ \A s, t \in Slot : p[s] = p[t] => s = t
      /\ \A t \in Slot : \E s \in Slot : p[s] = t
  BY DEF Permutes
<1>2. \A s \in Slot : g[s] = f[p[s]]
  OBVIOUS
<1>3. IsFiniteSet(S)
  BY SlotFinite, FS_Subset
<1> HIDE DEF g
<1>4. /\ q \in [S -> T]
      /\ \A s, t \in S : q[s] = q[t] => s = t
      /\ \A t \in T : \E s \in S : q[s] = t
  BY <1>1, <1>2
<1>5. q \in Bijection(S, T)
  BY <1>4, Fun_IsBij
<1>6. ExistsBijection(S, T)
  BY <1>5, Fun_ExistsBij
<1>7. Cardinality(T) = Cardinality(S)
  BY <1>3, <1>6, FS_Bijection
<1> QED
  BY <1>7 DEF NRefs, g

\* The shift of the entries is a permutation of the slots.
LEMMA RemovalPermutes ==
  ASSUME NEW m \in Block, NEW i \in 1 .. Width
  PROVE  Permutes(Removal(m, i))
<1> DEFINE p == Removal(m, i)
           At(j) == IF j < i THEN j ELSE IF j < Width THEN j + 1 ELSE i
           From(j) == IF j < i THEN j ELSE IF j = i THEN Width ELSE j - 1
<1>0. Width \in Nat
  BY HeapAssumption DEF HeapAssumption
<1>1. \A j \in 1 .. Width : At(j) \in 1 .. Width /\ From(j) \in 1 .. Width /\ At(From(j)) = j
  BY <1>0
<1>2. \A j, k \in 1 .. Width : At(j) = At(k) => j = k
  BY <1>0
<1>3. \A j \in 1 .. Width : Field(m, j) \in Slot /\ p[Field(m, j)] = Field(m, At(j))
  <2> SUFFICES ASSUME NEW j \in 1 .. Width
               PROVE  Field(m, j) \in Slot /\ p[Field(m, j)] = Field(m, At(j))
    OBVIOUS
  <2>1. Field(m, j) \in Slot /\ Field(m, j) \in FieldSlot
    BY SlotFamilies DEF Field, FieldSlot
  <2>2. Field(m, j)[1] = m /\ Field(m, j)[2] = j
    BY DEF Field
  <2> QED
    BY <2>1, <2>2 DEF Removal
<1>4. \A s \in Slot : \/ p[s] = s /\ \A j \in 1 .. Width : s # Field(m, j)
                      \/ \E j \in 1 .. Width : s = Field(m, j)
  <2> SUFFICES ASSUME NEW s \in Slot
               PROVE  \/ p[s] = s /\ \A j \in 1 .. Width : s # Field(m, j)
                      \/ \E j \in 1 .. Width : s = Field(m, j)
    OBVIOUS
  <2>1. CASE s \in FieldSlot /\ s[1] = m
    BY <2>1 DEF FieldSlot, Field
  <2>2. CASE ~(s \in FieldSlot /\ s[1] = m)
    <3>1. p[s] = s
      BY <2>2 DEF Removal
    <3>2. \A j \in 1 .. Width : s # Field(m, j)
      BY <2>2 DEF FieldSlot, Field
    <3> QED
      BY <3>1, <3>2
  <2> QED
    BY <2>1, <2>2
<1>5. \A j, k : Field(m, j) = Field(m, k) => j = k
  BY DEF Field
<1>6. p = [s \in Slot |-> p[s]]
  BY DEF Removal
<1> HIDE DEF p, At, From
<1>7. p \in [Slot -> Slot]
  <2> SUFFICES ASSUME NEW s \in Slot
               PROVE  p[s] \in Slot
    BY <1>6
  <2> QED
    BY <1>1, <1>3, <1>4
<1>8. \A s, t \in Slot : p[s] = p[t] => s = t
  <2> SUFFICES ASSUME NEW s \in Slot, NEW t \in Slot, p[s] = p[t]
               PROVE  s = t
    OBVIOUS
  <2>1. CASE \E j \in 1 .. Width : s = Field(m, j)
    <3>1. PICK j \in 1 .. Width : s = Field(m, j)
      BY <2>1
    <3>2. p[t] = Field(m, At(j)) /\ At(j) \in 1 .. Width
      BY <1>1, <1>3, <3>1
    <3>3. PICK k \in 1 .. Width : t = Field(m, k)
      BY <1>4, <3>2
    <3>4. At(j) = At(k)
      BY <1>3, <1>5, <3>2, <3>3
    <3> QED
      BY <1>2, <3>1, <3>3, <3>4
  <2>2. CASE \E k \in 1 .. Width : t = Field(m, k)
    <3>1. PICK k \in 1 .. Width : t = Field(m, k)
      BY <2>2
    <3>2. p[s] = Field(m, At(k)) /\ At(k) \in 1 .. Width
      BY <1>1, <1>3, <3>1
    <3>3. \E j \in 1 .. Width : s = Field(m, j)
      BY <1>4, <3>2
    <3> QED
      BY <2>1, <3>3
  <2> QED
    BY <1>4, <2>1, <2>2
<1>9. \A t \in Slot : \E s \in Slot : p[s] = t
  <2> SUFFICES ASSUME NEW t \in Slot
               PROVE  \E s \in Slot : p[s] = t
    OBVIOUS
  <2>1. CASE \E j \in 1 .. Width : t = Field(m, j)
    <3>1. PICK j \in 1 .. Width : t = Field(m, j)
      BY <2>1
    <3>2. From(j) \in 1 .. Width /\ At(From(j)) = j
      BY <1>1
    <3> QED
      BY <1>3, <3>1, <3>2
  <2> QED
    BY <1>4, <2>1
<1>10. Permutes(p)
  BY <1>7, <1>8, <1>9 DEF Permutes
<1> QED
  BY <1>10 DEF p

\* What map_remove leaves in the slots: the value it drops is nowhere, the
\* entries behind it are one place further down.
LEMMA RemovedRefs ==
  ASSUME IInv, NEW m, NEW i, MapCall(2, m), MapRemove(m, i)
  PROVE  /\ i \in 1 .. Width
         /\ own' \in [Slot -> Value]
         /\ \A c \in Block :
              NRefs(own', c) = NRefs(own, c) - (IF own[Field(m, i)] = c THEN 1 ELSE 0)
         /\ \A s \in Slot : s \notin FieldSlot \/ s[1] # m => own'[s] = own[s]
<1>0. Width \in Nat /\ Nil \notin Block
  BY HeapAssumption DEF HeapAssumption
<1>1. /\ m \in Block /\ len[m] \in 0 .. Width /\ i \in 1 .. len[m]
      /\ \A j \in 1 .. Width : Field(m, j) \in Slot /\ own[Field(m, j)] \in Value
  BY MapOperands DEF MapRemove
<1>2. i \in 1 .. Width
  BY <1>0, <1>1
<1>3. own \in [Slot -> Value]
  BY DEF IInv, HeapInv, HeapTypeOK
<1>4. PICK h : h = Put(own, Field(m, i), Nil)
  OBVIOUS
<1>5. /\ h \in [Slot -> Value]
      /\ h[Field(m, i)] = Nil
      /\ \A s \in Slot : s # Field(m, i) => h[s] = own[s]
  BY <1>1, <1>2, <1>3, <1>4 DEF Put, Value
<1>6. own' = [s \in Slot |->
                IF s \in FieldSlot /\ s[1] = m
                  THEN LET n == IF s[2] < i THEN s[2] ELSE s[2] + 1
                       IN  IF n <= Width THEN [j \in 1 .. Width |-> own[Field(m, j)]][n] ELSE Nil
                  ELSE own[s]]
  BY DEF MapRemove
<1>7. \A s \in Slot : own'[s] = h[Removal(m, i)[s]]
  <2> SUFFICES ASSUME NEW s \in Slot
               PROVE  own'[s] = h[Removal(m, i)[s]]
    OBVIOUS
  <2>1. CASE ~(s \in FieldSlot /\ s[1] = m)
    <3>1. s # Field(m, i)
      BY <1>1, <1>2, <2>1 DEF Field, FieldSlot
    <3> QED
      BY <1>5, <1>6, <2>1, <3>1 DEF Removal
  <2>2. CASE s \in FieldSlot /\ s[1] = m
    <3>1. PICK k \in 1 .. Width : s = Field(m, k) /\ s[2] = k
      BY <2>2 DEF FieldSlot, Field
    <3>2. Removal(m, i)[s] = Field(m, IF k < i THEN k ELSE IF k < Width THEN k + 1 ELSE i)
      BY <2>2, <3>1 DEF Removal
    <3>3. own'[s] = LET n == IF k < i THEN k ELSE k + 1
                    IN  IF n <= Width THEN [j \in 1 .. Width |-> own[Field(m, j)]][n] ELSE Nil
      BY <1>6, <2>2, <3>1
    <3>4. \A j \in 1 .. Width : j # i => h[Field(m, j)] = own[Field(m, j)]
      BY <1>1, <1>5 DEF Field
    <3>5. CASE k < i
      BY <1>0, <3>2, <3>3, <3>4, <3>5
    <3>6. CASE k >= i /\ k < Width
      <4>1. k + 1 \in 1 .. Width /\ k + 1 # i
        BY <1>0, <1>2, <3>6
      <4>2. own'[s] = own[Field(m, k + 1)]
        BY <1>0, <1>2, <3>3, <3>6, <4>1
      <4>3. Removal(m, i)[s] = Field(m, k + 1)
        BY <1>2, <3>2, <3>6
      <4> QED
        BY <3>4, <4>1, <4>2, <4>3
    <3>7. CASE k = Width /\ k >= i
      BY <1>0, <1>2, <1>5, <3>2, <3>3, <3>7
    <3> QED
      BY <1>0, <1>2, <3>5, <3>6, <3>7
  <2> QED
    BY <2>1, <2>2
<1>8. own' = [s \in Slot |-> h[Removal(m, i)[s]]]
  BY <1>6, <1>7
<1>9. Permutes(Removal(m, i))
  BY <1>1, <1>2, RemovalPermutes
<1>10. own' \in [Slot -> Value]
  BY <1>5, <1>8, <1>9 DEF Permutes
<1>11. \A c \in Block : NRefs(own', c) = NRefs(own, c) - (IF own[Field(m, i)] = c THEN 1 ELSE 0)
  <2> SUFFICES ASSUME NEW c \in Block
               PROVE  NRefs(own', c) = NRefs(own, c) - (IF own[Field(m, i)] = c THEN 1 ELSE 0)
    OBVIOUS
  <2>1. NRefs(own', c) = NRefs(h, c)
    BY <1>8, <1>9, PermutedRefs
  <2>2. Nil \in Value /\ Field(m, i) \in Slot
    BY <1>1, <1>2 DEF Value
  <2>3. NRefs(Put(own, Field(m, i), Nil), c) =
          NRefs(own, c) - (IF own[Field(m, i)] = c THEN 1 ELSE 0) + (IF Nil = c THEN 1 ELSE 0)
    BY <1>3, <2>2, PutRefs
  <2>4. Nil # c /\ NRefs(own, c) \in Nat
    BY <1>0, NRefsType
  <2> QED
    BY <1>4, <2>1, <2>3, <2>4
<1>12. \A s \in Slot : s \notin FieldSlot \/ s[1] # m => own'[s] = own[s]
  BY <1>6
<1> QED
  BY <1>2, <1>10, <1>11, <1>12

(* map_remove: the reference the entry held is lost, and counted as such.  *)
LEMMA MapRemoveStep ==
  ASSUME IInv, NEW m, NEW i, MapRemove(m, i)
  PROVE  IInv'
<1>0. MapCall(2, m) /\ UNCHANGED <<kind, rc, cap, gcLive, drain>> /\ Returns(2)
  BY DEF MapRemove
<1>1. /\ m \in Block /\ kind[m] = "map" /\ len[m] \in 0 .. Width /\ i \in 1 .. len[m]
      /\ own[Reg] = Nil
  BY <1>0, MapOperands DEF MapRemove
<1>2. /\ i \in 1 .. Width
      /\ own' \in [Slot -> Value]
      /\ \A c \in Block :
           NRefs(own', c) = NRefs(own, c) - (IF own[Field(m, i)] = c THEN 1 ELSE 0)
      /\ \A s \in Slot : s \notin FieldSlot \/ s[1] # m => own'[s] = own[s]
  BY <1>0, RemovedRefs
<1>3. PICK old : old = own[Field(m, i)]
  OBVIOUS
<1>4. orphan' = IF old \in Block THEN [orphan EXCEPT ![old] = @ + 1] ELSE orphan
  BY <1>3 DEF MapRemove
<1>5. len' = [len EXCEPT ![m] = @ - 1]
  BY DEF MapRemove
<1>6. HeapTypeOK'
  <2>1. orphan' \in [Block -> Nat]
    BY <1>4 DEF IInv, HeapInv, HeapTypeOK
  <2>2. len' \in [Block -> 0 .. Width]
    BY <1>1, <1>5, HeapAssumption DEF IInv, HeapInv, HeapTypeOK, HeapAssumption
  <2> QED
    BY <1>0, <1>2, <2>1, <2>2 DEF IInv, HeapInv, HeapTypeOK
<1>7. RefExact'
  <2> SUFFICES ASSUME NEW c \in Block
               PROVE  rc'[c] = NRefs(own', c) + orphan'[c]
    BY DEF RefExact
  <2>1. NRefs(own', c) = NRefs(own, c) - (IF old = c THEN 1 ELSE 0)
    BY <1>2, <1>3
  <2>2. orphan'[c] = IF old = c THEN orphan[c] + 1 ELSE orphan[c]
    BY <1>4 DEF IInv, HeapInv, HeapTypeOK
  <2>3. rc'[c] = NRefs(own, c) + orphan[c]
    BY <1>0 DEF IInv, HeapInv, RefExact
  <2>4. NRefs(own, c) \in Nat /\ orphan[c] \in Nat
    BY NRefsType DEF IInv, HeapInv, HeapTypeOK
  <2> QED
    BY <2>1, <2>2, <2>3, <2>4
<1>8. FreeOwnsNothing'
  <2> SUFFICES ASSUME NEW c \in Block, NEW j \in 1 .. Width, kind'[c] = "free"
               PROVE  own'[Field(c, j)] = Nil
    BY DEF FreeOwnsNothing
  <2>1. kind[c] = "free" /\ c # m
    BY <1>0, <1>1
  <2>2. Field(c, j) \in Slot /\ Field(c, j)[1] # m
    BY <2>1, SlotFamilies DEF Field
  <2> QED
    BY <1>2, <2>1, <2>2 DEF IInv, HeapInv, FreeOwnsNothing
<1>9. FreeIsZero' /\ DrainIsDead' /\ DeadIsDrained'
  BY <1>0 DEF IInv, HeapInv, FreeIsZero, DrainIsDead, DeadIsDrained
<1>10. ControlOK' /\ RegIdle'
  BY <1>0, ReturnsControl DEF MapCall
<1> QED
  BY <1>6, <1>7, <1>8, <1>9, <1>10 DEF IInv, HeapInv

\* The references a fresh array of n values adds: one for the register, one
\* for each copy.
LEMMA SnapshotRefs ==
  ASSUME IInv, own[Reg] = Nil, NEW b \in Block, NEW f, NEW n \in 0 .. Width, Snapshot(b, f, n),
         NEW g, g = [x \in Block |-> Copied(f, n, x)],
         \A i \in 1 .. n : f[i] \in Value /\ (f[i] \in Block => kind[f[i]] # "free")
  PROVE  /\ own' \in [Slot -> Value]
         /\ \A c \in Block : /\ g[c] \in Nat
                             /\ kind[c] = "free" => g[c] = 0
                             /\ NRefs(own', c) = NRefs(own, c) + (IF c = b THEN 1 ELSE 0) + g[c]
         /\ \A s \in Slot : s # Reg /\ (s \notin FieldSlot \/ s[1] # b) => own'[s] = own[s]
<1>0. Width \in Nat /\ Nil \notin Block /\ n \in Nat
  BY HeapAssumption DEF HeapAssumption
<1>1. own \in [Slot -> Value] /\ kind[b] = "free"
  BY DEF IInv, HeapInv, HeapTypeOK, Snapshot, Free
<1>2. /\ \A i \in 1 .. Width : Field(b, i) \in Slot /\ own[Field(b, i)] = Nil
      /\ \A s \in Slot : own[s] # b
      /\ Reg \in Slot
  BY <1>1, SlotFamilies, FreeIsUnreferenced DEF IInv, HeapInv, FreeOwnsNothing
<1>3. own' = [s \in Slot |->
                IF s = Reg THEN b
                ELSE IF s \in FieldSlot /\ s[1] = b /\ s[2] <= n THEN f[s[2]]
                ELSE own[s]]
  BY DEF Snapshot
<1>4. \A s \in FieldSlot : s[1] = b /\ s[2] <= n => s[2] \in 1 .. n
  BY <1>0 DEF FieldSlot
<1>5. own' \in [Slot -> Value]
  BY <1>1, <1>3, <1>4 DEF Value
<1>6. \A s \in Slot : s # Reg /\ (s \notin FieldSlot \/ s[1] # b) => own'[s] = own[s]
  BY <1>3
<1>7. own'[Reg] = b
  BY <1>2, <1>3
<1>8. \A i \in 1 .. n : Field(b, i) \in Slot /\ own'[Field(b, i)] = f[i]
                         /\ own[Field(b, i)] = Nil /\ Field(b, i) # Reg
  <2> SUFFICES ASSUME NEW i \in 1 .. n
               PROVE  Field(b, i) \in Slot /\ own'[Field(b, i)] = f[i]
                      /\ own[Field(b, i)] = Nil /\ Field(b, i) # Reg
    OBVIOUS
  <2>1. i \in 1 .. Width
    BY <1>0
  <2>2. Field(b, i) \in FieldSlot /\ Field(b, i)[1] = b /\ Field(b, i)[2] = i /\ Field(b, i)[2] <= n
    BY <1>0, <2>1 DEF Field, FieldSlot
  <2>3. Field(b, i) \in Slot /\ own[Field(b, i)] = Nil /\ Field(b, i) # Reg
    BY <1>2, <2>1, RegApart
  <2>4. own'[Field(b, i)] = f[Field(b, i)[2]]
    BY <1>3, <2>2, <2>3
  <2> QED
    BY <2>2, <2>3, <2>4
<1>9. \A s \in Slot : \/ s = Reg
                       \/ own'[s] = own[s]
                       \/ \E i \in 1 .. n : s = Field(b, i)
  BY <1>3, <1>4 DEF FieldSlot, Field
<1>10. ASSUME NEW c \in Block
       PROVE  /\ g[c] \in Nat
              /\ kind[c] = "free" => g[c] = 0
              /\ NRefs(own', c) = NRefs(own, c) + (IF c = b THEN 1 ELSE 0) + g[c]
  <2> DEFINE I == {i \in 1 .. n : f[i] = c}
             T == {s \in Slot : \E i \in I : s = Field(b, i)}
             R == IF c = b THEN {Reg} ELSE {}
             O == {s \in Slot : own[s] = c}
             N == {s \in Slot : own'[s] = c}
             q == [i \in I |-> Field(b, i)]
  <2>1. IsFiniteSet(I)
    <3>1. IsFiniteSet(1 .. n)
      BY <1>0, FS_Interval
    <3>2. I \subseteq 1 .. n
      OBVIOUS
    <3> QED
      BY <3>1, <3>2, FS_Subset
  <2>2. Cardinality(I) \in Nat /\ g[c] = Cardinality(I)
    BY <2>1, FS_CardinalityType DEF Copied
  <2>3. kind[c] = "free" => I = {}
    OBVIOUS
  <2>4. kind[c] = "free" => g[c] = 0
    BY <2>2, <2>3, FS_EmptySet
  <2>5. q \in Bijection(I, T)
    <3>1. q \in [I -> T]
      BY <1>8
    <3>2. \A i, j \in I : q[i] = q[j] => i = j
      BY DEF Field
    <3>3. \A t \in T : \E i \in I : q[i] = t
      OBVIOUS
    <3> QED
      BY <3>1, <3>2, <3>3, Fun_IsBij
  <2>6. IsFiniteSet(T) /\ Cardinality(T) = Cardinality(I)
    <3>1. ExistsBijection(I, T)
      BY <2>5, Fun_ExistsBij
    <3> QED
      BY <2>1, <3>1, FS_Bijection
  <2>7. IsFiniteSet(O) /\ NRefs(own, c) = Cardinality(O) /\ NRefs(own, c) \in Nat
    <3>1. IsFiniteSet(O)
      BY SlotFinite, FS_Subset
    <3> QED
      BY <3>1, NRefsType DEF NRefs
  <2>8. IsFiniteSet(R) /\ Cardinality(R) = IF c = b THEN 1 ELSE 0
    BY FS_EmptySet, FS_Singleton
  <2>9. N = (O \cup T) \cup R
    <3>1. \A s \in Slot : own'[s] = c => own[s] = c \/ s \in T \/ s \in R
      BY <1>7, <1>8, <1>9
    <3>2. \A s \in Slot : own[s] = c => own'[s] = c
      <4> SUFFICES ASSUME NEW s \in Slot, own[s] = c, own'[s] # c
                   PROVE  FALSE
        OBVIOUS
      <4>1. s # Reg
        BY <1>0
      <4>2. \A i \in 1 .. n : s # Field(b, i)
        BY <1>0, <1>8
      <4> QED
        BY <1>9, <4>1, <4>2
    <3>3. \A s \in T : s \in Slot /\ own'[s] = c
      BY <1>8
    <3>4. \A s \in R : s \in Slot /\ own'[s] = c
      BY <1>2, <1>7
    <3> QED
      BY <3>1, <3>2, <3>3, <3>4
  <2>10. O \cap T = {} /\ (O \cup T) \cap R = {}
    <3>1. \A s \in T : own[s] = Nil /\ s # Reg
      BY <1>8
    <3>2. Reg \notin O
      BY <1>0
    <3> QED
      BY <1>0, <3>1, <3>2
  <2> HIDE DEF I, T, R, O, N, q
  <2>11. IsFiniteSet(O \cup T) /\ Cardinality(O \cup T) = Cardinality(O) + Cardinality(T)
    BY <2>2, <2>6, <2>7, <2>10, FS_Union, FS_EmptySet
  <2>12. Cardinality((O \cup T) \cup R) = Cardinality(O \cup T) + Cardinality(R)
    <3>1. (O \cup T) \cap R = {} /\ IsFiniteSet(R) /\ IsFiniteSet(O \cup T)
      BY <2>8, <2>10, <2>11
    <3>2. Cardinality(O \cup T) \in Nat /\ Cardinality(R) \in Nat
      BY <3>1, FS_CardinalityType
    <3>3. Cardinality((O \cup T) \cup R)
            = Cardinality(O \cup T) + Cardinality(R) - Cardinality((O \cup T) \cap R)
      BY <3>1, FS_Union
    <3>4. Cardinality((O \cup T) \cap R) = 0
      BY <3>1, FS_EmptySet
    <3> QED
      BY <3>2, <3>3, <3>4
  <2>13. NRefs(own', c) = Cardinality(N)
    BY DEF NRefs, N
  <2> QED
    BY <2>2, <2>4, <2>6, <2>7, <2>8, <2>9, <2>11, <2>12, <2>13
<1> QED
  BY <1>5, <1>6, <1>10

(* map_keys and map_values: every value of the array is counted once more. *)
LEMMA SnapshotStep ==
  ASSUME IInv, own[Reg] = Nil, NEW b \in Block, NEW f, NEW n \in 0 .. Width, Snapshot(b, f, n),
         \A i \in 1 .. n : f[i] \in Value /\ (f[i] \in Block => kind[f[i]] # "free"),
         drain = <<>>, UNCHANGED <<orphan, drain>>
  PROVE  HeapInv'
<1>0. PICK g : g = [x \in Block |-> Copied(f, n, x)]
  OBVIOUS
<1>1. /\ own' \in [Slot -> Value]
      /\ g \in [Block -> Nat]
      /\ \A c \in Block : kind[c] = "free" => g[c] = 0
      /\ \A c \in Block : NRefs(own', c) = NRefs(own, c) + (IF c = b THEN 1 ELSE 0) + g[c]
      /\ \A s \in Slot : s # Reg /\ (s \notin FieldSlot \/ s[1] # b) => own'[s] = own[s]
  <2>1. /\ own' \in [Slot -> Value]
        /\ \A c \in Block : /\ g[c] \in Nat
                            /\ kind[c] = "free" => g[c] = 0
                            /\ NRefs(own', c) = NRefs(own, c) + (IF c = b THEN 1 ELSE 0) + g[c]
        /\ \A s \in Slot : s # Reg /\ (s \notin FieldSlot \/ s[1] # b) => own'[s] = own[s]
    BY <1>0, SnapshotRefs
  <2>2. g \in [Block -> Nat]
    BY <1>0, <2>1
  <2> QED
    BY <2>1, <2>2
<1>2. /\ kind[b] = "free"
      /\ kind' = [kind EXCEPT ![b] = "arr"]
      /\ len' = [len EXCEPT ![b] = n]
      /\ cap' = [cap EXCEPT ![b] = n]
      /\ gcLive' = gcLive + 1 + Buffers(n)
  BY DEF Snapshot, Free
<1>3. /\ own \in [Slot -> Value] /\ rc \in [Block -> Nat] /\ kind \in [Block -> Kind]
      /\ len \in [Block -> 0 .. Width] /\ cap \in [Block -> Nat] /\ gcLive \in Int
      /\ n \in Nat
  BY HeapAssumption DEF IInv, HeapInv, HeapTypeOK, HeapAssumption
<1>4. NRefs(own, b) = 0 /\ orphan[b] = 0
  BY <1>2, FreeIsUnreferenced DEF IInv
<1>5. rc' = [x \in Block |-> (IF x = b THEN 1 ELSE rc[x]) + g[x]]
  BY <1>0 DEF Snapshot
<1>6. HeapTypeOK'
  <2>1. rc' \in [Block -> Nat]
    BY <1>1, <1>3, <1>5
  <2>2. kind' \in [Block -> Kind] /\ len' \in [Block -> 0 .. Width] /\ cap' \in [Block -> Nat]
    BY <1>2, <1>3 DEF Kind
  <2>3. gcLive' \in Int
    BY <1>2, <1>3 DEF Buffers
  <2> QED
    BY <1>1, <2>1, <2>2, <2>3 DEF IInv, HeapInv, HeapTypeOK
<1>7. RefExact'
  <2> SUFFICES ASSUME NEW c \in Block
               PROVE  rc'[c] = NRefs(own', c) + orphan'[c]
    BY DEF RefExact
  <2>1. rc[c] = NRefs(own, c) + orphan[c]
    BY DEF IInv, HeapInv, RefExact
  <2>2. NRefs(own, c) \in Nat /\ orphan[c] \in Nat
    BY NRefsType DEF IInv, HeapInv, HeapTypeOK
  <2> QED
    BY <1>1, <1>4, <1>5, <2>1, <2>2
<1>8. FreeIsZero'
  <2> SUFFICES ASSUME NEW c \in Block, kind'[c] = "free"
               PROVE  rc'[c] = 0
    BY DEF FreeIsZero
  <2>1. c # b /\ kind[c] = "free"
    BY <1>2, <1>3
  <2>2. rc[c] = 0
    BY <2>1 DEF IInv, HeapInv, FreeIsZero
  <2> QED
    BY <1>1, <1>5, <2>1, <2>2
<1>9. FreeOwnsNothing'
  <2> SUFFICES ASSUME NEW c \in Block, NEW j \in 1 .. Width, kind'[c] = "free"
               PROVE  own'[Field(c, j)] = Nil
    BY DEF FreeOwnsNothing
  <2>1. c # b /\ kind[c] = "free"
    BY <1>2, <1>3
  <2>2. Field(c, j) \in Slot /\ Field(c, j)[1] # b /\ Field(c, j) # Reg
    BY <2>1, SlotFamilies, RegApart DEF Field
  <2> QED
    BY <1>1, <2>1, <2>2 DEF IInv, HeapInv, FreeOwnsNothing
<1>10. DrainIsDead'
  BY EmptySeq DEF DrainIsDead
<1>11. DeadIsDrained'
  <2> SUFFICES ASSUME NEW c \in Block, kind'[c] # "free", rc'[c] = 0
               PROVE  FALSE
    BY DEF DeadIsDrained, Live
  <2>1. c # b /\ rc[c] = 0 /\ kind[c] # "free"
    BY <1>1, <1>2, <1>3, <1>5
  <2> QED
    BY <2>1, EmptySeq DEF IInv, HeapInv, DeadIsDrained, Live
<1> QED
  BY <1>6, <1>7, <1>8, <1>9, <1>10, <1>11 DEF HeapInv

LEMMA MapSnapshotStep ==
  ASSUME IInv, KeysLive, NEW m, NEW b \in Block, MapSnapshot(m, b)
  PROVE  IInv'
<1>1. MapCall(1, m) /\ UNCHANGED <<orphan, drain>> /\ Returns(1)
  BY DEF MapSnapshot
<1>2. /\ own[Reg] = Nil /\ drain = <<>> /\ m \in Block
      /\ \A i \in 1 .. Width : Field(m, i) \in Slot /\ own[Field(m, i)] \in Value
      /\ len[m] \in 0 .. Width /\ Width \in Nat
  BY <1>1, MapOperands, HeapAssumption DEF HeapAssumption
<1>3. \A i \in 1 .. len[m] : i \in 1 .. Width
  BY <1>2
<1>4. PICK f : /\ \/ KeysRead(m) /\ f = keyOf[m]
                  \/ f = [i \in 1 .. Width |-> own[Field(m, i)]]
               /\ Snapshot(b, f, len[m])
  BY DEF MapSnapshot
<1>5. \A i \in 1 .. len[m] : f[i] \in Value /\ (f[i] \in Block => kind[f[i]] # "free")
  <2>1. CASE KeysRead(m) /\ f = keyOf[m]
    BY <1>2, <1>3, <2>1 DEF KeysRead, KeysLive
  <2>2. CASE f = [i \in 1 .. Width |-> own[Field(m, i)]]
    BY <1>2, <1>3, <2>2, OwnedIsLive DEF IInv
  <2> QED
    BY <1>4, <2>1, <2>2
<1>6. HeapInv'
  BY <1>1, <1>2, <1>4, <1>5, SnapshotStep
<1>7. ControlOK' /\ RegIdle'
  BY <1>1, <1>2, ReturnsControl DEF MapCall
<1> QED
  BY <1>6, <1>7 DEF IInv

\* map_new.
LEMMA MapNewStep ==
  ASSUME IInv, NEW b \in Block, MapNew(b)
  PROVE  IInv'
<1>1. /\ Alloc(b, "map", 0) /\ own' = Put(own, Reg, b) /\ gcLive' = gcLive + 1
      /\ UNCHANGED <<cap, orphan, drain>> /\ Returns(0) /\ todo = Idle
  BY DEF MapNew, Ready
<1>2. own[Reg] = Nil
  BY <1>1, RegIsNil DEF Idle
<1>3. "map" \in Kind \ {"free"} /\ 0 \in 0 .. Width
  BY HeapAssumption DEF Kind, HeapAssumption
<1>4. HeapInv'
  BY <1>1, <1>2, <1>3, ResultAlloc
<1>5. sp' \in 0 .. MaxTemp
  BY <1>1, HeapAssumption DEF Returns, IInv, ControlOK, HeapAssumption
<1>6. todo' \in [op : {"none", "result", "fill", "load", "bind"}, n : 0 .. Width]
      /\ todo'.op = "result"
  BY <1>1, HeapAssumption DEF Returns, Result, HeapAssumption
<1> QED
  BY <1>1, <1>4, <1>5, <1>6 DEF Returns, ctl, IInv, ControlOK, RegIdle

\* `each` over a map begins and asks for the next key.
LEMMA EachMapStep ==
  ASSUME IInv, KeysLive
  PROVE  /\ \A c \in Block : BeginEachMap(c) => IInv'
         /\ EachKey => IInv'
<1>0. /\ depth \in 0 .. MaxDepth /\ MaxDepth \in Nat /\ sp \in 0 .. MaxTemp
      /\ MaxTemp \in Nat /\ Width \in Nat
  BY HeapAssumption DEF IInv, ControlOK, HeapAssumption
<1>1. ASSUME NEW c \in Block, BeginEachMap(c) PROVE IInv'
  <2>1. sp = 1 /\ depth + 1 < MaxDepth /\ NewCell(depth + 1, CollName, c)
    BY <1>1 DEF BeginEachMap, Evaluated
  <2>2. depth + 1 \in 1 .. MaxDepth /\ sp \in 1 .. sp
    BY <1>0, <2>1
  <2>3. HeapInv' /\ own'[Reg] = own[Reg]
    BY <1>0, <2>1, <2>2, NewCellStep DEF LocalName
  <2>4. Top \in Block /\ Top \in Value
    BY <1>1 DEF BeginEachMap, IsKind, Value
  <2>5. len[Top] \in 0 .. Width
    BY <1>0, <2>4 DEF IInv, HeapInv, HeapTypeOK
  <2>6. [coll |-> Top, idx |-> 0, n |-> len[Top], d |-> depth + 1] \in EachLoop
    BY <1>0, <2>2, <2>4, <2>5 DEF EachLoop
  <2>7. fe' \in Seq(EachLoop)
    BY <1>0, <1>1, <2>6, AppendProperties DEF BeginEachMap, IInv, ControlOK
  <2>8. sp' \in 0 .. MaxTemp /\ depth' \in 0 .. MaxDepth /\ target' \in 0 .. MaxDepth
    BY <1>0, <1>1, <2>1, <2>2 DEF BeginEachMap
  <2> QED
    BY <1>0, <1>1, <2>3, <2>7, <2>8 DEF BeginEachMap, IInv, ControlOK, RegIdle
<1>2. ASSUME EachKey PROVE IInv'
  <2>1. fe # <<>> /\ InnerEach.idx < InnerEach.n /\ todo = Idle /\ Settled /\ sp < MaxTemp
    BY <1>2 DEF EachKey, AtCond, AtEachCond
  <2>2. PICK m, i : m = InnerEach.coll /\ i = InnerEach.idx + 1
    OBVIOUS
  <2>3. InnerEach \in EachLoop /\ i \in 1 .. Width
    <3>1. InnerEach \in EachLoop
      BY <1>0, <2>1, InnerEachType
    <3> QED
      BY <1>0, <2>1, <2>2, <3>1 DEF EachLoop
  <2>4. m \in Block
    BY <1>2, <2>2 DEF EachKey, IsKind
  <2>5. PICK k : /\ k = KeyAt(m, i) /\ k # Gone
                 /\ own' = Put(own, Temp(sp + 1), k) /\ rc' = Retain(k)
    BY <1>2, <2>2 DEF EachKey
  <2>6. k \in Value /\ (k \in Block => kind[k] # "free")
    <3>1. keyOf[m][i] \in Value \cup {Gone} /\ (keyOf[m][i] \in Block => kind[keyOf[m][i]] # "free")
      BY <2>3, <2>4 DEF KeysLive
    <3>2. Nil \in Value /\ Nil \notin Block
      BY HeapAssumption DEF Value, HeapAssumption
    <3>3. k = keyOf[m][i] \/ k = Nil
      BY <2>5 DEF KeyAt
    <3> QED
      BY <2>5, <3>1, <3>2, <3>3
  <2>7. sp + 1 \in sp + 1 .. MaxTemp
    BY <1>0, <2>1
  <2>8. own[Temp(sp + 1)] = Nil /\ Temp(sp + 1) \in Slot /\ NotFreed(Temp(sp + 1))
    BY <1>0, <2>1, <2>7, AboveIsNil, RootsNotFreed
  <2>9. drain = <<>>
    BY <2>1 DEF Settled
  <2>10. k \in Block => kind[k] # "free" /\ rc[k] >= 1 /\ \A x \in 1 .. Len(drain) : drain[x] # k
    <3>1. SUFFICES ASSUME k \in Block
                   PROVE  rc[k] # 0 /\ rc[k] \in Nat /\ Len(drain) = 0
      BY <2>6
    <3> QED
      BY <2>6, <2>9, <3>1, EmptySeq DEF IInv, HeapInv, HeapTypeOK, DeadIsDrained, Live
  <2>11. HeapInv'
    <3>1. Rearranged(own) /\ KeepsFreeEmpty(own)
      BY DEF Rearranged, KeepsFreeEmpty, IInv, HeapInv, HeapTypeOK, FreeOwnsNothing
    <3>2. UNCHANGED <<kind, len, cap, orphan, gcLive, drain>>
      BY <1>2 DEF EachKey
    <3>3. len' \in [Block -> 0 .. Width] /\ cap' \in [Block -> Nat] /\ gcLive' \in Int
      BY <3>2 DEF IInv, HeapInv, HeapTypeOK
    <3> QED
      BY <2>5, <2>6, <2>8, <2>10, <3>1, <3>2, <3>3, CountedStep DEF IInv
  <2>12. PICK n, e : n = Len(fe) /\ e = [InnerEach EXCEPT !.idx = @ + 1]
    OBVIOUS
  <2>13. n \in 1 .. Len(fe) /\ e \in EachLoop
    <3>1. n \in 1 .. Len(fe)
      BY <1>0, <2>1, <2>12, InnerEachType
    <3>2. InnerEach.idx + 1 \in 0 .. Width
      BY <1>0, <2>2, <2>3
    <3> QED
      BY <2>3, <2>12, <3>1, <3>2 DEF EachLoop
  <2>14. fe' = [fe EXCEPT ![n] = e]
    BY <1>2, <2>12 DEF EachKey, InnerEach
  <2>15. fe' \in Seq(EachLoop)
    BY <1>0, <2>13, <2>14, ExceptSeq DEF IInv, ControlOK
  <2>16. sp' \in 0 .. MaxTemp /\ depth' \in 0 .. MaxDepth /\ target' \in 0 .. MaxDepth
    BY <1>0, <1>2 DEF EachKey
  <2>17. todo' \in [op : {"none", "result", "fill", "load", "bind"}, n : 0 .. Width]
    BY <1>0, <1>2 DEF EachKey, Binding
  <2>18. own'[Reg] = Nil
    BY <1>0, <2>1, <2>5, RegIsNil, RegApart, SlotFamilies DEF Idle, Put, Reg, Temp, IInv, HeapInv, HeapTypeOK
  <2> QED
    BY <1>0, <1>2, <2>11, <2>15, <2>16, <2>17, <2>18 DEF EachKey, IInv, ControlOK, RegIdle
<1> QED
  BY <1>1, <1>2

(* The invariant is inductive.                                             *)
LEMMA MapStep ==
  ASSUME MapInv, [MapNext]_mapVars
  PROVE  MapInv'
<1> SUFFICES ASSUME ~spoiled'
             PROVE  IInv' /\ KeysLive'
  BY DEF MapInv
<1>0. ~spoiled /\ IInv /\ KeysLive
  <2>1. ~spoiled
    BY SpoiledStays
  <2> QED
    BY <2>1 DEF MapInv
<1>1. CASE UNCHANGED mapVars
  <2>1. keyOf' = keyOf /\ kind' = kind /\ UNCHANGED vars
    BY <1>1 DEF mapVars, vars, heap
  <2> QED
    BY <1>0, <2>1, NextInv, KeysSame
<1>2. CASE OtherStep
  <2>1. IInv'
    BY <1>0, <1>2, NextInv DEF OtherStep
  <2>2. KeysLive'
    BY <1>0, <1>2, MapAssumption DEF OtherStep, StepKeys, KeysLive, MapAssumption, Value
  <2> QED
    BY <2>1, <2>2
<1>3. ASSUME NEW b \in Block, MapNew(b) PROVE IInv' /\ KeysLive'
  <2>1. /\ kind' = [kind EXCEPT ![b] = "map"]
        /\ keyOf' = [keyOf EXCEPT ![b] = NoKeys]
    BY <1>3 DEF MapNew, Alloc
  <2>2. kind \in [Block -> Kind] /\ Nil \in Value /\ Nil \notin Block
    BY <1>0, HeapAssumption DEF IInv, HeapInv, HeapTypeOK, Value, HeapAssumption
  <2>3. \A c \in Block : kind[c] # "free" => kind'[c] # "free"
    BY <2>1, <2>2
  <2>4. keyOf' \in [Block -> [1 .. Width -> Value \cup {Gone}]]
    BY <1>0, <2>1, <2>2 DEF KeysLive, NoKeys
  <2>5. \A m \in Block, i \in 1 .. Width : keyOf'[m][i] \in Block => kind[keyOf'[m][i]] # "free"
    BY <1>0, <2>1, <2>2 DEF KeysLive, NoKeys
  <2>6. KeysLive'
    BY <1>0, <2>3, <2>4, <2>5, KeysKept
  <2> QED
    BY <1>0, <1>3, <2>6, MapNewStep
<1>4. ASSUME NEW m \in Block, MapInsert(m) PROVE IInv' /\ KeysLive'
  <2>1. PICK i, k : i = len[m] + 1 /\ k = own[Temp(sp - 1)]
    OBVIOUS
  <2>2. /\ MapCall(3, m) /\ i <= Width /\ ValidKey(k)
        /\ own' = Put(Exchange(own, Temp(sp), Field(m, i)), Reg, m)
        /\ len' = [len EXCEPT ![m] = i]
        /\ keyOf' = [keyOf EXCEPT ![m][i] = k]
        /\ rc' = Retain(m)
        /\ UNCHANGED <<kind, cap, orphan, gcLive, drain>>
        /\ Returns(3)
    BY <1>4, <2>1 DEF MapInsert
  <2>3. len[m] \in 0 .. Width
    BY <1>0, <2>2, MapOperands
  <2>4. i \in 1 .. Width
    BY <2>1, <2>2, <2>3, HeapAssumption DEF HeapAssumption
  <2>5. len' \in [Block -> 0 .. Width]
    BY <1>0, <2>2, <2>4, HeapAssumption DEF IInv, HeapInv, HeapTypeOK, HeapAssumption
  <2>6. IInv'
    BY <1>0, <2>2, <2>4, <2>5, MapStore
  <2>7. k \in Value /\ (k \in Block => kind[k] # "free")
    BY <2>2, HeapAssumption DEF ValidKey, IsKind, Value, HeapAssumption
  <2>8. keyOf' \in [Block -> [1 .. Width -> Value \cup {Gone}]]
    BY <1>0, <2>2, <2>7 DEF KeysLive
  <2>9. \A c \in Block, j \in 1 .. Width : keyOf'[c][j] \in Block => kind[keyOf'[c][j]] # "free"
    BY <1>0, <2>2, <2>7 DEF KeysLive
  <2>10. KeysLive'
    BY <1>0, <2>2, <2>8, <2>9, KeysKept
  <2> QED
    BY <2>6, <2>10
<1>5. ASSUME NEW m \in Block, NEW i \in 1 .. Width, MapOverwrite(m, i) PROVE IInv' /\ KeysLive'
  <2>1. /\ MapCall(3, m)
        /\ own' = Put(Exchange(own, Temp(sp), Field(m, i)), Reg, m)
        /\ rc' = Retain(m)
        /\ UNCHANGED <<kind, len, cap, orphan, gcLive, drain, keyOf>>
        /\ Returns(3)
    BY <1>5 DEF MapOverwrite
  <2>2. len' \in [Block -> 0 .. Width]
    BY <1>0, <2>1 DEF IInv, HeapInv, HeapTypeOK
  <2> QED
    BY <1>0, <2>1, <2>2, MapStore, KeysSame
<1>6. ASSUME NEW m \in Block, NEW i \in 1 .. Width, MapGet(m, i) PROVE IInv' /\ KeysLive'
  <2>1. /\ MapCall(2, m)
        /\ own' = Put(own, Reg, own[Field(m, i)])
        /\ rc' = Retain(own[Field(m, i)])
        /\ UNCHANGED <<kind, len, cap, orphan, gcLive, drain, keyOf>>
        /\ Returns(2)
    BY <1>6 DEF MapGet
  <2>2. own[Reg] = Nil /\ Field(m, i) \in Slot
    BY <1>0, <2>1, MapOperands
  <2>3. HeapInv'
    BY <1>0, <2>1, <2>2, ResultCopy
  <2>4. ControlOK' /\ RegIdle'
    BY <1>0, <2>1, ReturnsControl DEF MapCall
  <2> QED
    BY <1>0, <2>1, <2>3, <2>4, KeysSame DEF IInv
<1>7. ASSUME NEW m \in Block, NEW i \in 1 .. Width, MapRemove(m, i) PROVE IInv' /\ KeysLive'
  <2>1. PICK Shifted : Shifted = [j \in 1 .. Width |->
          LET n == IF j < i THEN j ELSE j + 1 IN IF n <= Width THEN keyOf[m][n] ELSE Nil]
    OBVIOUS
  <2>2. keyOf' = [keyOf EXCEPT ![m] = Shifted] /\ kind' = kind
    BY <1>7, <2>1 DEF MapRemove
  <2>3. Width \in Nat /\ Nil \in Value /\ Nil \notin Block
    BY HeapAssumption DEF HeapAssumption, Value
  <2>4. \A j \in 1 .. Width : \/ Shifted[j] = Nil
                              \/ \E n \in 1 .. Width : Shifted[j] = keyOf[m][n]
    BY <2>1, <2>3
  <2>5. Shifted \in [1 .. Width -> Value \cup {Gone}]
    <3>1. \A j \in 1 .. Width : Shifted[j] \in Value \cup {Gone}
      BY <1>0, <2>3, <2>4 DEF KeysLive
    <3> QED
      BY <2>1, <3>1
  <2>6. keyOf' \in [Block -> [1 .. Width -> Value \cup {Gone}]]
    BY <1>0, <2>2, <2>5 DEF KeysLive
  <2>7. \A c \in Block, j \in 1 .. Width : keyOf'[c][j] \in Block => kind[keyOf'[c][j]] # "free"
    BY <1>0, <2>2, <2>3, <2>4 DEF KeysLive
  <2>8. KeysLive'
    BY <1>0, <2>2, <2>6, <2>7, KeysKept
  <2> QED
    BY <1>0, <1>7, <2>8, MapRemoveStep
<1>8. ASSUME NEW m \in Block, NEW b \in Block, MapSnapshot(m, b) PROVE IInv' /\ KeysLive'
  <2>1. kind' = [kind EXCEPT ![b] = "arr"] /\ keyOf' = keyOf
    BY <1>8 DEF MapSnapshot, Snapshot
  <2>2. kind \in [Block -> Kind]
    BY <1>0 DEF IInv, HeapInv, HeapTypeOK
  <2> QED
    BY <1>0, <1>8, <2>1, <2>2, MapSnapshotStep, KeysSame
<1>9. ASSUME NEW c \in Block, BeginEachMap(c) PROVE IInv' /\ KeysLive'
  <2>1. kind' = [kind EXCEPT ![c] = "cell"] /\ keyOf' = keyOf
    BY <1>9 DEF BeginEachMap, NewCell, Alloc
  <2>2. kind \in [Block -> Kind]
    BY <1>0 DEF IInv, HeapInv, HeapTypeOK
  <2> QED
    BY <1>0, <1>9, <2>1, <2>2, EachMapStep, KeysSame
<1>10. CASE EachKey
  <2>1. kind' = kind /\ keyOf' = keyOf
    BY <1>10 DEF EachKey
  <2> QED
    BY <1>0, <1>10, <2>1, EachMapStep, KeysSame
<1>11. CASE Spoiling
  BY <1>11 DEF Spoiling, ReleaseKey, TouchKey, EachGoneKey
<1> QED
  BY <1>0, <1>1, <1>2, <1>3, <1>4, <1>5, <1>6, <1>7, <1>8, <1>9, <1>10, <1>11
     DEF MapNext, MapOperation

(* Every step counts what it allocates: a map, the array of its keys or    *)
(* values with its buffer, the cell of an each loop.                       *)
LEMMA MapWeight ==
  ASSUME IInv, KeysLive, LiveInv, [MapNext]_mapVars, ~spoiled'
  PROVE  LiveInv'
<1>0. HeapTypeOK /\ ~spoiled
  BY SpoiledStays DEF IInv, HeapInv
<1>1. CASE UNCHANGED mapVars
  BY <1>1, WeightStutter DEF mapVars, vars, heap
<1>2. CASE OtherStep
  BY <1>0, <1>2, ReleasingWeight, ExpressionWeight, StatementWeight, WeightStutter
     DEF OtherStep, Next, Stopped, vars, heap
<1>3. ASSUME NEW b \in Block, MapNew(b) PROVE LiveInv'
  BY <1>0, <1>3, AllocPlain DEF MapNew, Kind
<1>4. ASSUME NEW m \in Block, MapInsert(m) PROVE LiveInv'
  BY <1>4, WeightStutter DEF MapInsert
<1>5. ASSUME NEW m \in Block, NEW i \in 1 .. Width,
             MapOverwrite(m, i) \/ MapGet(m, i) \/ MapRemove(m, i)
      PROVE  LiveInv'
  BY <1>5, WeightStutter DEF MapOverwrite, MapGet, MapRemove
<1>6. ASSUME NEW m \in Block, NEW b \in Block, MapSnapshot(m, b) PROVE LiveInv'
  <2>1. /\ kind[b] = "free"
        /\ kind' = [kind EXCEPT ![b] = "arr"]
        /\ cap' = [cap EXCEPT ![b] = len[m]]
        /\ gcLive' = gcLive + 1 + Buffers(len[m])
    BY <1>6 DEF MapSnapshot, Snapshot, Free
  <2>2. MapCall(1, m)
    BY <1>6 DEF MapSnapshot
  <2>3. len[m] \in 0 .. Width
    BY <1>0, <2>2, MapOperands
  <2>4. len[m] \in Nat /\ "arr" \in Kind /\ gcLive \in Int
    BY <1>0, <2>3, HeapAssumption DEF HeapAssumption, Kind, HeapTypeOK
  <2>5. Weight(b) = 0
    BY <2>1 DEF Weight, Buffered, Live
  <2>6. gcLive' = gcLive - Weight(b) + (IF "arr" # "free" THEN 1 ELSE 0) + Buffers(len[m])
    BY <2>1, <2>4, <2>5 DEF Buffers
  <2> QED
    BY <1>0, <2>1, <2>4, <2>6, WeightStep
<1>7. ASSUME NEW c \in Block, BeginEachMap(c) PROVE LiveInv'
  <2>1. NewCell(depth + 1, CollName, c)
    BY <1>7 DEF BeginEachMap
  <2> QED
    BY <1>0, <2>1, AllocPlain DEF NewCell, Kind
<1>8. CASE EachKey
  BY <1>8, WeightStutter DEF EachKey
<1>9. ~Spoiling
  BY DEF Spoiling, ReleaseKey, TouchKey, EachGoneKey
<1> QED
  BY <1>0, <1>1, <1>2, <1>3, <1>4, <1>5, <1>6, <1>7, <1>8, <1>9 DEF MapNext, MapOperation

\* Every header is the number of references, also of those the map overwrites
\* or copies into arrays; what map_remove forgets to release is lost.
LEMMA MapRefsExact == MapSpec => [](~spoiled => RefExact)
<1>1. MapInit => MapInv
  BY MapStart DEF MapInv
<1>2. MapInv /\ [MapNext]_mapVars => MapInv'
  BY MapStep
<1>3. MapInv => (~spoiled => RefExact)
  BY DEF MapInv, IInv, HeapInv
<1> QED
  BY <1>1, <1>2, <1>3, PTL DEF MapSpec

(* So is verb_gc_live: a map, what it is copied into and the cell of the   *)
(* loop over it are each counted once, and no call that only moves values  *)
(* in and out of a map counts anything.                                    *)
LEMMA MapLeaksCountExact == MapSpec => [](~spoiled => LiveCountExact)
<1> DEFINE Inv == MapInv /\ (~spoiled => LiveInv)
<1>1. MapInit => Inv
  BY MapStart, LiveInit DEF MapInit, MapInv
<1>2. Inv /\ [MapNext]_mapVars => Inv'
  <2> SUFFICES ASSUME Inv, [MapNext]_mapVars
               PROVE  Inv'
    OBVIOUS
  <2>1. MapInv'
    BY MapStep
  <2>2. ASSUME ~spoiled' PROVE LiveInv'
    <3>1. ~spoiled
      BY <2>2, SpoiledStays
    <3> QED
      BY <2>2, <3>1, MapWeight DEF MapInv
  <2> QED
    BY <2>1, <2>2
<1>3. Inv => (~spoiled => LiveCountExact)
  BY DEF LiveInv
<1> QED
  BY <1>1, <1>2, <1>3, PTL DEF MapSpec

(* The map functions of the standard library keep every count exact, those *)
(* the map releases, overwrites or copies into arrays included, whatever   *)
(* the keys are: until a map has released a key it never owned, or one     *)
(* that was freed has been read, what map_remove forgets to release is the *)
(* only reference that is lost.                                            *)
THEOREM MapsCountExact == MapSpec => []MapCountsExact
<1>1. (~spoiled => RefExact) /\ (~spoiled => LiveCountExact) => MapCountsExact
  BY DEF MapCountsExact
<1> QED
  BY <1>1, MapRefsExact, MapLeaksCountExact, PTL
=============================================================================
