--------------------------- MODULE VerbHeapProofs ---------------------------
(***************************************************************************)
(* Facts about reference counting that every machine over VerbHeap needs:  *)
(* how overwriting a slot, or exchanging two, changes the number of        *)
(* references to a block, and what the counts say about liveness.          *)
(***************************************************************************)
EXTENDS VerbHeap, FiniteSetTheorems, SequenceTheorems, TLAPS

\* A freed block owns nothing.
FreeOwnsNothing ==
  \A b \in Block, i \in 1 .. Width : kind[b] = "free" => own[Field(b, i)] = Nil

\* A freed block's refcount word is zero.
FreeIsZero == \A b \in Block : kind[b] = "free" => rc[b] = 0

\* The cascade works on live blocks nobody references, each of them once.
DrainIsDead ==
  /\ \A i \in 1 .. Len(drain) : kind[drain[i]] # "free" /\ rc[drain[i]] = 0
  /\ \A i, j \in 1 .. Len(drain) : drain[i] = drain[j] => i = j

\* A live block with no reference is one the cascade works on.
DeadIsDrained ==
  \A b \in Block : kind[b] # "free" /\ rc[b] = 0 => \E i \in 1 .. Len(drain) : drain[i] = b

\* The inductive invariant of the heap.
HeapInv ==
  /\ HeapTypeOK
  /\ RefExact
  /\ FreeIsZero
  /\ FreeOwnsNothing
  /\ DrainIsDead
  /\ DeadIsDrained

(***************************************************************************)
(* Slots.                                                                  *)
(***************************************************************************)

(* There are finitely many slots, so references can be counted.            *)
LEMMA SlotFinite == IsFiniteSet(Slot)
<1>1. IsFiniteSet(1 .. Width) /\ IsFiniteSet(1 .. MaxTemp) /\ IsFiniteSet(1 .. MaxDepth)
  BY HeapAssumption, FS_Interval DEF HeapAssumption
<1>2. IsFiniteSet({"temp"}) /\ IsFiniteSet({"glob"}) /\ IsFiniteSet({"scope"})
        /\ IsFiniteSet({Reg}) /\ IsFiniteSet({CollName})
  BY FS_Singleton
<1>3. IsFiniteSet(Block) /\ IsFiniteSet(Name)
  BY HeapAssumption DEF HeapAssumption
<1>4. IsFiniteSet(LocalName)
  BY <1>2, <1>3, FS_Union DEF LocalName
<1>5. IsFiniteSet(FieldSlot)
  BY <1>1, <1>3, FS_Product DEF FieldSlot
<1>6. IsFiniteSet({"temp"} \X (1 .. MaxTemp)) /\ IsFiniteSet({"glob"} \X Name)
  BY <1>1, <1>2, <1>3, FS_Product
<1>7. IsFiniteSet((1 .. MaxDepth) \X LocalName)
  BY <1>1, <1>4, FS_Product
<1>8. IsFiniteSet({"scope"} \X ((1 .. MaxDepth) \X LocalName))
  BY <1>2, <1>7, FS_Product
<1>9. IsFiniteSet(({"temp"} \X (1 .. MaxTemp)) \cup {Reg})
  BY <1>2, <1>6, FS_Union
<1>10. IsFiniteSet((({"temp"} \X (1 .. MaxTemp)) \cup {Reg}) \cup ({"glob"} \X Name))
  BY <1>6, <1>9, FS_Union
<1>11. IsFiniteSet(RootSlot)
  BY <1>8, <1>10, FS_Union DEF RootSlot
<1> QED
  BY <1>5, <1>11, FS_Union DEF Slot

(* The slots of a block, of the temporaries, of the globals and of the     *)
(* scopes are slots, and the families do not overlap.                      *)
LEMMA SlotFamilies ==
  /\ \A b \in Block, i \in 1 .. Width : Field(b, i) \in Slot
  /\ \A i \in 1 .. MaxTemp : Temp(i) \in Slot
  /\ Reg \in Slot
  /\ \A x \in Name : Glob(x) \in Slot
  /\ \A d \in 1 .. MaxDepth, x \in LocalName : Local(d, x) \in Slot
BY DEF Slot, FieldSlot, RootSlot, Field, Temp, Reg, Glob, Local

(* No field of a block is one of the roots.                                *)
LEMMA FieldNotRoot ==
  \A b \in Block : \A i, j : /\ Field(b, i) # Temp(j)
                             /\ Field(b, i) # Reg
                             /\ Field(b, i) # Glob(j)
                             /\ \A x : Field(b, i) # Local(j, x)
BY HeapAssumption DEF HeapAssumption, Field, Temp, Reg, Glob, Local

(* The number of references to a block is a natural number.                *)
LEMMA NRefsType ==
  ASSUME NEW f, NEW b
  PROVE  NRefs(f, b) \in Nat
<1>1. {s \in Slot : f[s] = b} \in SUBSET Slot
  OBVIOUS
<1>2. IsFiniteSet({s \in Slot : f[s] = b})
  BY <1>1, SlotFinite, FS_Subset
<1> QED
  BY <1>2, FS_CardinalityType DEF NRefs

(* A block some slot owns has a reference.                                 *)
LEMMA NRefsPositive ==
  ASSUME NEW f, NEW s \in Slot
  PROVE  NRefs(f, f[s]) >= 1
<1> DEFINE R == {t \in Slot : f[t] = f[s]}
<1>1. R \in SUBSET Slot /\ s \in R
  OBVIOUS
<1>2. IsFiniteSet(R)
  BY <1>1, SlotFinite, FS_Subset
<1>3. Cardinality(R) # 0
  BY <1>1, <1>2, FS_EmptySet
<1>4. Cardinality(R) \in Nat
  BY <1>2, FS_CardinalityType
<1> QED
  BY <1>3, <1>4 DEF NRefs

(* A block no slot owns has none.                                          *)
LEMMA NRefsZero ==
  ASSUME NEW f, NEW b, NRefs(f, b) = 0, NEW s \in Slot
  PROVE  f[s] # b
BY NRefsPositive

(* Overwriting a slot takes one reference from its old value and gives one *)
(* to its new value.                                                       *)
LEMMA PutRefs ==
  ASSUME NEW f \in [Slot -> Value], NEW s \in Slot, NEW v \in Value, NEW b \in Block
  PROVE  /\ Put(f, s, v) \in [Slot -> Value]
         /\ NRefs(Put(f, s, v), b) =
              NRefs(f, b) - (IF f[s] = b THEN 1 ELSE 0) + (IF v = b THEN 1 ELSE 0)
<1> DEFINE F == {t \in Slot : f[t] = b}
           G == {t \in Slot : Put(f, s, v)[t] = b}
<1>1. Put(f, s, v) \in [Slot -> Value]
  BY DEF Put
<1>2. \A t \in Slot : Put(f, s, v)[t] = IF t = s THEN v ELSE f[t]
  BY DEF Put
<1>3. IsFiniteSet(F) /\ Cardinality(F) \in Nat
  <2>1. F \in SUBSET Slot
    OBVIOUS
  <2> QED
    BY <2>1, SlotFinite, FS_Subset, FS_CardinalityType
<1>4. IsFiniteSet(F \ {s})
        /\ Cardinality(F \ {s}) = IF s \in F THEN Cardinality(F) - 1 ELSE Cardinality(F)
  BY <1>3, FS_RemoveElement
<1>5. CASE v = b
  <2>1. G = (F \ {s}) \cup {s}
    BY <1>2, <1>5
  <2>2. Cardinality(G) = Cardinality(F \ {s}) + 1
    <3>1. s \notin F \ {s}
      OBVIOUS
    <3> QED
      BY <1>4, <2>1, <3>1, FS_AddElement
  <2> QED
    BY <1>1, <1>3, <1>4, <1>5, <2>2 DEF NRefs
<1>6. CASE v # b
  <2>1. G = F \ {s}
    BY <1>2, <1>6
  <2> QED
    BY <1>1, <1>3, <1>4, <1>6, <2>1 DEF NRefs
<1> QED
  BY <1>5, <1>6

(* Exchanging two slots changes no count.                                  *)
LEMMA ExchangeRefs ==
  ASSUME NEW f \in [Slot -> Value], NEW s \in Slot, NEW t \in Slot, NEW b \in Block
  PROVE  /\ Exchange(f, s, t) \in [Slot -> Value]
         /\ NRefs(Exchange(f, s, t), b) = NRefs(f, b)
<1>1. f[s] \in Value /\ f[t] \in Value
  OBVIOUS
<1>2. PICK g : g = Put(f, s, f[t])
  OBVIOUS
<1>3. /\ g \in [Slot -> Value]
      /\ NRefs(g, b) = NRefs(f, b) - (IF f[s] = b THEN 1 ELSE 0) + (IF f[t] = b THEN 1 ELSE 0)
  BY <1>1, <1>2, PutRefs, SMTT(20)
<1>4. g[t] = f[t]
  BY <1>2 DEF Put
<1>5. Exchange(f, s, t) = Put(g, t, f[s])
  BY <1>2 DEF Exchange, Put
<1>6. /\ Put(g, t, f[s]) \in [Slot -> Value]
      /\ NRefs(Put(g, t, f[s]), b) =
           NRefs(g, b) - (IF g[t] = b THEN 1 ELSE 0) + (IF f[s] = b THEN 1 ELSE 0)
  BY <1>1, <1>3, PutRefs
<1>7. NRefs(f, b) \in Nat /\ NRefs(g, b) \in Nat
  BY NRefsType
<1> QED
  BY <1>3, <1>4, <1>5, <1>6, <1>7

(***************************************************************************)
(* What the invariant says about one reference.                            *)
(***************************************************************************)

(* Following a reference from any slot leads to a live block with a        *)
(* positive count that no cascade is freeing.                              *)
LEMMA OwnedIsLive ==
  ASSUME HeapInv, NEW s \in Slot, own[s] \in Block
  PROVE  /\ kind[own[s]] # "free"
         /\ rc[own[s]] >= 1
         /\ \A i \in 1 .. Len(drain) : drain[i] # own[s]
<1>1. NRefs(own, own[s]) >= 1 /\ NRefs(own, own[s]) \in Nat
  BY NRefsPositive, NRefsType
<1>2. orphan[own[s]] \in Nat
  BY DEF HeapInv, HeapTypeOK
<1>3. rc[own[s]] >= 1
  BY <1>1, <1>2 DEF HeapInv, RefExact
<1> QED
  BY <1>3 DEF HeapInv, FreeIsZero, DrainIsDead

(* A free block is referenced from nowhere and owed to nobody.             *)
LEMMA FreeIsUnreferenced ==
  ASSUME HeapInv, NEW b \in Block, kind[b] = "free"
  PROVE  /\ NRefs(own, b) = 0
         /\ orphan[b] = 0
         /\ rc[b] = 0
         /\ \A s \in Slot : own[s] # b
         /\ \A i \in 1 .. Len(drain) : drain[i] # b
<1>1. NRefs(own, b) \in Nat /\ orphan[b] \in Nat
  BY NRefsType DEF HeapInv, HeapTypeOK
<1>2. rc[b] = 0 /\ rc[b] = NRefs(own, b) + orphan[b]
  BY DEF HeapInv, FreeIsZero, RefExact
<1>3. NRefs(own, b) = 0 /\ orphan[b] = 0
  BY <1>1, <1>2
<1> QED
  BY <1>2, <1>3, NRefsZero DEF HeapInv, DrainIsDead
(***************************************************************************)
(* The transfers of ownership preserve the invariant.                      *)
(***************************************************************************)

(* No free block has the slot among its fields.                            *)
NotFreed(s) == \A b \in Block, i \in 1 .. Width : kind[b] = "free" => Field(b, i) # s

(* The roots are the fields of no block.                                   *)
LEMMA RootsNotFreed ==
  /\ \A i : NotFreed(Temp(i))
  /\ NotFreed(Reg)
  /\ \A x : NotFreed(Glob(x))
  /\ \A d, x : NotFreed(Local(d, x))
BY FieldNotRoot DEF NotFreed

(* The fields of a live block are not those of a freed one.                *)
LEMMA LiveNotFreed ==
  ASSUME NEW b \in Block, kind[b] # "free", NEW i
  PROVE  NotFreed(Field(b, i))
BY DEF NotFreed, Field

(* Releasing the reference a slot owns (verb_release_value up to the zero  *)
(* test): the count follows, and a block that reaches zero is entered in   *)
(* the cascade exactly once.                                               *)
LEMMA DropStep ==
  ASSUME HeapInv, NEW s \in Slot, Drop(s)
  PROVE  HeapInv'
<1> DEFINE b == own[s]
<1>1. b \in Block /\ Nil \in Value /\ Nil # b
  BY HeapAssumption DEF Drop, Value, HeapAssumption
<1>2. /\ kind[b] # "free"
      /\ rc[b] >= 1
      /\ \A i \in 1 .. Len(drain) : drain[i] # b
  BY <1>1, OwnedIsLive
<1>3. /\ own' = Put(own, s, Nil)
      /\ rc' = [rc EXCEPT ![b] = @ - 1]
      /\ drain' = IF rc[b] = 1 THEN <<b>> \o drain ELSE drain
      /\ UNCHANGED <<kind, len, cap, orphan, gcLive>>
  BY DEF Drop
<1>4. own \in [Slot -> Value] /\ rc \in [Block -> Nat] /\ drain \in Seq(Block)
  BY DEF HeapInv, HeapTypeOK
<1>5. \A c \in Block : NRefs(own', c) = NRefs(own, c) - (IF b = c THEN 1 ELSE 0)
  <2> SUFFICES ASSUME NEW c \in Block
               PROVE  NRefs(own', c) = NRefs(own, c) - (IF b = c THEN 1 ELSE 0)
    OBVIOUS
  <2>1. NRefs(own', c) = NRefs(own, c) - (IF own[s] = c THEN 1 ELSE 0)
                                       + (IF Nil = c THEN 1 ELSE 0)
    BY <1>1, <1>3, <1>4, PutRefs
  <2>2. Nil # c /\ NRefs(own, c) \in Nat
    BY NRefsType, HeapAssumption DEF HeapAssumption
  <2> QED
    BY <2>1, <2>2
<1>6. own' \in [Slot -> Value]
  BY <1>1, <1>3, <1>4 DEF Put
<1>7. rc' \in [Block -> Nat]
  BY <1>1, <1>2, <1>3, <1>4
<1>8. /\ <<b>> \o drain \in Seq(Block)
      /\ Len(<<b>> \o drain) = Len(drain) + 1
      /\ \A i \in 1 .. Len(drain) + 1 :
            (<<b>> \o drain)[i] = IF i = 1 THEN b ELSE drain[i - 1]
  <2>1. <<b>> \in Seq(Block) /\ Len(<<b>>) = 1 /\ <<b>>[1] = b
    BY <1>1
  <2>2. Len(drain) \in Nat
    BY <1>4, LenProperties
  <2> HIDE DEF b
  <2> QED
    BY <1>4, <2>1, <2>2, ConcatProperties
<1>9. HeapTypeOK'
  BY <1>3, <1>6, <1>7, <1>8 DEF HeapInv, HeapTypeOK
<1>10. RefExact'
  <2> SUFFICES ASSUME NEW c \in Block
               PROVE  rc'[c] = NRefs(own', c) + orphan'[c]
    BY DEF RefExact
  <2>1. rc[c] = NRefs(own, c) + orphan[c]
    BY DEF HeapInv, RefExact
  <2>2. NRefs(own, c) \in Nat /\ orphan[c] \in Nat /\ rc[c] \in Nat
    BY NRefsType DEF HeapInv, HeapTypeOK
  <2>3. rc'[c] = IF b = c THEN rc[c] - 1 ELSE rc[c]
    BY <1>3, <1>4
  <2> QED
    BY <1>3, <1>5, <2>1, <2>2, <2>3
<1>11. FreeIsZero'
  BY <1>1, <1>2, <1>3, <1>4 DEF HeapInv, FreeIsZero
<1>12. FreeOwnsNothing'
  BY <1>3, <1>4, SlotFamilies DEF HeapInv, FreeOwnsNothing, Put
<1>13. DrainIsDead'
  <2>1. CASE rc[b] = 1
    <3>1. drain' = <<b>> \o drain
      BY <1>3, <2>1
    <3>2. Len(drain) \in Nat /\ \A i \in 1 .. Len(drain) : drain[i] \in Block
      BY <1>4, LenProperties, ElementOfSeq
    <3>3. rc'[b] = 0 /\ \A c \in Block : c # b => rc'[c] = rc[c]
      BY <1>1, <1>3, <1>4, <2>1
    <3>4. \A i \in 1 .. Len(drain) : kind[drain[i]] # "free" /\ rc[drain[i]] = 0
      BY DEF HeapInv, DrainIsDead
    <3>5. \A i, j \in 1 .. Len(drain) : drain[i] = drain[j] => i = j
      BY DEF HeapInv, DrainIsDead
    <3>6. \A i \in 1 .. Len(drain') :
             /\ drain'[i] = IF i = 1 THEN b ELSE drain[i - 1]
             /\ i # 1 => i - 1 \in 1 .. Len(drain)
      BY <1>8, <3>1, <3>2
    <3>7. \A i \in 1 .. Len(drain') : kind'[drain'[i]] # "free" /\ rc'[drain'[i]] = 0
      BY <1>2, <1>3, <3>2, <3>3, <3>4, <3>6
    <3>8. \A i, j \in 1 .. Len(drain') : drain'[i] = drain'[j] => i = j
      BY <1>2, <3>2, <3>5, <3>6, <1>8, <3>1
    <3> QED
      BY <3>7, <3>8 DEF DrainIsDead
  <2>2. CASE rc[b] # 1
    <3>1. drain' = drain /\ kind' = kind
      BY <1>3, <2>2
    <3>2. \A i \in 1 .. Len(drain) : drain[i] \in Block
      BY <1>4, ElementOfSeq
    <3>3. \A i \in 1 .. Len(drain) : rc'[drain[i]] = rc[drain[i]]
      BY <1>2, <1>3, <1>4, <3>2
    <3> QED
      BY <3>1, <3>3 DEF HeapInv, DrainIsDead
  <2> QED
    BY <2>1, <2>2
<1>14. DeadIsDrained'
  <2> SUFFICES ASSUME NEW c \in Block, kind'[c] # "free", rc'[c] = 0
               PROVE  \E i \in 1 .. Len(drain') : drain'[i] = c
    BY DEF DeadIsDrained
  <2>1. Len(drain) \in Nat
    BY <1>4, LenProperties
  <2>2. CASE c = b
    <3>1. rc[b] = 1
      BY <1>1, <1>2, <1>3, <1>4, <2>2
    <3>2. 1 \in 1 .. Len(drain') /\ drain'[1] = b
      BY <1>3, <1>8, <2>1, <3>1
    <3> QED
      BY <2>2, <3>2
  <2>3. CASE c # b
    <3>1. kind[c] # "free" /\ rc[c] = 0
      BY <1>3, <1>4, <2>3
    <3>2. PICK i \in 1 .. Len(drain) : drain[i] = c
      BY <3>1 DEF HeapInv, DeadIsDrained
    <3>3. CASE rc[b] = 1
      <4>1. i + 1 \in 1 .. Len(drain') /\ drain'[i + 1] = drain[i]
        BY <1>3, <1>8, <2>1, <3>3
      <4> QED
        BY <3>2, <4>1
    <3>4. CASE rc[b] # 1
      BY <1>3, <3>2, <3>4
    <3> QED
      BY <3>3, <3>4
  <2> QED
    BY <2>2, <2>3
<1> QED
  BY <1>9, <1>10, <1>11, <1>12, <1>13, <1>14 DEF HeapInv

(* Freeing the block at the top of the cascade: nobody refers to it, and   *)
(* the rest of the cascade is on other blocks.                             *)
LEMMA FreeBlockStep ==
  ASSUME HeapInv, FreeBlock
  PROVE  HeapInv'
<1> DEFINE b == Head(drain)
<1>1. /\ drain # <<>>
      /\ Owning(b) = {}
      /\ kind' = [kind EXCEPT ![b] = "free"]
      /\ len' = [len EXCEPT ![b] = 0]
      /\ cap' = [cap EXCEPT ![b] = 0]
      /\ gcLive' = gcLive - 1 - Buffers(cap[b])
      /\ drain' = Tail(drain)
      /\ UNCHANGED <<rc, own, orphan>>
  BY DEF FreeBlock
<1>2. /\ kind \in [Block -> Kind] /\ drain \in Seq(Block)
      /\ len \in [Block -> 0 .. Width] /\ cap \in [Block -> Nat] /\ gcLive \in Int
  BY DEF HeapInv, HeapTypeOK
<1>3. /\ b \in Block /\ b = drain[1]
      /\ Len(drain) \in Nat \ {0}
      /\ Tail(drain) \in Seq(Block)
      /\ Len(Tail(drain)) = Len(drain) - 1
      /\ \A i \in 1 .. Len(Tail(drain)) : Tail(drain)[i] = drain[i + 1]
  <2>1. /\ Head(drain) \in Block
        /\ Tail(drain) \in Seq(Block)
        /\ Len(Tail(drain)) = Len(drain) - 1
        /\ \A i \in 1 .. Len(Tail(drain)) : Tail(drain)[i] = drain[i + 1]
    BY <1>1, <1>2, HeadTailProperties
  <2>2. Len(drain) \in Nat \ {0}
    BY <1>1, <1>2, EmptySeq
  <2>3. Head(drain) = drain[1]
    BY <1>1, <1>2
  <2> QED
    BY <2>1, <2>2, <2>3
<1>4. HeapTypeOK'
  <2>1. kind' \in [Block -> Kind]
    BY <1>1, <1>2, <1>3 DEF Kind
  <2>2. len' \in [Block -> 0 .. Width] /\ cap' \in [Block -> Nat]
    BY <1>1, <1>2, <1>3, HeapAssumption DEF HeapAssumption
  <2>3. gcLive' \in Int
    BY <1>1, <1>2 DEF Buffers
  <2> QED
    BY <1>1, <1>3, <2>1, <2>2, <2>3 DEF HeapInv, HeapTypeOK
<1>5. RefExact'
  BY <1>1 DEF HeapInv, RefExact, NRefs
<1>6. FreeIsZero'
  <2>1. rc[b] = 0
    BY <1>3 DEF HeapInv, DrainIsDead
  <2> QED
    BY <1>1, <1>2, <1>3, <2>1 DEF HeapInv, FreeIsZero
<1>7. FreeOwnsNothing'
  <2>1. \A i \in 1 .. Width : own[Field(b, i)] = Nil
    BY <1>1 DEF Owning
  <2>2. \A c \in Block : c # b => kind'[c] = kind[c]
    BY <1>1, <1>2
  <2>3. \A c \in Block, i \in 1 .. Width : kind'[c] = "free" => own[Field(c, i)] = Nil
    BY <2>1, <2>2 DEF HeapInv, FreeOwnsNothing
  <2> QED
    BY <1>1, <2>3 DEF FreeOwnsNothing
<1>8. DrainIsDead'
  <2>1. \A i \in 1 .. Len(drain') :
           /\ drain'[i] = drain[i + 1]
           /\ i + 1 \in 1 .. Len(drain)
    BY <1>1, <1>3
  <2>2. \A i, j \in 1 .. Len(drain) : drain[i] = drain[j] => i = j
    BY DEF HeapInv, DrainIsDead
  <2>3. \A i \in 1 .. Len(drain) : kind[drain[i]] # "free" /\ rc[drain[i]] = 0
    BY DEF HeapInv, DrainIsDead
  <2>4. Len(drain') \in Nat
    BY <1>1, <1>3
  <2>5. \A i, j \in 1 .. Len(drain') : drain'[i] = drain'[j] => i = j
    BY <2>1, <2>2, <2>4
  <2>6. \A i \in 1 .. Len(drain') : drain'[i] \in Block /\ drain'[i] # b
    <3> SUFFICES ASSUME NEW i \in 1 .. Len(drain')
                 PROVE  drain'[i] \in Block /\ drain'[i] # b
      OBVIOUS
    <3>1. drain'[i] = drain[i + 1] /\ i + 1 \in 1 .. Len(drain) /\ i + 1 # 1
      BY <2>1, <2>4
    <3>2. 1 \in 1 .. Len(drain)
      BY <1>3
    <3>3. drain[i + 1] # drain[1]
      BY <2>2, <3>1, <3>2
    <3> QED
      BY <1>2, <1>3, <3>1, <3>3, ElementOfSeq
  <2>7. \A i \in 1 .. Len(drain') : kind'[drain'[i]] # "free" /\ rc'[drain'[i]] = 0
    <3> SUFFICES ASSUME NEW i \in 1 .. Len(drain')
                 PROVE  kind'[drain'[i]] # "free" /\ rc'[drain'[i]] = 0
      OBVIOUS
    <3>1. drain'[i] \in Block /\ drain'[i] # b
      BY <2>6
    <3>2. kind'[drain'[i]] = kind[drain'[i]] /\ rc' = rc
      BY <1>1, <1>2, <3>1
    <3> QED
      BY <2>1, <2>3, <3>2
  <2> QED
    BY <2>5, <2>7 DEF DrainIsDead
<1>9. DeadIsDrained'
  <2> SUFFICES ASSUME NEW c \in Block, kind'[c] # "free", rc'[c] = 0
               PROVE  \E i \in 1 .. Len(drain') : drain'[i] = c
    BY DEF DeadIsDrained
  <2>1. c # b /\ kind[c] # "free" /\ rc[c] = 0
    BY <1>1, <1>2, <1>3
  <2>2. PICK i \in 1 .. Len(drain) : drain[i] = c
    BY <2>1 DEF HeapInv, DeadIsDrained
  <2>3. i # 1
    BY <1>3, <2>1, <2>2
  <2>4. i - 1 \in 1 .. Len(drain') /\ drain'[i - 1] = drain[i]
    BY <1>1, <1>3, <2>3
  <2> QED
    BY <2>2, <2>4
<1> QED
  BY <1>4, <1>5, <1>6, <1>7, <1>8, <1>9 DEF HeapInv

(* A whole cascade step.                                                   *)
LEMMA CascadeStep ==
  ASSUME HeapInv, Cascade
  PROVE  HeapInv'
<1>1. CASE ReleaseChild
  <2>1. PICK i \in Owning(Head(drain)) : Drop(Field(Head(drain), i))
    BY <1>1 DEF ReleaseChild
  <2>2. Head(drain) \in Block
    <3>1. drain \in Seq(Block) /\ drain # <<>>
      BY <1>1 DEF HeapInv, HeapTypeOK, ReleaseChild
    <3> QED
      BY <3>1, HeadTailProperties
  <2>3. i \in 1 .. Width
    BY <2>1 DEF Owning
  <2>4. Field(Head(drain), i) \in Slot
    BY <2>2, <2>3, SlotFamilies
  <2> QED
    BY <2>1, <2>4, DropStep
<1>2. CASE FreeBlock
  BY <1>2, FreeBlockStep
<1> QED
  BY <1>1, <1>2 DEF Cascade

\* A rearrangement of what own holds: no reference appears or disappears,
\* and no slot of a free block is filled.
Rearranged(f) ==
  /\ f \in [Slot -> Value]
  /\ \A c \in Block : NRefs(f, c) = NRefs(own, c)

KeepsFreeEmpty(f) ==
  \A c \in Block, i \in 1 .. Width : kind[c] = "free" => f[Field(c, i)] = Nil

(* Exchanging two slots of live blocks or roots.                           *)
LEMMA ExchangeKeeps ==
  ASSUME HeapInv, NEW s \in Slot, NEW t \in Slot, NotFreed(s), NotFreed(t)
  PROVE  Rearranged(Exchange(own, s, t)) /\ KeepsFreeEmpty(Exchange(own, s, t))
<1>1. own \in [Slot -> Value]
  BY DEF HeapInv, HeapTypeOK
<1>2. Rearranged(Exchange(own, s, t))
  <2>1. \A c \in Block : /\ Exchange(own, s, t) \in [Slot -> Value]
                         /\ NRefs(Exchange(own, s, t), c) = NRefs(own, c)
    BY <1>1, ExchangeRefs
  <2>2. Exchange(own, s, t) \in [Slot -> Value]
    BY <1>1 DEF Exchange
  <2> QED
    BY <2>1, <2>2 DEF Rearranged
<1>3. KeepsFreeEmpty(Exchange(own, s, t))
  BY <1>1, SlotFamilies
     DEF KeepsFreeEmpty, NotFreed, Exchange, HeapInv, FreeOwnsNothing
<1> QED
  BY <1>2, <1>3

(* A step that only rearranges references.                                 *)
LEMMA RearrangeStep ==
  ASSUME HeapInv, Rearranged(own'), KeepsFreeEmpty(own'),
         UNCHANGED <<kind, rc, orphan, drain>>,
         len' \in [Block -> 0 .. Width], cap' \in [Block -> Nat], gcLive' \in Int
  PROVE  HeapInv'
<1>1. HeapTypeOK'
  BY DEF HeapInv, HeapTypeOK, Rearranged
<1>2. RefExact'
  BY DEF HeapInv, RefExact, Rearranged
<1>3. FreeIsZero' /\ FreeOwnsNothing' /\ DrainIsDead' /\ DeadIsDrained'
  BY DEF HeapInv, FreeIsZero, FreeOwnsNothing, DrainIsDead, DeadIsDrained, KeepsFreeEmpty
<1> QED
  BY <1>1, <1>2, <1>3 DEF HeapInv

(* A step that moves references and retains one more copy of a value that  *)
(* is live: the count of its block grows with its references.              *)
LEMMA CountedStep ==
  ASSUME HeapInv, NEW f, Rearranged(f), KeepsFreeEmpty(f),
         NEW v \in Value, NEW t \in Slot, NotFreed(t), f[t] = Nil,
         v \in Block => kind[v] # "free" /\ rc[v] >= 1 /\ \A i \in 1 .. Len(drain) : drain[i] # v,
         own' = Put(f, t, v), rc' = Retain(v),
         UNCHANGED <<kind, orphan, drain>>,
         len' \in [Block -> 0 .. Width], cap' \in [Block -> Nat], gcLive' \in Int
  PROVE  HeapInv'
<1>2. /\ own \in [Slot -> Value] /\ rc \in [Block -> Nat]
      /\ f \in [Slot -> Value]
  BY DEF HeapInv, HeapTypeOK, Rearranged
<1>3. v \in Block => kind[v] # "free" /\ rc[v] >= 1 /\ \A i \in 1 .. Len(drain) : drain[i] # v
  OBVIOUS
<1>4. rc' = IF v \in Block THEN [rc EXCEPT ![v] = @ + 1] ELSE rc
  BY DEF Retain
<1>5. own' = Put(f, t, v)
  OBVIOUS
<1>6. own' \in [Slot -> Value]
  BY <1>2, <1>5 DEF Put
<1>7. rc' \in [Block -> Nat]
  BY <1>2, <1>4
<1>8. HeapTypeOK'
  BY <1>6, <1>7 DEF HeapInv, HeapTypeOK
<1>9. RefExact'
  <2> SUFFICES ASSUME NEW c \in Block
               PROVE  rc'[c] = NRefs(own', c) + orphan'[c]
    BY DEF RefExact
  <2>0. NRefs(Put(f, t, v), c) = NRefs(f, c) - (IF f[t] = c THEN 1 ELSE 0) + (IF v = c THEN 1 ELSE 0)
    <3>1. f \in [Slot -> Value] /\ v \in Value
      BY <1>2
    <3> QED
      BY <3>1, PutRefs, ZenonT(20)
  <2>1. NRefs(own', c) = NRefs(f, c) - (IF f[t] = c THEN 1 ELSE 0) + (IF v = c THEN 1 ELSE 0)
    BY <2>0, <1>5
  <2>2. f[t] # c
    BY HeapAssumption DEF HeapAssumption
  <2>3. NRefs(f, c) = NRefs(own, c) /\ rc[c] = NRefs(own, c) + orphan[c]
    BY DEF Rearranged, HeapInv, RefExact
  <2>4. NRefs(own, c) \in Nat /\ orphan[c] \in Nat /\ rc[c] \in Nat
    BY NRefsType DEF HeapInv, HeapTypeOK
  <2>5. rc'[c] = IF v = c THEN rc[c] + 1 ELSE rc[c]
    BY <1>2, <1>4
  <2> QED
    BY <2>1, <2>2, <2>3, <2>4, <2>5
<1>10. FreeIsZero'
  BY <1>2, <1>3, <1>4 DEF HeapInv, FreeIsZero
<1>11. FreeOwnsNothing'
  BY <1>2, <1>5, SlotFamilies DEF FreeOwnsNothing, KeepsFreeEmpty, NotFreed, Put
<1>12. DrainIsDead'
  <2>1. \A i \in 1 .. Len(drain) : drain[i] \in Block
    BY ElementOfSeq DEF HeapInv, HeapTypeOK
  <2>2. \A i \in 1 .. Len(drain) : rc'[drain[i]] = rc[drain[i]]
    BY <1>2, <1>3, <1>4, <2>1
  <2> QED
    BY <2>2 DEF HeapInv, DrainIsDead
<1>13. DeadIsDrained'
  <2>1. \A c \in Block : rc'[c] = 0 => rc[c] = 0
    BY <1>2, <1>3, <1>4, <1>7
  <2> QED
    BY <2>1 DEF HeapInv, DeadIsDrained
<1> QED
  BY <1>8, <1>9, <1>10, <1>11, <1>12, <1>13 DEF HeapInv

\* The same of a value that some slot owned, and that is live therefore.
LEMMA CopyStep ==
  ASSUME HeapInv, NEW f, Rearranged(f), KeepsFreeEmpty(f),
         NEW s \in Slot, NEW t \in Slot, NotFreed(t), f[t] = Nil,
         own' = Put(f, t, own[s]), rc' = Retain(own[s]),
         UNCHANGED <<kind, orphan, drain>>,
         len' \in [Block -> 0 .. Width], cap' \in [Block -> Nat], gcLive' \in Int
  PROVE  HeapInv'
<1>1. PICK v : v = own[s]
  OBVIOUS
<1>2. v \in Value
  BY <1>1 DEF HeapInv, HeapTypeOK
<1>3. v \in Block => kind[v] # "free" /\ rc[v] >= 1 /\ \A i \in 1 .. Len(drain) : drain[i] # v
  BY <1>1, OwnedIsLive
<1>4. own' = Put(f, t, v) /\ rc' = Retain(v)
  BY <1>1
<1> QED
  BY <1>2, <1>3, <1>4, CountedStep

(* A step that moves references and puts a new block in a slot that owned  *)
(* nothing: the block starts with the one reference its count says.        *)
LEMMA AllocStep ==
  ASSUME HeapInv, NEW f, Rearranged(f),
         NEW b \in Block, NEW k \in Kind \ {"free"}, NEW n \in 0 .. Width, Alloc(b, k, n),
         \A c \in Block \ {b}, i \in 1 .. Width : kind[c] = "free" => f[Field(c, i)] = Nil,
         NEW t \in Slot, NotFreed(t), f[t] = Nil,
         own' = Put(f, t, b),
         UNCHANGED <<orphan, drain>>,
         cap' \in [Block -> Nat], gcLive' \in Int
  PROVE  HeapInv'
<1>1. /\ kind[b] = "free"
      /\ kind' = [kind EXCEPT ![b] = k]
      /\ len' = [len EXCEPT ![b] = n]
      /\ rc' = [rc EXCEPT ![b] = 1]
  BY DEF Alloc, Free
<1>2. /\ own \in [Slot -> Value] /\ rc \in [Block -> Nat] /\ kind \in [Block -> Kind]
      /\ len \in [Block -> 0 .. Width]
      /\ f \in [Slot -> Value] /\ b \in Value
  BY DEF HeapInv, HeapTypeOK, Rearranged, Value
<1>3. /\ NRefs(own, b) = 0 /\ orphan[b] = 0
      /\ \A i \in 1 .. Len(drain) : drain[i] # b
  BY <1>1, FreeIsUnreferenced
<1>4. own' \in [Slot -> Value]
  BY <1>2 DEF Put
<1>5. HeapTypeOK'
  BY <1>1, <1>2, <1>4 DEF HeapInv, HeapTypeOK
<1>6. RefExact'
  <2> SUFFICES ASSUME NEW c \in Block
               PROVE  rc'[c] = NRefs(own', c) + orphan'[c]
    BY DEF RefExact
  <2>1. NRefs(own', c) = NRefs(f, c) - (IF f[t] = c THEN 1 ELSE 0) + (IF b = c THEN 1 ELSE 0)
    BY <1>2, PutRefs
  <2>2. f[t] # c
    BY HeapAssumption DEF HeapAssumption
  <2>3. NRefs(f, c) = NRefs(own, c) /\ rc[c] = NRefs(own, c) + orphan[c]
    BY DEF Rearranged, HeapInv, RefExact
  <2>4. NRefs(own, c) \in Nat /\ orphan[c] \in Nat /\ rc[c] \in Nat
    BY NRefsType DEF HeapInv, HeapTypeOK
  <2>5. rc'[c] = IF b = c THEN 1 ELSE rc[c]
    BY <1>1, <1>2
  <2> QED
    BY <1>3, <2>1, <2>2, <2>3, <2>4, <2>5
<1>7. FreeIsZero'
  BY <1>1, <1>2 DEF HeapInv, FreeIsZero
<1>8. FreeOwnsNothing'
  <2> SUFFICES ASSUME NEW c \in Block, NEW i \in 1 .. Width, kind'[c] = "free"
               PROVE  own'[Field(c, i)] = Nil
    BY DEF FreeOwnsNothing
  <2>1. c # b /\ kind[c] = "free"
    BY <1>1, <1>2
  <2>2. Field(c, i) \in Slot /\ Field(c, i) # t
    BY <2>1, SlotFamilies DEF NotFreed
  <2> QED
    BY <1>2, <2>1, <2>2 DEF Put
<1>9. DrainIsDead'
  <2>1. \A i \in 1 .. Len(drain) : drain[i] \in Block /\ drain[i] # b
    BY <1>3, ElementOfSeq DEF HeapInv, HeapTypeOK
  <2>2. \A i \in 1 .. Len(drain) : rc'[drain[i]] = rc[drain[i]] /\ kind'[drain[i]] = kind[drain[i]]
    BY <1>1, <1>2, <2>1
  <2> QED
    BY <2>2 DEF HeapInv, DrainIsDead
<1>10. DeadIsDrained'
  <2>1. \A c \in Block : rc'[c] = 0 => c # b /\ rc[c] = 0 /\ kind'[c] = kind[c]
    BY <1>1, <1>2
  <2> QED
    BY <2>1 DEF HeapInv, DeadIsDrained
<1> QED
  BY <1>5, <1>6, <1>7, <1>8, <1>9, <1>10 DEF HeapInv

(* An empty heap is right.                                                 *)
LEMMA HeapStart ==
  ASSUME HeapInit
  PROVE  HeapInv
<1>1. HeapTypeOK
  <2>1. "free" \in Kind /\ Nil \in Value /\ 0 \in 0 .. Width
    BY HeapAssumption DEF Kind, Value, HeapAssumption
  <2>2. <<>> \in Seq(Block)
    BY EmptySeq
  <2> QED
    BY <2>1, <2>2 DEF HeapInit, HeapTypeOK
<1>2. RefExact
  <2> SUFFICES ASSUME NEW b \in Block
               PROVE  rc[b] = NRefs(own, b) + orphan[b]
    BY DEF RefExact
  <2>1. {s \in Slot : own[s] = b} = {}
    BY HeapAssumption DEF HeapInit, HeapAssumption
  <2>2. NRefs(own, b) = 0
    BY <2>1, FS_EmptySet DEF NRefs
  <2> QED
    BY <2>2 DEF HeapInit
<1>3. FreeIsZero /\ FreeOwnsNothing /\ DrainIsDead /\ DeadIsDrained
  <2>1. Len(drain) = 0
    BY EmptySeq DEF HeapInit
  <2> QED
    BY <2>1, SlotFamilies
       DEF HeapInit, FreeIsZero, FreeOwnsNothing, DrainIsDead, DeadIsDrained
<1> QED
  BY <1>1, <1>2, <1>3 DEF HeapInv

(***************************************************************************)
(* The count of outstanding blocks.                                        *)
(***************************************************************************)

\* Only an array has an elems buffer.
BuffersOfArrays == \A b \in Block : kind[b] # "arr" => cap[b] = 0

LiveInv == LiveCountExact /\ BuffersOfArrays

\* Arrays with a buffer.
Buffered == {b \in Live : kind[b] = "arr" /\ cap[b] # 0}

\* What b adds to the count.
Weight(b) == (IF b \in Live THEN 1 ELSE 0) + (IF b \in Buffered THEN 1 ELSE 0)

(* Sets of blocks that differ in one block at most.                        *)
LEMMA OneBlock ==
  ASSUME NEW S \in SUBSET Block, NEW T \in SUBSET Block, NEW b \in Block,
         T \ {b} = S \ {b}
  PROVE  /\ Cardinality(S) \in Nat /\ Cardinality(T) \in Nat
         /\ Cardinality(T) = Cardinality(S) - (IF b \in S THEN 1 ELSE 0)
                                            + (IF b \in T THEN 1 ELSE 0)
<1>1. IsFiniteSet(S) /\ IsFiniteSet(T)
  BY HeapAssumption, FS_Subset DEF HeapAssumption
<1>2. Cardinality(S) \in Nat /\ Cardinality(T) \in Nat
  BY <1>1, FS_CardinalityType
<1>3. Cardinality(S \ {b}) = IF b \in S THEN Cardinality(S) - 1 ELSE Cardinality(S)
  BY <1>1, FS_RemoveElement
<1>4. Cardinality(T \ {b}) = IF b \in T THEN Cardinality(T) - 1 ELSE Cardinality(T)
  BY <1>1, FS_RemoveElement
<1>5. Cardinality(T \ {b}) = Cardinality(S \ {b})
  OBVIOUS
<1>6. CASE b \in S /\ b \in T
  BY <1>2, <1>3, <1>4, <1>5, <1>6
<1>7. CASE b \in S /\ b \notin T
  BY <1>2, <1>3, <1>4, <1>5, <1>7
<1>8. CASE b \notin S /\ b \in T
  BY <1>2, <1>3, <1>4, <1>5, <1>8
<1>9. CASE b \notin S /\ b \notin T
  BY <1>2, <1>3, <1>4, <1>5, <1>9
<1> QED
  BY <1>6, <1>7, <1>8, <1>9

(* A step that makes one block into something else keeps the count exact   *)
(* when it counts the difference.                                          *)
LEMMA WeightStep ==
  ASSUME HeapTypeOK, LiveInv, NEW b \in Block, NEW k \in Kind, NEW c \in Nat,
         kind' = [kind EXCEPT ![b] = k],
         cap' = [cap EXCEPT ![b] = c],
         k # "arr" => c = 0,
         gcLive' = gcLive - Weight(b) + (IF k # "free" THEN 1 ELSE 0) + Buffers(c)
  PROVE  LiveInv'
<1>1. /\ kind \in [Block -> Kind] /\ cap \in [Block -> Nat] /\ gcLive \in Int
  BY DEF HeapTypeOK
<1>2. /\ kind'[b] = k /\ cap'[b] = c
      /\ \A o \in Block \ {b} : kind'[o] = kind[o] /\ cap'[o] = cap[o]
  BY <1>1
<1>3. /\ Live \in SUBSET Block /\ Live' \in SUBSET Block
      /\ Live' \ {b} = Live \ {b}
      /\ b \in Live' <=> k # "free"
  BY <1>2 DEF Live
<1>4. /\ Buffered \in SUBSET Block /\ Buffered' \in SUBSET Block
      /\ Buffered' \ {b} = Buffered \ {b}
      /\ b \in Buffered' <=> k = "arr" /\ c # 0
  BY <1>2 DEF Buffered, Live
<1>5. /\ Cardinality(Live) \in Nat
      /\ Cardinality(Live') = Cardinality(Live) - (IF b \in Live THEN 1 ELSE 0)
                                + (IF k # "free" THEN 1 ELSE 0)
  BY <1>3, OneBlock
<1>6. /\ Cardinality(Buffered) \in Nat
      /\ Cardinality(Buffered') = Cardinality(Buffered) - (IF b \in Buffered THEN 1 ELSE 0) + Buffers(c)
  BY <1>4, OneBlock DEF Buffers
<1>7. gcLive = Cardinality(Live) + Cardinality(Buffered)
  BY DEF LiveInv, LiveCountExact, Buffered
<1>8. gcLive' = Cardinality(Live') + Cardinality(Buffered')
  BY <1>5, <1>6, <1>7 DEF Weight, Buffers
<1>9. LiveCountExact'
  BY <1>8 DEF LiveCountExact, Buffered
<1>10. BuffersOfArrays'
  BY <1>2 DEF LiveInv, BuffersOfArrays
<1> QED
  BY <1>9, <1>10 DEF LiveInv

\* The counter and the kinds unchanged: the weight is the same.
LEMMA WeightStutter ==
  ASSUME LiveInv, UNCHANGED <<kind, cap, gcLive>>
  PROVE  LiveInv'
  BY DEF LiveInv, LiveCountExact, BuffersOfArrays, Live

(* verb_alloc of an array with a buffer for c elements, or of a block of   *)
(* another kind.                                                           *)
LEMMA AllocWeight ==
  ASSUME HeapTypeOK, LiveInv, NEW b \in Block, NEW k \in Kind \ {"free"}, NEW n, NEW c \in Nat,
         Alloc(b, k, n),
         cap' = [cap EXCEPT ![b] = c],
         k # "arr" => c = 0,
         gcLive' = gcLive + 1 + Buffers(c)
  PROVE  LiveInv'
<1>1. b \notin Live /\ b \notin Buffered
  BY DEF Alloc, Free, Live, Buffered
<1>2. gcLive' = gcLive - Weight(b) + (IF k # "free" THEN 1 ELSE 0) + Buffers(c)
  BY <1>1 DEF Weight, HeapTypeOK, Buffers
<1> QED
  BY <1>2, WeightStep DEF Alloc

\* verb_alloc of a block without a buffer counts one more.
LEMMA AllocPlain ==
  ASSUME HeapTypeOK, LiveInv, NEW b \in Block, NEW k \in Kind \ {"free", "arr"}, NEW n,
         Alloc(b, k, n), UNCHANGED cap, gcLive' = gcLive + 1
  PROVE  LiveInv'
<1>1. cap[b] = 0
  BY DEF Alloc, Free, LiveInv, BuffersOfArrays
<1>2. cap' = [cap EXCEPT ![b] = 0]
  BY <1>1 DEF HeapTypeOK
<1>3. gcLive' = gcLive + 1 + Buffers(0)
  BY DEF Buffers, HeapTypeOK
<1> QED
  BY <1>2, <1>3, AllocWeight

(* A cascade: each block is uncounted when it is freed, with its buffer.   *)
LEMMA CascadeWeight ==
  ASSUME HeapInv, LiveInv, Cascade
  PROVE  LiveInv'
<1>1. CASE ReleaseChild
  BY <1>1, WeightStutter DEF ReleaseChild, Drop
<1>2. CASE FreeBlock
  <2>1. PICK b \in Block : b = Head(drain) /\ kind[b] # "free"
    <3>1. drain \in Seq(Block) /\ drain # <<>>
      BY <1>2 DEF FreeBlock, HeapInv, HeapTypeOK
    <3>2. Head(drain) = drain[1] /\ Head(drain) \in Block /\ 1 \in 1 .. Len(drain)
      BY <3>1
    <3> QED
      BY <3>2 DEF HeapInv, DrainIsDead
  <2>2. /\ kind' = [kind EXCEPT ![b] = "free"]
        /\ cap' = [cap EXCEPT ![b] = 0]
        /\ gcLive' = gcLive - 1 - Buffers(cap[b])
    BY <1>2, <2>1 DEF FreeBlock
  <2>3. Weight(b) = 1 + Buffers(cap[b])
    BY <2>1 DEF Weight, Live, Buffered, Buffers, LiveInv, BuffersOfArrays
  <2>4. gcLive' = gcLive - Weight(b) + 0 + Buffers(0)
    BY <2>2, <2>3 DEF Buffers, HeapInv, HeapTypeOK
  <2>5. "free" \in Kind /\ HeapTypeOK
    BY DEF Kind, HeapInv
  <2> QED
    BY <2>2, <2>4, <2>5, WeightStep
<1> QED
  BY <1>1, <1>2 DEF Cascade

(* An array that grows: its old buffer, if it had one, is freed.           *)
LEMMA GrowWeight ==
  ASSUME HeapTypeOK, LiveInv, NEW b \in Block, NEW c \in Nat \ {0}, kind[b] = "arr",
         UNCHANGED kind,
         cap' = [cap EXCEPT ![b] = c],
         gcLive' = gcLive + 1 - Buffers(cap[b])
  PROVE  LiveInv'
<1>1. kind' = [kind EXCEPT ![b] = "arr"]
  BY DEF HeapTypeOK
<1>2. Weight(b) = 1 + Buffers(cap[b])
  BY DEF Weight, Live, Buffered, Buffers
<1>3. gcLive' = gcLive - Weight(b) + 1 + Buffers(c)
  BY <1>2 DEF Buffers, HeapTypeOK
<1> QED
  BY <1>1, <1>3, WeightStep DEF Kind

(***************************************************************************)
(* Reachability.  Induction over data has no theorem the provers can       *)
(* instantiate, but that every nonempty set of naturals has a least member *)
(* follows from the well-founded inclusion of finite sets.                 *)
(***************************************************************************)

(* The least-number principle, for sets.                                   *)
LEMMA Least ==
  ASSUME NEW S \in SUBSET Nat, S # {}
  PROVE  \E m \in S : \A k \in S : m <= k
<1> DEFINE T == {0 .. n : n \in S}
<1>1. T \subseteq FiniteSubsetsOf(Nat) /\ T # {}
  <2>1. \A n \in S : IsFiniteSet(0 .. n) /\ 0 .. n \in SUBSET Nat
    BY FS_Interval
  <2> QED
    BY <2>1 DEF FiniteSubsetsOf
<1>2. PICK x \in T : \A y \in T : ~(<<y, x>> \in StrictSubsetOrdering(Nat))
  BY <1>1, FS_StrictSubsetOrderingWellFounded, WFMin
<1>3. PICK m \in S : x = 0 .. m
  OBVIOUS
<1>4. ASSUME NEW k \in S, k < m
      PROVE  FALSE
  <2>1. 0 .. k \subseteq 0 .. m /\ m \in 0 .. m /\ m \notin 0 .. k
    BY <1>4
  <2>2. <<0 .. k, 0 .. m>> \in StrictSubsetOrdering(Nat)
    BY <2>1 DEF StrictSubsetOrdering
  <2> QED
    BY <1>2, <1>3, <2>2
<1> QED
  BY <1>4

(* Of finitely many sets, one is in no other.                              *)
LEMMA Largest ==
  ASSUME NEW S, IsFiniteSet(S), NEW T \in SUBSET (SUBSET S), T # {}
  PROVE  \E x \in T : \A y \in T : x \subseteq y => x = y
<1> DEFINE U == {S \ x : x \in T}
<1>1. U \subseteq FiniteSubsetsOf(S) /\ U # {}
  <2>1. \A x \in T : S \ x \in SUBSET S
    OBVIOUS
  <2>2. U \subseteq SUBSET S
    BY <2>1
  <2>3. U # {}
    <3>1. PICK x : x \in T
      OBVIOUS
    <3>2. S \ x \in U
      BY <3>1
    <3> QED
      BY <3>2
  <2>4. FiniteSubsetsOf(S) = SUBSET S
    BY FS_FiniteSubsetsOfFinite
  <2> QED
    BY <2>2, <2>3, <2>4
<1>2. PICK z \in U : \A y \in U : ~(<<y, z>> \in StrictSubsetOrdering(S))
  <2>1. IsWellFoundedOn(StrictSubsetOrdering(S), FiniteSubsetsOf(S))
    BY FS_StrictSubsetOrderingWellFounded
  <2> HIDE DEF U
  <2> QED
    BY <1>1, <2>1, WFMin
<1>3. PICK x \in T : z = S \ x
  OBVIOUS
<1>4. ASSUME NEW y \in T, x \subseteq y, x # y
      PROVE  FALSE
  <2>1. S \ y \subseteq S \ x /\ S \ y # S \ x
    BY <1>4
  <2>2. <<S \ y, S \ x>> \in StrictSubsetOrdering(S)
    BY <2>1 DEF StrictSubsetOrdering
  <2> QED
    BY <1>2, <1>3, <2>2
<1> QED
  BY <1>4

(* The rounds of a search from B: every one adds what the last refers to.  *)
Rounds(g, B, N, f) ==
  f = [n \in 0 .. N |-> IF n = 0 THEN B ELSE f[n - 1] \cup Children(g, f[n - 1])]

(* There are such rounds, as many as are asked for.                        *)
LEMMA RoundsExist ==
  ASSUME NEW g, NEW B, NEW N \in Nat
  PROVE  \E f : Rounds(g, B, N, f)
<1> DEFINE S == {n \in Nat : ~ \E f : Rounds(g, B, n, f)}
<1>1. SUFFICES ASSUME S # {}
               PROVE  FALSE
  OBVIOUS
<1>2. PICK m \in S : \A k \in S : m <= k
  BY <1>1, Least
<1>3. CASE m = 0
  <2> DEFINE f == [n \in 0 .. 0 |-> B]
  <2>1. Rounds(g, B, 0, f)
    BY DEF Rounds
  <2> QED
    BY <1>3, <2>1
<1>4. CASE m > 0
  <2>1. m - 1 \in Nat /\ m - 1 \notin S
    BY <1>2, <1>4
  <2>2. PICK h : Rounds(g, B, m - 1, h)
    BY <2>1
  <2> DEFINE f == [n \in 0 .. m |-> IF n = m THEN h[m - 1] \cup Children(g, h[m - 1]) ELSE h[n]]
  <2>3. ASSUME NEW n \in 0 .. m
        PROVE  f[n] = IF n = 0 THEN B ELSE f[n - 1] \cup Children(g, f[n - 1])
    <3>1. CASE n = m
      BY <1>4, <3>1
    <3>2. CASE n # m
      <4>1. n \in 0 .. m - 1 /\ (n # 0 => n - 1 \in 0 .. m /\ n - 1 # m)
        BY <3>2
      <4>2. h[n] = IF n = 0 THEN B ELSE h[n - 1] \cup Children(g, h[n - 1])
        BY <2>2, <4>1 DEF Rounds
      <4>3. f[n] = h[n] /\ (n # 0 => f[n - 1] = h[n - 1])
        BY <3>2, <4>1
      <4> QED
        BY <4>2, <4>3
    <3> QED
      BY <3>1, <3>2
  <2>4. Rounds(g, B, m, f)
    BY <2>3 DEF Rounds
  <2> QED
    BY <2>4
<1> QED
  BY <1>3, <1>4

(* Reach searches for as many rounds as there are blocks.                  *)
LEMMA ReachRounds ==
  ASSUME NEW g, NEW B
  PROVE  \E f : /\ Rounds(g, B, Cardinality(Block), f)
                /\ Reach(g, B) = f[Cardinality(Block)]
<1> DEFINE N == Cardinality(Block)
<1>1. N \in Nat
  BY HeapAssumption, FS_CardinalityType DEF HeapAssumption
<1>2. \E f : Rounds(g, B, N, f)
  BY <1>1, RoundsExist
<1> DEFINE R == CHOOSE f : f = [n \in 0 .. N |->
                  IF n = 0 THEN B ELSE f[n - 1] \cup Children(g, f[n - 1])]
<1>3. R = [n \in 0 .. N |-> IF n = 0 THEN B ELSE R[n - 1] \cup Children(g, R[n - 1])]
  BY <1>2 DEF Rounds
<1>4. Reach(g, B) = R[N]
  BY DEF Reach
<1> QED
  BY <1>3, <1>4 DEF Rounds

(* Children distributes over what it is asked about.                       *)
LEMMA ChildrenMonotone ==
  ASSUME NEW g, NEW B, NEW C, B \subseteq C
  PROVE  Children(g, B) \subseteq Children(g, C)
BY DEF Children

(* A set closed under Children that holds B holds all B reaches.           *)
LEMMA ReachLeast ==
  ASSUME NEW g, NEW B, NEW C, B \subseteq C, Children(g, C) \subseteq C
  PROVE  Reach(g, B) \subseteq C
<1>1. PICK N : N = Cardinality(Block)
  OBVIOUS
<1>2. PICK f : Rounds(g, B, N, f) /\ Reach(g, B) = f[N]
  BY <1>1, ReachRounds
<1>3. N \in Nat
  BY <1>1, HeapAssumption, FS_CardinalityType DEF HeapAssumption
<1> DEFINE S == {n \in 0 .. N : ~(f[n] \subseteq C)}
<1>4. ASSUME S # {}
      PROVE  FALSE
  <2>1. S \in SUBSET Nat
    OBVIOUS
  <2> HIDE DEF S
  <2>2. PICK m \in S : \A k \in S : m <= k
    BY <1>4, <2>1, Least
  <2> USE DEF S
  <2>3. m # 0
    BY <1>3, <1>2, <2>2 DEF Rounds
  <2>4. m - 1 \in 0 .. N /\ m - 1 \notin S
    BY <1>3, <2>2, <2>3
  <2>5. f[m - 1] \subseteq C
    BY <2>4
  <2>6. f[m] = f[m - 1] \cup Children(g, f[m - 1])
    BY <1>2, <2>3 DEF Rounds
  <2> QED
    BY <2>5, <2>6, ChildrenMonotone
<1> QED
  BY <1>2, <1>3, <1>4

(* What B reaches holds B and is closed: the rounds stop to grow before    *)
(* they run out, since each that grows finds one block more.               *)
LEMMA ReachClosed ==
  ASSUME NEW g \in [Slot -> Value], NEW B \in SUBSET Block
  PROVE  /\ Reach(g, B) \in SUBSET Block
         /\ B \subseteq Reach(g, B)
         /\ Children(g, Reach(g, B)) \subseteq Reach(g, B)
<1>1. PICK N : N = Cardinality(Block)
  OBVIOUS
<1>2. PICK f : Rounds(g, B, N, f) /\ Reach(g, B) = f[N]
  BY <1>1, ReachRounds
<1>3. N \in Nat /\ IsFiniteSet(Block)
  BY <1>1, HeapAssumption, FS_CardinalityType DEF HeapAssumption
<1>4. Children(g, Block) \subseteq Block
  <2>1. \A b \in Block, i \in 1 .. Width : g[Field(b, i)] \in Block \cup {Nil}
    BY SlotFamilies DEF Value
  <2> QED
    BY <2>1 DEF Children
<1>5. Reach(g, B) \in SUBSET Block
  BY <1>4, ReachLeast
<1> DEFINE Bad(n) == \/ ~(B \subseteq f[n])
                     \/ ~(f[n] \in SUBSET Block)
                     \/ /\ ~(Children(g, f[n]) \subseteq f[n])
                        /\ Cardinality(f[n]) < n
<1> DEFINE S == {n \in 0 .. N : Bad(n)}
<1>6. ASSUME S # {}
      PROVE  FALSE
  <2>1. S \in SUBSET Nat
    OBVIOUS
  <2> HIDE DEF S
  <2>2. PICK m \in S : \A k \in S : m <= k
    BY <1>6, <2>1, Least
  <2> USE DEF S
  <2>3. CASE m = 0
    <3>1. f[0] = B
      BY <1>2, <1>3 DEF Rounds
    <3>2. Cardinality(B) \in Nat
      BY <1>3, FS_Subset, FS_CardinalityType
    <3> QED
      BY <2>2, <2>3, <3>1, <3>2
  <2>4. CASE m # 0
    <3>1. m - 1 \in 0 .. N /\ m - 1 \notin S /\ m \in 1 .. N
      BY <1>3, <2>2, <2>4
    <3>2. PICK P : P = f[m - 1]
      OBVIOUS
    <3>3. /\ B \subseteq P /\ P \in SUBSET Block
          /\ Children(g, P) \subseteq P \/ ~(Cardinality(P) < m - 1)
      BY <3>1, <3>2
    <3>4. f[m] = P \cup Children(g, P)
      BY <1>2, <2>4, <3>1, <3>2 DEF Rounds
    <3>5. Children(g, P) \subseteq Block
      BY <1>4, <3>3, ChildrenMonotone
    <3>6. ~(Children(g, P) \subseteq P)
      <4>1. SUFFICES ASSUME Children(g, P) \subseteq P
                     PROVE  FALSE
        OBVIOUS
      <4>2. f[m] = P
        BY <3>4, <4>1
      <4>3. ~Bad(m)
        BY <3>3, <4>1, <4>2
      <4> QED
        BY <2>2, <4>3
    <3>7. PICK c \in Children(g, P) : c \notin P
      BY <3>6
    <3>8. /\ Cardinality(P) \in Nat
          /\ Cardinality(P \cup {c}) = Cardinality(P) + 1
          /\ Cardinality(P \cup {c}) <= Cardinality(f[m])
          /\ Cardinality(f[m]) \in Nat
      <4>1. f[m] \in SUBSET Block /\ P \cup {c} \in SUBSET f[m]
        BY <3>3, <3>4, <3>5, <3>7
      <4>2. IsFiniteSet(P) /\ IsFiniteSet(f[m])
        BY <1>3, <3>3, <4>1, FS_Subset
      <4> QED
        BY <3>7, <4>1, <4>2, FS_AddElement, FS_Subset, FS_CardinalityType
    <3>9. Cardinality(f[m]) >= m
      BY <3>1, <3>3, <3>6, <3>8
    <3>10. ~Bad(m)
      BY <3>1, <3>3, <3>4, <3>5, <3>8, <3>9
    <3> QED
      BY <2>2, <3>10
  <2> QED
    BY <2>3, <2>4
<1>7. ~Bad(N)
  BY <1>3, <1>6
<1>8. CASE Children(g, f[N]) \subseteq f[N]
  BY <1>2, <1>5, <1>7, <1>8
<1>9. CASE ~(Children(g, f[N]) \subseteq f[N])
  <2>1. /\ f[N] \in SUBSET Block /\ ~(Cardinality(f[N]) < N)
        /\ Cardinality(f[N]) \in Nat /\ Cardinality(f[N]) <= N
    BY <1>1, <1>3, <1>7, <1>9, FS_Subset, FS_CardinalityType
  <2>2. Cardinality(f[N]) = N
    BY <1>3, <2>1
  <2>3. f[N] = Block
    BY <1>1, <1>3, <2>1, <2>2, FS_Subset
  <2> QED
    BY <1>4, <1>9, <2>3
<1> QED
  BY <1>8, <1>9

(* What is reached from what B reaches, B reaches.                         *)
LEMMA ReachTransitive ==
  ASSUME NEW g \in [Slot -> Value], NEW B \in SUBSET Block, NEW C, C \subseteq Reach(g, B)
  PROVE  Reach(g, C) \subseteq Reach(g, B)
BY ReachClosed, ReachLeast

(* A live block that no array set lost is referred to by another block     *)
(* once nothing else refers to anything.                                   *)
LEMMA HasParent ==
  ASSUME HeapInv, drain = <<>>, \A s \in RootSlot : own[s] = Nil,
         NEW b \in Live, ~(orphan[b] > 0)
  PROVE  \E p \in Live : b \in Children(own, {p})
<1>1. b \in Block /\ kind[b] # "free"
  BY DEF Live
<1>2. Len(drain) = 0
  BY EmptySeq
<1>3. rc[b] # 0
  BY <1>1, <1>2 DEF HeapInv, DeadIsDrained
<1>4. NRefs(own, b) # 0
  BY <1>1, <1>3 DEF HeapInv, HeapTypeOK, RefExact
<1>5. \E s \in Slot : own[s] = b
  <2>1. SUFFICES ASSUME \A s \in Slot : own[s] # b
                 PROVE  FALSE
    OBVIOUS
  <2>2. {s \in Slot : own[s] = b} = {}
    BY <2>1
  <2> QED
    BY <1>4, <2>2, FS_EmptySet DEF NRefs
<1>6. PICK s \in FieldSlot : own[s] = b
  BY <1>1, <1>5, HeapAssumption DEF Slot, HeapAssumption
<1>7. PICK p \in Block, i \in 1 .. Width : s = Field(p, i)
  BY <1>6 DEF FieldSlot, Field
<1>8. kind[p] # "free"
  BY <1>1, <1>6, <1>7, HeapAssumption DEF HeapInv, FreeOwnsNothing, HeapAssumption
<1> QED
  BY <1>1, <1>6, <1>7, <1>8, HeapAssumption DEF Children, Live, HeapAssumption

(* So every live block is reached from a lost one or from a cycle: were it *)
(* not, neither were its parents, and the one that reaches most would be   *)
(* its own descendant.                                                     *)
LEMMA Survivors ==
  ASSUME HeapInv, drain = <<>>, \A s \in RootSlot : own[s] = Nil,
         NEW B \in SUBSET Block,
         \A b \in Live : orphan[b] > 0 \/ b \in Reach(own, Children(own, {b})) => b \in B
  PROVE  Live \subseteq Reach(own, B)
<1>0. own \in [Slot -> Value] /\ IsFiniteSet(Block) /\ Live \in SUBSET Block
  BY HeapAssumption DEF HeapInv, HeapTypeOK, HeapAssumption, Live
<1>1. \A b \in Block : Children(own, {b}) \in SUBSET Block
  BY <1>0, SlotFamilies DEF Value, Children
<1> DEFINE U == Live \ Reach(own, B)
           D == {Reach(own, Children(own, {u})) : u \in U}
<1>2. ASSUME U # {}
      PROVE  FALSE
  <2>1. D \in SUBSET (SUBSET Block) /\ D # {}
    <3>1. \A u \in U : Reach(own, Children(own, {u})) \in SUBSET Block
      BY <1>0, <1>1, ReachClosed
    <3>2. PICK u : u \in U
      BY <1>2
    <3>3. Reach(own, Children(own, {u})) \in D
      BY <3>2
    <3> QED
      BY <3>1, <3>3
  <2> HIDE DEF D
  <2>2. PICK x \in D : \A y \in D : x \subseteq y => x = y
    BY <1>0, <2>1, Largest
  <2> USE DEF D
  <2>3. PICK u \in U : x = Reach(own, Children(own, {u}))
    OBVIOUS
  <2>4. u \in Live /\ u \notin B /\ u \notin Reach(own, Children(own, {u})) /\ ~(orphan[u] > 0)
    BY <1>0, <2>3, ReachClosed
  <2>5. PICK p \in Live : u \in Children(own, {p})
    BY <2>4, HasParent
  <2>6. p \in U
    <3>1. SUFFICES ASSUME p \in Reach(own, B)
                   PROVE  FALSE
      BY <2>5
    <3>2. Children(own, {p}) \subseteq Children(own, Reach(own, B))
      BY <3>1, ChildrenMonotone
    <3> QED
      BY <1>0, <2>3, <2>5, <3>2, ReachClosed
  <2>7. Children(own, {p}) \in SUBSET Block
    BY <1>0, <1>1
  <2>8. /\ u \in Reach(own, Children(own, {p}))
        /\ Children(own, Reach(own, Children(own, {p}))) \subseteq Reach(own, Children(own, {p}))
    BY <1>0, <2>5, <2>7, ReachClosed
  <2>9. Children(own, {u}) \subseteq Reach(own, Children(own, {p}))
    <3>1. Children(own, {u}) \subseteq Children(own, Reach(own, Children(own, {p})))
      BY <2>8, ChildrenMonotone
    <3> QED
      BY <2>8, <3>1
  <2>10. x \subseteq Reach(own, Children(own, {p}))
    BY <1>0, <2>3, <2>7, <2>9, ReachTransitive
  <2> QED
    BY <2>2, <2>3, <2>4, <2>6, <2>8, <2>10
<1> QED
  BY <1>2

=============================================================================
