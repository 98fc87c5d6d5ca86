------------------------------ MODULE VerbHeap ------------------------------
(***************************************************************************)
(* The reference-counted heap of a compiled Verb program, as the runtime   *)
(* helpers emitted by src/codegen.rs maintain it.                          *)
(*                                                                         *)
(* A VerbValue is abstracted to the one thing reference counting can tell  *)
(* apart: the heap block it points to, or Nil for a value that owns        *)
(* nothing (nil, int, float, bool, and a string literal, whose header      *)
(* carries GC_STATIC_SENTINEL so that retain and release skip it).         *)
(*                                                                         *)
(* Every place that owns a reference is a Slot: the fields of a block      *)
(* (array elements, struct and variant fields, the value of a cell, the    *)
(* env of a closure, the captures of an env), the operand temporaries of   *)
(* the expression under evaluation, the register that holds the result of  *)
(* a runtime helper, the globals, and the names bound in the open scopes.  *)
(***************************************************************************)
EXTENDS Integers, Sequences, FiniteSets

CONSTANTS
  Block,      \* heap blocks verb_alloc can hand out; a freed one is reused
  Nil,        \* every value that is not a counted heap reference
  Width,      \* bound on the fields of one block
  MaxTemp,    \* bound on the operand temporaries of one expression
  MaxDepth,   \* bound on the nesting of scopes
  Name        \* the names a program binds

CollName == "$foreach_coll"   \* the hidden name an `each` loop binds

HeapAssumption ==
  /\ IsFiniteSet(Block)
  /\ IsFiniteSet(Name)
  /\ Nil \notin Block
  /\ CollName \notin Name
  /\ Block \cap {"temp", "reg", "glob", "scope"} = {}
  /\ Width \in Nat \ {0}
  /\ MaxTemp \in Nat \ {0}
  /\ MaxDepth \in Nat

ASSUME HeapAssumption

VARIABLES
  kind,     \* what a block is, "free" when verb_alloc may return it
  rc,       \* the refcount word in the block's header
  own,      \* the reference each slot owns
  len,      \* array length; number of fields of a struct, variant or env
  cap,      \* array capacity: 0 exactly when it has no elems buffer
  orphan,   \* references that were overwritten without a release (ghost)
  gcLive,   \* verb_gc_live, the count VERB_GC_DEBUG prints at exit
  drain     \* nested verb_release_value calls on blocks that reached zero

heap == <<kind, rc, own, len, cap, orphan, gcLive, drain>>

(***************************************************************************)
(* Values and slots.                                                       *)
(***************************************************************************)
Value == Block \cup {Nil}

Kind == {"free", "str", "clos", "env", "arr", "map", "struct", "enum", "cell"}

LocalName == Name \cup {CollName}

Field(b, i) == <<b, i>>
Temp(i)     == <<"temp", i>>
Reg         == <<"reg", 0>>
Glob(x)     == <<"glob", x>>
Local(d, x) == <<"scope", <<d, x>>>>

FieldSlot == Block \X (1 .. Width)
RootSlot  == ({"temp"} \X (1 .. MaxTemp)) \cup {Reg} \cup ({"glob"} \X Name)
               \cup ({"scope"} \X ((1 .. MaxDepth) \X LocalName))
Slot      == FieldSlot \cup RootSlot

\* How many slots own a reference to b.
NRefs(f, b) == Cardinality({s \in Slot : f[s] = b})

Live == {b \in Block : kind[b] # "free"}

Free(b) == b \in Block /\ kind[b] = "free"

\* What the blocks of B refer to.
Children(f, B) == {f[Field(b, i)] : b \in B, i \in 1 .. Width} \ {Nil}

\* The blocks that can be reached from those of B.
Reach(f, B) ==
  LET R[n \in 0 .. Cardinality(Block)] ==
        IF n = 0 THEN B ELSE LET P == R[n - 1] IN P \cup Children(f, P)
  IN  R[Cardinality(Block)]

(***************************************************************************)
(* Ownership transfers.  Put overwrites a slot, Exchange moves the         *)
(* references of two slots both ways (one of them usually owns nothing).   *)
(***************************************************************************)
Put(f, s, v)      == [f EXCEPT ![s] = v]
Exchange(f, s, t) == [f EXCEPT ![s] = f[t], ![t] = f[s]]

\* Mutant of Retain: the second home of a reference is not counted.
NoRetain(v) == rc

\* verb_retain_value on a value read from some slot.
Retain(v) == IF v \in Block THEN [rc EXCEPT ![v] = @ + 1] ELSE rc

(***************************************************************************)
(* verb_alloc: a fresh block of kind k with n fields and the refcount word *)
(* already 1, held by whoever called it.                                   *)
(***************************************************************************)
Alloc(b, k, n) ==
  /\ Free(b)
  /\ kind' = [kind EXCEPT ![b] = k]
  /\ len'  = [len EXCEPT ![b] = n]
  /\ rc'   = [rc EXCEPT ![b] = 1]

\* The elems buffer of an array is a second verb_alloc block.
Buffers(c) == IF c = 0 THEN 0 ELSE 1

\* Mutant of Drop: the zero test compares the count before the decrement
\* with 2, so a block is freed while one reference to it remains.
DropEarly(s) ==
  LET b == own[s] IN
  /\ b \in Block
  /\ own' = Put(own, s, Nil)
  /\ rc' = [rc EXCEPT ![b] = @ - 1]
  /\ drain' = IF rc[b] = 2 THEN <<b>> \o drain ELSE drain
  /\ UNCHANGED <<kind, len, cap, orphan, gcLive>>

(***************************************************************************)
(* verb_release_value (verb_release_cell, for a cell) on the reference a   *)
(* slot owns: decrement, and enter the cascade when the count is zero.     *)
(***************************************************************************)
Drop(s) ==
  LET b == own[s] IN
  /\ b \in Block
  /\ own' = Put(own, s, Nil)
  /\ rc' = [rc EXCEPT ![b] = @ - 1]
  /\ drain' = IF rc[b] = 1 THEN <<b>> \o drain ELSE drain
  /\ UNCHANGED <<kind, len, cap, orphan, gcLive>>

Owning(b) == {i \in 1 .. Width : own[Field(b, i)] # Nil}

\* One child of the block at the top of the cascade, lowest index first.
ReleaseChild ==
  /\ drain # <<>>
  /\ \E i \in Owning(Head(drain)) :
        /\ \A j \in Owning(Head(drain)) : i <= j
        /\ Drop(Field(Head(drain), i))

\* Mutant of FreeBlock: the freed block stays in the cascade.
FreeBlockKept ==
  /\ drain # <<>>
  /\ Owning(Head(drain)) = {}
  /\ LET b == Head(drain) IN
       /\ kind' = [kind EXCEPT ![b] = "free"]
       /\ len' = [len EXCEPT ![b] = 0]
       /\ cap' = [cap EXCEPT ![b] = 0]
       /\ gcLive' = gcLive - 1 - Buffers(cap[b])
  /\ UNCHANGED <<rc, own, orphan, drain>>

\* No child left: the block is freed, and with it an array's elems buffer.
FreeBlock ==
  /\ drain # <<>>
  /\ Owning(Head(drain)) = {}
  /\ LET b == Head(drain) IN
       /\ kind' = [kind EXCEPT ![b] = "free"]
       /\ len' = [len EXCEPT ![b] = 0]
       /\ cap' = [cap EXCEPT ![b] = 0]
       /\ gcLive' = gcLive - 1 - Buffers(cap[b])
  /\ drain' = Tail(drain)
  /\ UNCHANGED <<rc, own, orphan>>

Cascade == ReleaseChild \/ FreeBlock

HeapInit ==
  /\ kind = [b \in Block |-> "free"]
  /\ rc = [b \in Block |-> 0]
  /\ own = [s \in Slot |-> Nil]
  /\ len = [b \in Block |-> 0]
  /\ cap = [b \in Block |-> 0]
  /\ orphan = [b \in Block |-> 0]
  /\ gcLive = 0
  /\ drain = <<>>

HeapTypeOK ==
  /\ kind \in [Block -> Kind]
  /\ rc \in [Block -> Nat]
  /\ own \in [Slot -> Value]
  /\ len \in [Block -> 0 .. Width]
  /\ cap \in [Block -> Nat]
  /\ orphan \in [Block -> Nat]
  /\ gcLive \in Int
  /\ drain \in Seq(Block)

(***************************************************************************)
(* What the refcounting design promises.                                   *)
(***************************************************************************)

(* Every header counts exactly the references that exist: one per owning   *)
(* slot and one per reference lost by an overwrite.  A missing retain or a *)
(* double release anywhere in the generated code breaks it.                *)
RefExact == \A b \in Block : rc[b] = NRefs(own, b) + orphan[b]

(* A freed block is referenced from nowhere (no slot can be used to read   *)
(* memory verb_release_value already gave back), and owns nothing.         *)
NoDangling ==
  \A b \in Block : kind[b] = "free" => NRefs(own, b) = 0 /\ Owning(b) = {}

(* The nested releases under way are on distinct live blocks that nobody   *)
(* references any more, so no block is freed twice by a cascade, and every *)
(* block whose count is zero is being freed.                               *)
CascadeOwnsItsBlocks ==
  /\ \A i \in 1 .. Len(drain) : kind[drain[i]] # "free" /\ rc[drain[i]] = 0
  /\ \A i, j \in 1 .. Len(drain) : drain[i] = drain[j] => i = j
  /\ \A b \in Live : rc[b] = 0 => \E i \in 1 .. Len(drain) : drain[i] = b

(* verb_gc_live counts the outstanding verb_alloc blocks: one per live     *)
(* block and one more per array that has an elems buffer.                  *)
LiveCountExact ==
  gcLive = Cardinality(Live)
             + Cardinality({b \in Live : kind[b] = "arr" /\ cap[b] # 0})
=============================================================================
