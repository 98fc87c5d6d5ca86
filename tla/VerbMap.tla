------------------------------ MODULE VerbMap ------------------------------
(***************************************************************************)
(* runtime/verb_map.cpp, as the program of VerbProgram uses it: the calls  *)
(* gen_std_io_call generates (every argument is released after the call),  *)
(* `each` over a map, and the release of a map.                            *)
(*                                                                         *)
(* An entry i of a map m owns its value, Field(m, i).  Its key is the      *)
(* pointer keyOf[m][i], Nil for a number, a bool, nil and a string literal:*)
(* the map never retains it, so it is no Slot.  Which entry a key is equal *)
(* to depends on contents the model leaves out: any entry, or none.        *)
(*                                                                         *)
(* A string made at run time can therefore be freed while it is a key, and *)
(* a map that is freed releases a key it never owned.  What such a program *)
(* does then is undefined: it is `spoiled`, and the model ends.            *)
(***************************************************************************)
EXTENDS VerbProgram

CONSTANT Gone   \* the key of an entry whose string has been freed

ASSUME MapAssumption == Gone \notin Value

VARIABLES
  keyOf,     \* the key of each entry
  spoiled    \* a freed string was read, or a reference nobody owned released

mapVars == <<vars, keyOf, spoiled>>

NoKeys == [i \in 1 .. Width |-> Nil]

MapInit == Init /\ keyOf = [b \in Block |-> NoKeys] /\ spoiled = FALSE

\* is_valid_key: a number, a bool, nil, a string.
ValidKey(k) == k = Nil \/ IsKind(k, "str")

\* The topmost k operands are a map and what its function takes next.
MapCall(k, m) ==
  /\ Operands(k)
  /\ own[Temp(sp - k + 1)] = m
  /\ IsKind(m, "map")

MapNew(b) ==
  /\ Ready
  /\ sp < MaxTemp
  /\ Alloc(b, "map", 0)
  /\ own' = Put(own, Reg, b)
  /\ gcLive' = gcLive + 1
  /\ keyOf' = [keyOf EXCEPT ![b] = NoKeys]
  /\ UNCHANGED <<cap, orphan, drain, spoiled>>
  /\ Returns(0)

\* map_set of a key the map has: the old value is released, v and m are
\* retained for their second home and released as arguments.
MapOverwrite(m, i) ==
  /\ MapCall(3, m)
  /\ ValidKey(own[Temp(sp - 1)])
  /\ i \in 1 .. len[m]
  /\ own' = Put(Exchange(own, Temp(sp), Field(m, i)), Reg, m)
  /\ rc' = Retain(m)
  /\ UNCHANGED <<kind, len, cap, orphan, gcLive, drain, keyOf, spoiled>>
  /\ Returns(3)

\* map_set of a new key: the key is copied, not retained.
MapInsert(m) ==
  /\ MapCall(3, m)
  /\ LET k == own[Temp(sp - 1)]
         i == len[m] + 1
     IN  /\ ValidKey(k)
         /\ i <= Width
         /\ own' = Put(Exchange(own, Temp(sp), Field(m, i)), Reg, m)
         /\ len' = [len EXCEPT ![m] = i]
         /\ keyOf' = [keyOf EXCEPT ![m][i] = k]
  /\ rc' = Retain(m)
  /\ UNCHANGED <<kind, cap, orphan, gcLive, drain, spoiled>>
  /\ Returns(3)

\* Mutant of MapGet: the value is handed out without a retain.
MapGetUncounted(m, i) ==
  /\ MapCall(2, m)
  /\ i \in 1 .. len[m]
  /\ own' = Put(own, Reg, own[Field(m, i)])
  /\ UNCHANGED <<kind, rc, len, cap, orphan, gcLive, drain, keyOf, spoiled>>
  /\ Returns(2)

\* map_get of a key the map has; of another one it is nil, like map_has and
\* map_len, which ScalarOp stands for.
MapGet(m, i) ==
  /\ MapCall(2, m)
  /\ i \in 1 .. len[m]
  /\ own' = Put(own, Reg, own[Field(m, i)])
  /\ rc' = Retain(own[Field(m, i)])
  /\ UNCHANGED <<kind, len, cap, orphan, gcLive, drain, keyOf, spoiled>>
  /\ Returns(2)

\* unordered_map::erase: the entry goes, nothing is released.
MapRemove(m, i) ==
  /\ MapCall(2, m)
  /\ i \in 1 .. len[m]
  /\ LET old == own[Field(m, i)]
         Next1(j) == IF j < i THEN j ELSE j + 1
         Shifted(f, j) == IF Next1(j) <= Width THEN f[Next1(j)] ELSE Nil
     IN  /\ old \in Block => orphan[old] < MaxLost
         /\ orphan' = IF old \in Block THEN [orphan EXCEPT ![old] = @ + 1] ELSE orphan
         /\ own' = [s \in Slot |->
              IF s \in FieldSlot /\ s[1] = m
                THEN Shifted([j \in 1 .. Width |-> own[Field(m, j)]], s[2])
                ELSE own[s]]
         /\ keyOf' = [keyOf EXCEPT ![m] = [j \in 1 .. Width |-> Shifted(@, j)]]
  /\ len' = [len EXCEPT ![m] = @ - 1]
  /\ UNCHANGED <<kind, rc, cap, gcLive, drain, spoiled>>
  /\ Returns(2)

\* How many of the first n values of f are x.
Copied(f, n, x) == Cardinality({i \in 1 .. n : f[i] = x})

\* map_keys and map_values: a fresh array of n elements, each retained.
Snapshot(b, f, n) ==
  /\ Free(b)
  /\ kind' = [kind EXCEPT ![b] = "arr"]
  /\ len' = [len EXCEPT ![b] = n]
  /\ cap' = [cap EXCEPT ![b] = n]
  /\ rc' = [x \in Block |-> (IF x = b THEN 1 ELSE rc[x]) + Copied(f, n, x)]
  /\ own' = [s \in Slot |->
       IF s = Reg THEN b
       ELSE IF s \in FieldSlot /\ s[1] = b /\ s[2] <= n THEN f[s[2]]
       ELSE own[s]]
  /\ gcLive' = gcLive + 1 + Buffers(n)

\* No entry of m has lost its key.
KeysRead(m) == \A i \in 1 .. len[m] : keyOf[m][i] # Gone

MapSnapshot(m, b) ==
  /\ MapCall(1, m)
  /\ \/ KeysRead(m) /\ Snapshot(b, keyOf[m], len[m])
     \/ Snapshot(b, [i \in 1 .. Width |-> own[Field(m, i)]], len[m])
  /\ UNCHANGED <<orphan, drain, keyOf, spoiled>>
  /\ Returns(1)

\* map_keys retains the freed string; a search may read it, to hash it or to
\* compare it, and a call that got past it is one of the others.
TouchKey(k, m) ==
  /\ MapCall(k, m)
  /\ ~KeysRead(m)
  /\ spoiled' = TRUE
  /\ UNCHANGED <<vars, keyOf>>

(***************************************************************************)
(* `each` over a map: the number of entries is read once, then map_key_at  *)
(* is asked for the key at every index below it.                           *)
(***************************************************************************)
BeginEachMap(c) ==
  /\ "each" \in Lang
  /\ Evaluated
  /\ depth + 1 < MaxDepth
  /\ IsKind(Top, "map")
  /\ NewCell(depth + 1, CollName, c)
  /\ sp' = sp - 1
  /\ depth' = depth + 1
  /\ target' = depth + 1
  /\ fe' = Append(fe, [coll |-> Top, idx |-> 0, n |-> len[Top], d |-> depth + 1])
  /\ UNCHANGED <<todo, loops, lit, status, keyOf, spoiled>>

\* The key at idx, which map_key_at retains.
KeyAt(m, i) == IF i <= len[m] THEN keyOf[m][i] ELSE Nil

EachGoneKey ==
  /\ AtCond
  /\ InnerEach.idx < InnerEach.n
  /\ IsKind(InnerEach.coll, "map")
  /\ KeyAt(InnerEach.coll, InnerEach.idx + 1) = Gone
  /\ spoiled' = TRUE
  /\ UNCHANGED <<vars, keyOf>>

EachKey ==
  /\ AtCond
  /\ InnerEach.idx < InnerEach.n
  /\ depth < MaxDepth
  /\ sp < MaxTemp
  /\ LET m == InnerEach.coll
         k == KeyAt(m, InnerEach.idx + 1)
     IN  /\ IsKind(m, "map")
         /\ k # Gone
         /\ own' = Put(own, Temp(sp + 1), k)
         /\ rc' = Retain(k)
  /\ UNCHANGED <<kind, len, cap, orphan, gcLive, drain>>
  /\ sp' = sp + 1
  /\ todo' = Binding
  /\ depth' = depth + 1
  /\ target' = depth + 1
  /\ fe' = [fe EXCEPT ![Len(fe)].idx = @ + 1]
  /\ UNCHANGED <<loops, lit, status, keyOf, spoiled>>

(***************************************************************************)
(* verb_map_destroy_contents releases the keys too, which the map does not *)
(* own: the count of the string is one too low then, if it still has one.  *)
(***************************************************************************)
KeysToRelease(m) == {i \in 1 .. Width : keyOf[m][i] # Nil}

\* A map is being freed and its keys are due.
KeysDue == drain # <<>> /\ KeysToRelease(Head(drain)) # {}

ReleaseKey ==
  /\ KeysDue
  /\ \E i \in KeysToRelease(Head(drain)) :
       LET k == keyOf[Head(drain)][i] IN
       rc' = IF k = Gone THEN rc ELSE [rc EXCEPT ![k] = @ - 1]
  /\ spoiled' = TRUE
  /\ UNCHANGED <<kind, own, len, cap, orphan, gcLive, drain, sp, todo, ctl, keyOf>>

\* A key whose string is freed has no string any more, also when its block
\* is handed out again.
StepKeys ==
  keyOf' = [m \in Block |-> [i \in 1 .. Width |->
    LET k == keyOf[m][i] IN IF k \in Block /\ kind'[k] = "free" THEN Gone ELSE k]]

\* Every other step of the program; the keys of a map that is freed come
\* before all of them.
OtherStep == Next /\ ~KeysDue /\ StepKeys /\ UNCHANGED spoiled

MapOperation ==
  \/ \E b \in Block : MapNew(b)
  \/ \E m \in Block : MapInsert(m)
  \/ \E m \in Block, i \in 1 .. Width : MapOverwrite(m, i)
  \/ \E m \in Block, i \in 1 .. Width : MapGet(m, i)
  \/ \E m \in Block, i \in 1 .. Width : MapRemove(m, i)
  \/ \E m, b \in Block : MapSnapshot(m, b)
  \/ \E c \in Block : BeginEachMap(c)
  \/ EachKey

Spoiling ==
  \/ ReleaseKey
  \/ \E m \in Block, k \in 1 .. 3 : TouchKey(k, m)
  \/ EachGoneKey

MapNext ==
  \/ ~spoiled /\ (OtherStep \/ MapOperation \/ Spoiling)
  \/ spoiled /\ UNCHANGED mapVars

MapSpec == MapInit /\ [][MapNext]_mapVars

(***************************************************************************)
(* Properties.                                                             *)
(***************************************************************************)

(* Every header counts exactly the references that exist, and verb_gc_live *)
(* the allocations, in every program with maps, whatever its keys are, up  *)
(* to the moment a map reads a key that was freed or gives up one it never *)
(* owned.                                                                  *)
MapCountsExact == ~spoiled => RefExact /\ LiveCountExact

(* The GC contract of verb_map.cpp: a value it duplicates into a second    *)
(* home is retained.  A key in a map is such a home: the string it points  *)
(* to is alive as long as the entry is.                                    *)
KeysAlive == \A m \in Live : kind[m] = "map" => KeysRead(m)
=============================================================================
