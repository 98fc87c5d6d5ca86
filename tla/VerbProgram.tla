---------------------------- MODULE VerbProgram ----------------------------
(***************************************************************************)
(* The code src/codegen.rs generates for one frame of a Verb program       *)
(* (top-level statements, blocks, loops, each, match, arrays, records and  *)
(* variants), as a machine over the heap of VerbHeap.                      *)
(*                                                                         *)
(* Expressions run in postfix order over operand temporaries: each         *)
(* gen_expr leaves one owned reference in Temp(sp), a runtime helper reads *)
(* the topmost temporaries, leaves its result in Reg and lowers sp.        *)
(* Temporaries above sp are operands whose verb_release_value call is due. *)
(* Recursion inside verb_release_value is run to the end (Cascade) before  *)
(* the generated code continues; which program runs is left open.          *)
(***************************************************************************)
EXTENDS VerbHeap

CONSTANTS
  Lang,     \* the groups of language constructs the program uses
  MaxLost   \* bound on the references to one block that array set loses

ProgramAssumption ==
  /\ Lang \subseteq {"str", "arr", "set", "rec", "match", "each", "loop", "error"}
  /\ MaxLost \in Nat

ASSUME ProgramAssumption

VARIABLES
  sp,       \* operand temporaries in use
  todo,     \* what the current expression or match arm still has to do
  depth,    \* scopes open at run time
  target,   \* depth the scopes are being released down to
  loops,    \* body_scope_depth of the enclosing while and for loops
  fe,       \* the enclosing each loops over a collection
  lit,      \* array literals whose elements are being evaluated
  status    \* of the process

ctl  == <<depth, target, loops, fe, lit, status>>
vars == <<heap, sp, todo, ctl>>

Idle      == [op |-> "none", n |-> 0]
Result    == [op |-> "result", n |-> 0]
Fill(k)   == [op |-> "fill", n |-> k]
Load(k)   == [op |-> "load", n |-> k]
Binding   == [op |-> "bind", n |-> 0]

EachLoop == [coll : Value, idx : 0 .. Width, n : 0 .. Width, d : 1 .. MaxDepth]
Literal  == [at : 1 .. MaxTemp, n : 0 .. Width]

ControlOK ==
  /\ sp \in 0 .. MaxTemp
  /\ todo \in [op : {"none", "result", "fill", "load", "bind"}, n : 0 .. Width]
  /\ depth \in 0 .. MaxDepth
  /\ target \in 0 .. MaxDepth
  /\ loops \in Seq(1 .. MaxDepth)
  /\ fe \in Seq(EachLoop)
  /\ lit \in Seq(Literal)
  /\ status \in {"running", "ending", "ended", "aborted"}

TypeOK == HeapTypeOK /\ ControlOK

Init ==
  /\ HeapInit
  /\ sp = 0
  /\ todo = Idle
  /\ depth = 0
  /\ target = 0
  /\ loops = <<>>
  /\ fe = <<>>
  /\ lit = <<>>
  /\ status = "running"

(***************************************************************************)
(* Where the generated code is.                                            *)
(***************************************************************************)
Due == {i \in sp + 1 .. MaxTemp : own[Temp(i)] # Nil}

Settled == status \in {"running", "ending"} /\ drain = <<>> /\ Due = {}

InnerEach == fe[Len(fe)]

\* Between two iterations of an each loop: at its `cond` block.
AtEachCond == fe # <<>> /\ InnerEach.d = depth

\* The next instruction belongs to an expression or starts a statement.
Ready ==
  /\ Settled
  /\ status = "running"
  /\ depth = target
  /\ todo = Idle
  /\ ~AtEachCond

\* Temporaries below an open array literal belong to the outer expression.
Floor == IF lit = <<>> THEN 0 ELSE lit[Len(lit)].at

Operands(k) == Ready /\ sp - k >= Floor

AtStatement == Ready /\ sp = 0
\* The one value a statement was given has been evaluated.
Evaluated   == Ready /\ sp = 1 /\ lit = <<>>

Top == own[Temp(sp)]

IsKind(v, k) == v \in Block /\ kind[v] = k

\* A helper that read k operands returns what it left in Reg.
Returns(k) ==
  /\ sp' = sp - k
  /\ todo' = Result
  /\ UNCHANGED ctl

\* lookup: the cell of the innermost scope that binds x, else its global.
Resolves(x, s) ==
  \/ \E d \in 1 .. depth :
        /\ own[Local(d, x)] # Nil
        /\ \A e \in d + 1 .. depth : own[Local(e, x)] = Nil
        /\ s = Field(own[Local(d, x)], 1)
  \/ /\ \A d \in 1 .. depth : own[Local(d, x)] = Nil
     /\ s = Glob(x)

(***************************************************************************)
(* The releases that follow a helper, a statement or a scope.              *)
(***************************************************************************)
ReleaseOperand ==
  /\ status \in {"running", "ending"}
  /\ drain = <<>>
  /\ \E i \in Due : (\A j \in Due : i <= j) /\ Drop(Temp(i))
  /\ UNCHANGED <<sp, todo, ctl>>

RunCascade ==
  /\ Cascade
  /\ UNCHANGED <<sp, todo, ctl>>

PushResult ==
  /\ Settled
  /\ todo = Result
  /\ sp < MaxTemp
  /\ own' = Exchange(own, Reg, Temp(sp + 1))
  /\ sp' = sp + 1
  /\ todo' = Idle
  /\ UNCHANGED <<kind, rc, len, cap, orphan, gcLive, drain, ctl>>

\* release_scope, one cell at a time in the order of a HashMap.
ReleaseLocal ==
  /\ Settled
  /\ depth > target
  /\ \E x \in LocalName : Drop(Local(depth, x))
  /\ UNCHANGED <<sp, todo, ctl>>

\* Mutant of LeaveScope: the scope is popped, its cells are not released.
LeaveScopeEarly ==
  /\ Settled
  /\ depth > target
  /\ depth' = depth - 1
  /\ UNCHANGED <<heap, sp, todo, target, loops, fe, lit, status>>

LeaveScope ==
  /\ Settled
  /\ depth > target
  /\ \A x \in LocalName : own[Local(depth, x)] = Nil
  /\ depth' = depth - 1
  /\ UNCHANGED <<heap, sp, todo, target, loops, fe, lit, status>>

(***************************************************************************)
(* Expressions.                                                            *)
(***************************************************************************)

\* A literal that is not counted: a number, a bool, nil, a static string.
PushConst ==
  /\ Ready
  /\ sp < MaxTemp
  /\ sp' = sp + 1
  /\ UNCHANGED <<heap, todo, ctl>>

\* Expr::Var loads the variable and retains what it loaded.
LoadVar(x) ==
  /\ Ready
  /\ sp < MaxTemp
  /\ \E s \in Slot :
       /\ Resolves(x, s)
       /\ own' = Put(own, Temp(sp + 1), own[s])
       /\ rc' = Retain(own[s])
  /\ sp' = sp + 1
  /\ UNCHANGED <<kind, len, cap, orphan, gcLive, drain, todo, ctl>>

\* Arithmetic, comparison, equality, not, print, len, str_len, is_err...
ScalarOp(k) ==
  /\ Operands(k)
  /\ Returns(k)
  /\ UNCHANGED heap

\* ++ , str_slice and the other helpers that build a string.
StringOp(k, b) ==
  /\ "str" \in Lang
  /\ Operands(k)
  /\ Alloc(b, "str", 0)
  /\ own' = Put(own, Reg, b)
  /\ gcLive' = gcLive + 1
  /\ UNCHANGED <<cap, orphan, drain>>
  /\ Returns(k)

\* `and` and `or` whose result is the right operand: the left is released.
ShortCircuit ==
  /\ Operands(2)
  /\ own' = Exchange(own, Temp(sp - 1), Temp(sp))
  /\ sp' = sp - 1
  /\ UNCHANGED <<kind, rc, len, cap, orphan, gcLive, drain, todo, ctl>>

(***************************************************************************)
(* Arrays.  verb_array_check admits the indices 0 .. len - 1; elements are *)
(* numbered from 1 here.                                                   *)
(***************************************************************************)

\* Expr::ArrayLit: header and buffer first, then the elements one by one.
OpenArray(n, b) ==
  /\ "arr" \in Lang
  /\ Ready
  /\ sp < MaxTemp
  /\ n = 0 \/ sp + 1 < MaxTemp
  /\ Alloc(b, "arr", 0)
  /\ cap' = [cap EXCEPT ![b] = n]
  /\ own' = Put(own, Temp(sp + 1), b)
  /\ gcLive' = gcLive + 1 + Buffers(n)
  /\ sp' = sp + 1
  /\ lit' = Append(lit, [at |-> sp + 1, n |-> n])
  /\ UNCHANGED <<orphan, drain, todo, depth, target, loops, fe, status>>

StoreElement ==
  /\ Ready
  /\ lit # <<>>
  /\ sp = Floor + 1
  /\ LET a == own[Temp(Floor)] IN
       /\ a \in Block
       /\ len[a] < lit[Len(lit)].n
       /\ own' = Exchange(own, Temp(sp), Field(a, len[a] + 1))
       /\ len' = [len EXCEPT ![a] = @ + 1]
  /\ sp' = sp - 1
  /\ UNCHANGED <<kind, rc, cap, orphan, gcLive, drain, todo, ctl>>

CloseArray ==
  /\ Ready
  /\ lit # <<>>
  /\ sp = Floor
  /\ LET a == own[Temp(sp)] IN a \in Block /\ len[a] = lit[Len(lit)].n
  /\ lit' = SubSeq(lit, 1, Len(lit) - 1)
  /\ UNCHANGED <<heap, sp, todo, depth, target, loops, fe, status>>

\* get: the element is retained, the array and the index are released.
ArrayGet ==
  /\ Operands(2)
  /\ LET a == own[Temp(sp - 1)] IN
       /\ IsKind(a, "arr")
       /\ Top = Nil
       /\ \E i \in 1 .. len[a] :
            /\ own' = Put(own, Reg, own[Field(a, i)])
            /\ rc' = Retain(own[Field(a, i)])
  /\ UNCHANGED <<kind, len, cap, orphan, gcLive, drain>>
  /\ Returns(2)

\* set: v now lives in the slot and in the result; what was in the slot is
\* overwritten without a release.
ArraySet ==
  /\ "set" \in Lang
  /\ Operands(3)
  /\ LET a == own[Temp(sp - 2)]
         v == Top
     IN  /\ IsKind(a, "arr")
         /\ own[Temp(sp - 1)] = Nil
         /\ \E i \in 1 .. len[a] :
              LET old == own[Field(a, i)] IN
              /\ old \in Block => orphan[old] < MaxLost
              /\ own' = Put(Put(Put(own, Reg, v), Field(a, i), v), Temp(sp), Nil)
              /\ rc' = Retain(v)
              /\ orphan' = IF old \in Block THEN [orphan EXCEPT ![old] = @ + 1]
                                            ELSE orphan
  /\ UNCHANGED <<kind, len, cap, gcLive, drain>>
  /\ Returns(3)

NewCap(c) == IF c = 0 THEN 1 ELSE 2 * c

\* Mutant of GrowLive: the old buffer is never freed.
GrowLiveKeepOld(c) == gcLive + 1

GrowLive(c) == gcLive + 1 - Buffers(c)

\* push: grows a full array (a new buffer is allocated, the old one, if any,
\* is freed), then the operand itself moves into the first free element.
ArrayPush ==
  /\ Operands(2)
  /\ LET a == own[Temp(sp - 1)] IN
       /\ IsKind(a, "arr")
       /\ len[a] < Width
       /\ own' = Exchange(own, Temp(sp), Field(a, len[a] + 1))
       /\ len' = [len EXCEPT ![a] = @ + 1]
       /\ IF len[a] = cap[a]
            THEN /\ cap' = [cap EXCEPT ![a] = NewCap(@)]
                 /\ gcLive' = GrowLive(cap[a])
            ELSE UNCHANGED <<cap, gcLive>>
  /\ UNCHANGED <<kind, rc, orphan, drain>>
  /\ Returns(2)

\* pop: the last element moves out of the array.
ArrayPop ==
  /\ Operands(1)
  /\ LET a == Top IN
       /\ IsKind(a, "arr")
       /\ len[a] > 0
       /\ own' = Exchange(own, Reg, Field(a, len[a]))
       /\ len' = [len EXCEPT ![a] = @ - 1]
  /\ UNCHANGED <<kind, rc, cap, orphan, gcLive, drain>>
  /\ Returns(1)

(***************************************************************************)
(* Records (`shape`) and variants (`choice`).                              *)
(***************************************************************************)

\* Construction: the fields are evaluated first, then moved into the block.
Construct(k, b, n) ==
  /\ "rec" \in Lang
  /\ Operands(n)
  /\ n > 0 \/ sp < MaxTemp
  /\ Alloc(b, k, n)
  /\ own' = Put(own, Reg, b)
  /\ gcLive' = gcLive + 1
  /\ todo' = Fill(n)
  /\ UNCHANGED <<cap, orphan, drain, sp, ctl>>

StoreField ==
  /\ Settled
  /\ todo.op = "fill"
  /\ todo.n > 0
  /\ sp > 0
  /\ own[Reg] \in Block
  /\ own' = Exchange(own, Temp(sp), Field(own[Reg], todo.n))
  /\ sp' = sp - 1
  /\ todo' = Fill(todo.n - 1)
  /\ UNCHANGED <<kind, rc, len, cap, orphan, gcLive, drain, ctl>>

Constructed ==
  /\ Settled
  /\ todo = Fill(0)
  /\ todo' = Result
  /\ UNCHANGED <<heap, sp, ctl>>

FieldName(v) == v = Nil \/ IsKind(v, "str")

\* x.f and getf on a struct, err_kind and err_msg on an Err: the field is
\* retained, the operands are released.  k counts getf's field name.
FieldGet(k) ==
  /\ Operands(k)
  /\ LET o == own[Temp(sp - k + 1)] IN
       /\ IsKind(o, "struct") \/ (k = 1 /\ IsKind(o, "enum"))
       /\ k = 2 => FieldName(Top)
       /\ \E i \in 1 .. len[o] :
            /\ own' = Put(own, Reg, own[Field(o, i)])
            /\ rc' = Retain(own[Field(o, i)])
  /\ UNCHANGED <<kind, len, cap, orphan, gcLive, drain>>
  /\ Returns(k)

\* Mutant of FieldSet: the field's old value is overwritten.
FieldSetLosesOld(k) ==
  /\ Operands(k)
  /\ LET o == own[Temp(sp - k + 1)] IN
       /\ IsKind(o, "struct")
       /\ k = 3 => FieldName(own[Temp(sp - 1)])
       /\ \E i \in 1 .. len[o] :
            own' = Put(Put(Put(own, Reg, Top), Field(o, i), Top), Temp(sp), Nil)
       /\ rc' = Retain(Top)
  /\ UNCHANGED <<kind, len, cap, orphan, gcLive, drain>>
  /\ Returns(k)

\* x.f = v and setf: the old value is released (it takes v's place among
\* the operands that are due), v is retained for the field and returned.
FieldSet(k) ==
  /\ Operands(k)
  /\ LET o == own[Temp(sp - k + 1)] IN
       /\ IsKind(o, "struct")
       /\ k = 3 => FieldName(own[Temp(sp - 1)])
       /\ \E i \in 1 .. len[o] :
            own' = Put(Exchange(own, Temp(sp), Field(o, i)), Reg, Top)
       /\ rc' = Retain(Top)
  /\ UNCHANGED <<kind, len, cap, orphan, gcLive, drain>>
  /\ Returns(k)

(***************************************************************************)
(* Statements.                                                             *)
(***************************************************************************)

\* An expression statement; the condition of if, while and for; the
\* scrutinee of a match no arm of which applies.
Discard ==
  /\ Evaluated
  /\ sp' = 0
  /\ UNCHANGED <<heap, todo, ctl>>

\* bind at top level, and a reassignment: the old value takes the place of
\* the operand and is released.
StoreVar(s) ==
  /\ own' = Exchange(own, Temp(sp), s)
  /\ sp' = sp - 1
  /\ UNCHANGED <<kind, rc, len, cap, orphan, gcLive, drain, todo, ctl>>

AssignGlobal(x) == Evaluated /\ depth = 0 /\ StoreVar(Glob(x))

Reassign(x) == Evaluated /\ \E s \in Slot : Resolves(x, s) /\ StoreVar(s)

\* bind in a scope: a new cell for the value; a cell the scope already had
\* under that name takes the place of the operand and is released.
NewCell(d, x, c) ==
  /\ Alloc(c, "cell", 1)
  /\ own' = Put(Exchange(Exchange(own, Temp(sp), Field(c, 1)),
                         Temp(sp), Local(d, x)),
                Local(d, x), c)
  /\ gcLive' = gcLive + 1
  /\ UNCHANGED <<cap, orphan, drain>>

AssignLocal(x, c) ==
  /\ Evaluated
  /\ depth > 0
  /\ NewCell(depth, x, c)
  /\ sp' = sp - 1
  /\ UNCHANGED <<todo, ctl>>

\* Block, the branches of if, the scope around a for loop.
EnterScope ==
  /\ AtStatement
  /\ depth < MaxDepth
  /\ depth' = depth + 1
  /\ target' = depth + 1
  /\ UNCHANGED <<heap, sp, todo, loops, fe, lit, status>>

\* The body of a while or for loop, which leave and next refer to.
EnterLoopBody ==
  /\ "loop" \in Lang
  /\ AtStatement
  /\ depth < MaxDepth
  /\ depth' = depth + 1
  /\ target' = depth + 1
  /\ loops' = Append(loops, depth + 1)
  /\ UNCHANGED <<heap, sp, todo, fe, lit, status>>

InLoopBody == loops # <<>> /\ loops[Len(loops)] = depth

\* The end of a block: its scope is released, in a loop the body ends.
EndScope ==
  /\ AtStatement
  /\ depth > 0
  /\ target' = depth - 1
  /\ loops' = IF InLoopBody THEN SubSeq(loops, 1, Len(loops) - 1) ELSE loops
  /\ UNCHANGED <<heap, sp, todo, depth, fe, lit, status>>

\* leave and next: every scope from the loop body inwards is released,
\* those of each loops nested in it included.
LeaveOrNext ==
  /\ AtStatement
  /\ loops # <<>>
  /\ target' = loops[Len(loops)] - 1
  /\ loops' = SubSeq(loops, 1, Len(loops) - 1)
  /\ \E k \in 0 .. Len(fe) :
       /\ \A i \in 1 .. Len(fe) : fe[i].d < loops[Len(loops)] <=> i <= k
       /\ fe' = SubSeq(fe, 1, k)
  /\ UNCHANGED <<heap, sp, todo, depth, lit, status>>

(***************************************************************************)
(* `each` over a collection.                                               *)
(***************************************************************************)

\* The collection moves into a hidden cell of a new scope; its length is
\* read once.  A string's length is not part of the model.
BeginEach(c, n) ==
  /\ "each" \in Lang
  /\ Evaluated
  /\ depth + 1 < MaxDepth
  /\ IF IsKind(Top, "arr") THEN n = len[Top] ELSE Top = Nil \/ IsKind(Top, "str")
  /\ NewCell(depth + 1, CollName, c)
  /\ sp' = sp - 1
  /\ depth' = depth + 1
  /\ target' = depth + 1
  /\ fe' = Append(fe, [coll |-> Top, idx |-> 0, n |-> n, d |-> depth + 1])
  /\ UNCHANGED <<todo, loops, lit, status>>

AtCond == Settled /\ status = "running" /\ depth = target /\ todo = Idle /\ AtEachCond

\* verb_array_get (which checks the index again, the body may have popped)
\* or verb_char_at fetches the element; Binding then binds it.
FetchElement(b) ==
  LET a == InnerEach.coll
      i == InnerEach.idx + 1
  IN  IF IsKind(a, "arr")
        THEN /\ i <= len[a]
             /\ own' = Put(own, Temp(sp + 1), own[Field(a, i)])
             /\ rc' = Retain(own[Field(a, i)])
             /\ UNCHANGED <<kind, len, gcLive>>
        ELSE /\ a = Nil \/ IsKind(a, "str")
             /\ Alloc(b, "str", 0)
             /\ own' = Put(own, Temp(sp + 1), b)
             /\ gcLive' = gcLive + 1

EachIteration(b) ==
  /\ AtCond
  /\ InnerEach.idx < InnerEach.n
  /\ depth < MaxDepth
  /\ sp < MaxTemp
  /\ FetchElement(b)
  /\ UNCHANGED <<cap, orphan, drain>>
  /\ sp' = sp + 1
  /\ todo' = Binding
  /\ depth' = depth + 1
  /\ target' = depth + 1
  /\ fe' = [fe EXCEPT ![Len(fe)].idx = @ + 1]
  /\ UNCHANGED <<loops, lit, status>>

EndEach ==
  /\ AtCond
  /\ InnerEach.idx >= InnerEach.n
  /\ target' = depth - 1
  /\ fe' = SubSeq(fe, 1, Len(fe) - 1)
  /\ UNCHANGED <<heap, sp, todo, depth, loops, lit, status>>

(***************************************************************************)
(* `match`: the fields of the variant are loaded and retained, then the    *)
(* scrutinee is released, then the fields are bound in a new scope.        *)
(***************************************************************************)
MatchArm ==
  /\ "match" \in Lang
  /\ Evaluated
  /\ IsKind(Top, "enum")
  /\ depth < MaxDepth
  /\ sp + len[Top] <= MaxTemp
  /\ todo' = Load(len[Top])
  /\ UNCHANGED <<heap, sp, ctl>>

LoadField ==
  /\ Settled
  /\ todo.op = "load"
  /\ todo.n > 0
  /\ sp < MaxTemp
  /\ LET e == own[Temp(1)] IN
       /\ e \in Block
       /\ own' = Put(own, Temp(sp + 1), own[Field(e, todo.n)])
       /\ rc' = Retain(own[Field(e, todo.n)])
  /\ sp' = sp + 1
  /\ todo' = Load(todo.n - 1)
  /\ UNCHANGED <<kind, len, cap, orphan, gcLive, drain, ctl>>

\* The scrutinee changes places with the last field loaded and is released.
ReleaseScrutinee ==
  /\ Settled
  /\ todo = Load(0)
  /\ sp > 0
  /\ depth < MaxDepth
  /\ own' = Exchange(own, Temp(1), Temp(sp))
  /\ sp' = sp - 1
  /\ depth' = depth + 1
  /\ target' = depth + 1
  /\ todo' = IF sp = 1 THEN Idle ELSE Binding
  /\ UNCHANGED <<kind, rc, len, cap, orphan, gcLive, drain, loops, fe, lit, status>>

\* The bindings of a match arm and of an each iteration.
BindNext(x, c) ==
  /\ Settled
  /\ todo = Binding
  /\ sp > 0
  /\ depth > 0
  /\ NewCell(depth, x, c)
  /\ sp' = sp - 1
  /\ todo' = IF sp = 1 THEN Idle ELSE Binding
  /\ UNCHANGED ctl

(***************************************************************************)
(* The end of the process.                                                 *)
(***************************************************************************)

OutOfMemory == todo.op \in {"none", "bind"} /\ \A b \in Block : ~Free(b)

\* The body of an each loop popped the element the loop is about to fetch.
IndexGone ==
  /\ AtCond
  /\ InnerEach.idx < InnerEach.n
  /\ IsKind(InnerEach.coll, "arr")
  /\ InnerEach.idx >= len[InnerEach.coll]

\* A failed type, bounds or overflow check, a match without a matching arm.
RuntimeError == "error" \in Lang /\ Ready /\ sp > 0

\* abort_at and abort_msg end the process.
Abort ==
  /\ Settled
  /\ status = "running"
  /\ OutOfMemory \/ IndexGone \/ RuntimeError
  /\ status' = "aborted"
  /\ UNCHANGED <<heap, sp, todo, depth, target, loops, fe, lit>>

\* compile_program: after the last statement every global is released.
EndProgram ==
  /\ AtStatement
  /\ depth = 0
  /\ status' = "ending"
  /\ UNCHANGED <<heap, sp, todo, depth, target, loops, fe, lit>>

ReleaseGlobal ==
  /\ Settled
  /\ status = "ending"
  /\ \E x \in Name : Drop(Glob(x))
  /\ UNCHANGED <<sp, todo, ctl>>

Exit ==
  /\ Settled
  /\ status = "ending"
  /\ \A x \in Name : own[Glob(x)] = Nil
  /\ status' = "ended"
  /\ UNCHANGED <<heap, sp, todo, depth, target, loops, fe, lit>>

\* The process is over.
Stopped == status \in {"ended", "aborted"} /\ UNCHANGED vars

Releasing ==
  \/ ReleaseOperand
  \/ RunCascade
  \/ PushResult
  \/ ReleaseLocal
  \/ LeaveScope
  \/ ReleaseGlobal
  \/ Exit

Expression ==
  \/ PushConst
  \/ \E x \in Name : LoadVar(x)
  \/ \E k \in 1 .. 2 : ScalarOp(k)
  \/ \E k \in 1 .. 3, b \in Block : StringOp(k, b)
  \/ ShortCircuit
  \/ \E n \in 0 .. Width, b \in Block : OpenArray(n, b)
  \/ StoreElement
  \/ CloseArray
  \/ ArrayGet
  \/ ArraySet
  \/ ArrayPush
  \/ ArrayPop
  \/ \E k \in {"struct", "enum"}, b \in Block, n \in 0 .. Width : Construct(k, b, n)
  \/ StoreField
  \/ Constructed
  \/ \E k \in 1 .. 2 : FieldGet(k)
  \/ \E k \in 2 .. 3 : FieldSet(k)

Statement ==
  \/ Discard
  \/ \E x \in Name : AssignGlobal(x)
  \/ \E x \in Name : Reassign(x)
  \/ \E x \in Name, c \in Block : AssignLocal(x, c)
  \/ EnterScope
  \/ EnterLoopBody
  \/ EndScope
  \/ LeaveOrNext
  \/ \E c \in Block, n \in 0 .. Width : BeginEach(c, n)
  \/ \E b \in Block : EachIteration(b)
  \/ EndEach
  \/ MatchArm
  \/ LoadField
  \/ ReleaseScrutinee
  \/ \E x \in Name, c \in Block : BindNext(x, c)
  \/ Abort
  \/ EndProgram

Next == Releasing \/ Expression \/ Statement \/ Stopped

\* The generated code never waits: a release that is due is carried out.
Fairness == WF_vars(Releasing)

Spec == Init /\ [][Next]_vars /\ Fairness

(***************************************************************************)
(* Properties.                                                             *)
(***************************************************************************)

(* An each loop reads its collection through a pointer it does not count   *)
(* itself: what keeps the collection alive while the body reassigns the    *)
(* variable it came from is the hidden cell, and that cell still holds it. *)
EachCollectionParked ==
  \A k \in 1 .. Len(fe) :
    fe[k].coll \in Block =>
      LET c == own[Local(fe[k].d, CollName)] IN
      /\ IsKind(c, "cell")
      /\ own[Field(c, 1)] = fe[k].coll
      /\ kind[fe[k].coll] \in {"arr", "map", "str"}

(* Whatever way a scope is left (its end, leave or next out of several     *)
(* scopes and each loops at once), no cell of it survives.                 *)
NoStrandedLocals ==
  \A d \in 1 .. MaxDepth, x \in LocalName :
    d > depth => own[Local(d, x)] = Nil

(* Both, in a well-formed state: what a scope holds is held until it is    *)
(* left and no longer.                                                     *)
ScopesExact == TypeOK /\ NoStrandedLocals /\ EachCollectionParked

Cyclic == {b \in Live : b \in Reach(own, Children(own, {b}))}

Lost == {b \in Live : orphan[b] > 0}

(* A program that runs to its end leaves behind only what a refcounter     *)
(* cannot free (cycles) and what array set lost, with all they refer to.   *)
OnlyLostOrCyclicSurvive ==
  status = "ended" => Live \subseteq Reach(own, Lost \cup Cyclic)

(* The design's goal: a program whose blocks form no cycle leaks nothing.  *)
AcyclicLeaksNothing ==
  status = "ended" /\ Cyclic = {} => Live = {} /\ gcLive = 0

Held == Cardinality({s \in Slot : own[s] # Nil}) + Cardinality(Live)

(* A cascade cannot run in circles, however the blocks it frees refer to   *)
(* each other, and neither can the releases at the end of the program:     *)
(* each step leaves fewer references or blocks than it found.              *)
ReleasesShrink ==
  [][drain # <<>> \/ (status = "ending" /\ status' = "ending") => Held' < Held]_vars
=============================================================================
