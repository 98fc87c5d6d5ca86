---------------------------- MODULE VerbClosures ----------------------------
(***************************************************************************)
(* Functions as values (src/codegen.rs: Stmt::Fn, the closure call at the  *)
(* end of gen_call, Stmt::Return), as a machine over the heap of VerbHeap. *)
(*                                                                         *)
(* A closure block owns its env block (Field(c, 1), Nil for a function     *)
(* that captures nothing); an env block owns a snapshot of each captured   *)
(* value.  A call reads the env out of the closure, releases the closure,  *)
(* and only then enters the body, which is handed the env as a plain       *)
(* pointer: the env of `todo` and of `frames` below is no Slot, nothing    *)
(* counts it.  Each frame has one scope here; nested scopes, loops and     *)
(* match are in VerbProgram.                                               *)
(***************************************************************************)
EXTENDS VerbHeap, FiniteSetsExt

CONSTANTS
  Fn,       \* the names that name functions
  NoName,   \* the parameter of a function that takes none
  Programs  \* the programs, each with the part of the language it uses

Construct == {"str", "reassign", "calltemp", "error"}

\* param: of each function; temps, calls and statements bound the operands
\* of a program, its open calls and the statements it executes.
Program ==
  [param : [Fn -> Name \cup {NoName}], uses : SUBSET Construct,
   temps : 0 .. MaxTemp, calls : 0 .. MaxDepth, statements : Nat]

FnAssumption ==
  /\ Fn \subseteq Name
  /\ NoName \notin Name
  /\ Programs \subseteq Program

ASSUME FnAssumption

VARIABLES
  prog,     \* the program that runs
  sp,       \* operand temporaries in use
  calls,    \* the temporaries that hold the callee of an open call
  frames,   \* active calls: the temporaries in use below each
  code,     \* the function of a closure block and the names it captures
  todo,     \* the definition or the function entry under way
  status,   \* of the process
  ran       \* statements executed so far

vars == <<prog, heap, sp, calls, frames, code, todo, status, ran>>

Code  == [fn : Fn \cup {NoName}, caps : Seq(Name)]

NoCode == [fn |-> NoName, caps |-> <<>>]

\* `todo`: what a definition (env, capture, closure, bind) or the entry of a
\* body (enter, self, captures, param) does next, for which function.
Do(op, c, env, n) == [op |-> op, code |-> c, env |-> env, n |-> n]
Idle == Do("none", NoCode, Nil, 0)

Ops == {"none", "env", "capture", "closure", "bind", "enter", "self", "bindself",
        "load", "bindload", "param", "return"}

Arity(f) == IF prog.param[f] = NoName THEN 0 ELSE 1

ClosTypeOK ==
  /\ HeapTypeOK
  /\ sp \in 0 .. MaxTemp
  /\ calls \in Seq(1 .. MaxTemp)
  /\ frames \in Seq(0 .. MaxTemp) /\ Len(frames) <= MaxDepth
  /\ code \in [Block -> Code]
  /\ todo.op \in Ops /\ todo.code \in Code /\ todo.env \in Value /\ todo.n \in 0 .. Width
  /\ status \in {"running", "ending", "ended", "aborted", "undefined"}
  /\ prog \in Programs
  /\ ran \in 0 .. prog.statements

Init ==
  /\ prog \in Programs
  /\ HeapInit
  /\ sp = 0
  /\ calls = <<>>
  /\ frames = <<>>
  /\ code = [b \in Block |-> NoCode]
  /\ todo = Idle
  /\ status = "running"
  /\ ran = 0

(***************************************************************************)
(* Where the generated code is.                                            *)
(***************************************************************************)
depth == Len(frames)

Due == {i \in sp + 1 .. MaxTemp : own[Temp(i)] # Nil}

Settled == status \in {"running", "ending"} /\ drain = <<>> /\ Due = {}
Doing(op) == Settled /\ status = "running" /\ todo.op = op
Ready == Doing("none")

Base  == IF frames = <<>> THEN 0 ELSE frames[depth]
Floor == IF calls = <<>> THEN Base ELSE Max({Base, calls[Len(calls)]})

\* Between two statements; after the one value a statement was given.
AtStatement == Ready /\ sp = Base
Evaluated   == Ready /\ sp = Base + 1 /\ Floor = Base

Top == own[Temp(sp)]

IsKind(v, k) == v \in Block /\ kind[v] = k

Executed == ran < prog.statements /\ ran' = ran + 1

\* lookup: the frame's own cell, else the global; no enclosing frame.
Resolves(x, s) ==
  IF depth > 0 /\ own[Local(depth, x)] # Nil
    THEN s = Field(own[Local(depth, x)], 1)
    ELSE s = Glob(x)

\* One more reference to a value, in a new temporary.
Push(v) ==
  /\ sp < prog.temps
  /\ own' = Put(own, Temp(sp + 1), v)
  /\ rc' = Retain(v)
  /\ sp' = sp + 1
  /\ UNCHANGED <<kind, len, cap, orphan, gcLive, drain>>

(***************************************************************************)
(* Releases.                                                               *)
(***************************************************************************)
ReleaseOperand ==
  /\ status \in {"running", "ending"}
  /\ drain = <<>>
  /\ \E i \in Due : (\A j \in Due : i <= j) /\ Drop(Temp(i))
  /\ UNCHANGED <<sp, calls, frames, code, todo, status, ran, prog>>

RunCascade ==
  /\ Cascade
  /\ code' = [b \in Block |-> IF kind'[b] = "free" THEN NoCode ELSE code[b]]
  /\ UNCHANGED <<sp, calls, frames, todo, status, ran, prog>>

(***************************************************************************)
(* Expressions and the statements that store their values.                 *)
(***************************************************************************)
PushConst ==
  /\ Ready
  /\ sp < prog.temps
  /\ sp' = sp + 1
  /\ UNCHANGED <<heap, calls, frames, code, todo, status, ran, prog>>

PushString(b) ==
  /\ "str" \in prog.uses
  /\ Ready
  /\ sp < prog.temps
  /\ Alloc(b, "str", 0)
  /\ own' = Put(own, Temp(sp + 1), b)
  /\ gcLive' = gcLive + 1
  /\ sp' = sp + 1
  /\ UNCHANGED <<cap, orphan, drain, calls, frames, code, todo, status, ran, prog>>

LoadVar(x) ==
  /\ Ready
  /\ \E s \in Slot : Resolves(x, s) /\ Push(own[s])
  /\ UNCHANGED <<calls, frames, code, todo, status, ran, prog>>

\* An expression statement.
Discard ==
  /\ Evaluated
  /\ sp' = sp - 1
  /\ Executed
  /\ UNCHANGED <<heap, calls, frames, code, todo, status, prog>>

\* bind: a global, or a new cell in the frame's scope; what the name held
\* before takes the operand's place and is released.
Bind(x, c) ==
  IF depth = 0
    THEN /\ own' = Exchange(own, Temp(sp), Glob(x))
         /\ UNCHANGED <<kind, rc, len, cap, orphan, gcLive, drain>>
    ELSE /\ Alloc(c, "cell", 1)
         /\ own' = Put(Exchange(Exchange(own, Temp(sp), Field(c, 1)),
                                Temp(sp), Local(depth, x)),
                       Local(depth, x), c)
         /\ gcLive' = gcLive + 1
         /\ UNCHANGED <<cap, orphan, drain>>

Assign(x, c) ==
  /\ Evaluated
  /\ Bind(x, c)
  /\ sp' = sp - 1
  /\ Executed
  /\ UNCHANGED <<calls, frames, code, todo, status, prog>>

Reassign(x) ==
  /\ "reassign" \in prog.uses
  /\ Evaluated
  /\ \E s \in Slot : Resolves(x, s) /\ own' = Exchange(own, Temp(sp), s)
  /\ sp' = sp - 1
  /\ Executed
  /\ UNCHANGED <<kind, rc, len, cap, orphan, gcLive, drain, calls, frames, code, todo, status, prog>>

(***************************************************************************)
(* Stmt::Fn.                                                               *)
(***************************************************************************)

\* The captures are the free names of the body that are locals of the frame.
Define(f, q) ==
  /\ AtStatement
  /\ \A i \in 1 .. Len(q) :
       /\ q[i] \notin {f, prog.param[f]}
       /\ depth > 0 /\ own[Local(depth, q[i])] # Nil
       /\ \A j \in 1 .. Len(q) : q[i] = q[j] => i = j
  /\ todo' = Do(IF q = <<>> THEN "closure" ELSE "env", [fn |-> f, caps |-> q], Nil, 0)
  /\ Executed
  /\ UNCHANGED <<heap, sp, calls, frames, code, status, prog>>

MakeEnv(e) ==
  /\ Doing("env")
  /\ sp < prog.temps
  /\ Alloc(e, "env", 0)
  /\ own' = Put(own, Temp(sp + 1), e)
  /\ gcLive' = gcLive + 1
  /\ sp' = sp + 1
  /\ todo' = [todo EXCEPT !.op = "capture"]
  /\ UNCHANGED <<cap, orphan, drain, calls, frames, code, status, ran, prog>>

\* The value a captured local has when the definition runs.
Captured(x) == own[Field(own[Local(depth, x)], 1)]

CaptureNext ==
  /\ Doing("capture")
  /\ LET e == Top
         i == len[e] + 1
         v == Captured(todo.code.caps[i])
     IN  /\ own' = Put(own, Field(e, i), v)
         /\ rc' = Retain(v)
         /\ len' = [len EXCEPT ![e] = i]
         /\ todo' = [todo EXCEPT !.op = IF i = Len(todo.code.caps) THEN "closure" ELSE "capture"]
  /\ UNCHANGED <<kind, cap, orphan, gcLive, drain, sp, calls, frames, code, status, ran, prog>>

\* make_closure consumes the reference to the env.
MakeClosure(c) ==
  /\ Doing("closure")
  /\ Alloc(c, "clos", 1)
  /\ IF todo.code.caps = <<>>
       THEN /\ sp < prog.temps
            /\ own' = Put(own, Temp(sp + 1), c)
            /\ sp' = sp + 1
       ELSE /\ own' = Put(Exchange(own, Temp(sp), Field(c, 1)), Temp(sp), c)
            /\ sp' = sp
  /\ gcLive' = gcLive + 1
  /\ code' = [code EXCEPT ![c] = todo.code]
  /\ todo' = [todo EXCEPT !.op = "bind"]
  /\ UNCHANGED <<cap, orphan, drain, calls, frames, status, ran, prog>>

BindFn(c) ==
  /\ Doing("bind")
  /\ Bind(todo.code.fn, c)
  /\ sp' = sp - 1
  /\ todo' = Idle
  /\ UNCHANGED <<calls, frames, code, status, ran, prog>>

(***************************************************************************)
(* Calls.                                                                  *)
(***************************************************************************)

\* The callee is a name: loaded and retained like any Var; verb_check_call
\* passes, and the arguments follow.
OpenCall(x) ==
  /\ Ready
  /\ depth + Len(calls) < prog.calls
  /\ \E s \in Slot : Resolves(x, s) /\ IsKind(own[s], "clos") /\ Push(own[s])
  /\ calls' = Append(calls, sp + 1)
  /\ UNCHANGED <<frames, code, todo, status, ran, prog>>

\* The callee is the value another expression left.
OpenCallOnValue ==
  /\ "calltemp" \in prog.uses
  /\ Ready
  /\ depth + Len(calls) < prog.calls
  /\ sp > Floor
  /\ IsKind(Top, "clos")
  /\ calls' = Append(calls, sp)
  /\ UNCHANGED <<heap, sp, frames, code, todo, status, ran, prog>>

Callee == own[Temp(Floor)]

\* The frame has an open call whose arguments are all evaluated.
InCall ==
  /\ calls # <<>>
  /\ calls[Len(calls)] > Base
  /\ sp - Floor = Arity(code[Callee].fn)

\* fn_ptr and env are read, then the closure is released: it changes places
\* with the argument, which stays in use.
Call ==
  /\ Ready
  /\ InCall
  /\ own' = Exchange(own, Temp(Floor), Temp(sp))
  /\ sp' = sp - 1
  /\ calls' = SubSeq(calls, 1, Len(calls) - 1)
  /\ todo' = Do("enter", code[Callee], own[Field(Callee, 1)], 0)
  /\ UNCHANGED <<kind, rc, len, cap, orphan, gcLive, drain, frames, code, status, ran, prog>>

\* The body starts.  It retains its env and reads its captures from it; when
\* the release of the closure freed the env, what it reads is undefined.
Enter ==
  /\ Doing("enter")
  /\ IF todo.env \in Block /\ Free(todo.env)
       THEN status' = "undefined" /\ UNCHANGED <<frames, todo>>
       ELSE /\ frames' = Append(frames, sp - Arity(todo.code.fn))
            /\ todo' = [todo EXCEPT !.op = "self"]
            /\ UNCHANGED status
  /\ UNCHANGED <<heap, sp, calls, code, ran, prog>>

\* Mutant of EnvShared: retain_env is forgotten.
EnvTaken(c) == [rc EXCEPT ![c] = 1]

\* make_closure over the body's env, and retain_env for this second block.
EnvShared(c) ==
  [b \in Block |-> IF b = c THEN 1 ELSE IF b = todo.env THEN rc[b] + 1 ELSE rc[b]]

SelfClosure(c) ==
  /\ Doing("self")
  /\ sp < prog.temps
  /\ Free(c)
  /\ kind' = [kind EXCEPT ![c] = "clos"]
  /\ len' = [len EXCEPT ![c] = 1]
  /\ own' = Put(Put(own, Field(c, 1), todo.env), Temp(sp + 1), c)
  /\ rc' = EnvShared(c)
  /\ gcLive' = gcLive + 1
  /\ code' = [code EXCEPT ![c] = todo.code]
  /\ sp' = sp + 1
  /\ todo' = [todo EXCEPT !.op = "bindself"]
  /\ UNCHANGED <<cap, orphan, drain, calls, frames, status, ran, prog>>

\* scope.insert: the cell a parameter replaces is not released.
Insert(x, c) ==
  LET old == own[Local(depth, x)] IN
  /\ Alloc(c, "cell", 1)
  /\ own' = Put(Exchange(own, Temp(sp), Field(c, 1)), Local(depth, x), c)
  /\ orphan' = IF old \in Block THEN [orphan EXCEPT ![old] = @ + 1] ELSE orphan
  /\ gcLive' = gcLive + 1
  /\ sp' = sp - 1
  /\ UNCHANGED <<cap, drain>>

\* What the entry binds next: a capture, then the parameter.
NextEntry(n) ==
  IF n < Len(todo.code.caps) THEN [todo EXCEPT !.op = "load", !.n = n]
  ELSE IF Arity(todo.code.fn) = 0 THEN Idle
  ELSE [todo EXCEPT !.op = "param", !.n = 0]

BindSelf(c) ==
  /\ Doing("bindself")
  /\ Insert(todo.code.fn, c)
  /\ todo' = NextEntry(0)
  /\ UNCHANGED <<calls, frames, code, status, ran, prog>>

LoadCapture ==
  /\ Doing("load")
  /\ Push(own[Field(todo.env, todo.n + 1)])
  /\ todo' = [todo EXCEPT !.op = "bindload"]
  /\ UNCHANGED <<calls, frames, code, status, ran, prog>>

BindCapture(c) ==
  /\ Doing("bindload")
  /\ Insert(todo.code.caps[todo.n + 1], c)
  /\ todo' = NextEntry(todo.n + 1)
  /\ UNCHANGED <<calls, frames, code, status, ran, prog>>

BindParam(c) ==
  /\ Doing("param")
  /\ Insert(prog.param[todo.code.fn], c)
  /\ todo' = Idle
  /\ UNCHANGED <<calls, frames, code, status, ran, prog>>

\* Stmt::Return: the value stays in its temporary, the scope is released.
Return ==
  /\ Evaluated
  /\ depth > 0
  /\ todo' = [Idle EXCEPT !.op = "return"]
  /\ Executed
  /\ UNCHANGED <<heap, sp, calls, frames, code, status, prog>>

\* The end of a body returns nil.
FallThrough ==
  /\ AtStatement
  /\ depth > 0
  /\ sp < prog.temps
  /\ sp' = sp + 1
  /\ todo' = [Idle EXCEPT !.op = "return"]
  /\ UNCHANGED <<heap, calls, frames, code, status, ran, prog>>

\* release_all_open_scopes.
ReleaseLocal ==
  /\ Doing("return")
  /\ \E x \in Name : Drop(Local(depth, x))
  /\ UNCHANGED <<sp, calls, frames, code, todo, status, ran, prog>>

\* Mutant of BackInCaller: the frame returns without releasing its scope.
BackWithLocals ==
  /\ Doing("return")
  /\ frames' = SubSeq(frames, 1, depth - 1)
  /\ todo' = Idle
  /\ UNCHANGED <<heap, sp, calls, code, status, ran, prog>>

BackInCaller ==
  /\ Doing("return")
  /\ \A x \in Name : own[Local(depth, x)] = Nil
  /\ frames' = SubSeq(frames, 1, depth - 1)
  /\ todo' = Idle
  /\ UNCHANGED <<heap, sp, calls, code, status, ran, prog>>

(***************************************************************************)
(* The end of the process.                                                 *)
(***************************************************************************)

OutOfMemory == \A b \in Block : ~Free(b)

\* verb_check_call finds no function, or one of another arity.
CheckFails == "error" \in prog.uses /\ Ready /\ sp > Floor

Abort ==
  /\ Settled
  /\ status = "running"
  /\ OutOfMemory \/ CheckFails
  /\ status' = "aborted"
  /\ UNCHANGED <<heap, sp, calls, frames, code, todo, ran, prog>>

EndProgram ==
  /\ AtStatement
  /\ depth = 0
  /\ status' = "ending"
  /\ UNCHANGED <<heap, sp, calls, frames, code, todo, ran, prog>>

ReleaseGlobal ==
  /\ Settled
  /\ status = "ending"
  /\ \E x \in Name : Drop(Glob(x))
  /\ UNCHANGED <<sp, calls, frames, code, todo, status, ran, prog>>

Exit ==
  /\ Settled
  /\ status = "ending"
  /\ \A x \in Name : own[Glob(x)] = Nil
  /\ status' = "ended"
  /\ UNCHANGED <<heap, sp, calls, frames, code, todo, ran, prog>>

CaptureList == UNION {[1 .. n -> Name] : n \in 0 .. Width}

Next ==
  \/ ReleaseOperand
  \/ RunCascade
  \/ PushConst
  \/ \E b \in Block : PushString(b)
  \/ \E x \in Name : LoadVar(x)
  \/ Discard
  \/ \E x \in Name, c \in Block : Assign(x, c)
  \/ \E x \in Name : Reassign(x)
  \/ \E f \in Fn, q \in CaptureList : Define(f, q)
  \/ \E e \in Block : MakeEnv(e)
  \/ CaptureNext
  \/ \E c \in Block : MakeClosure(c)
  \/ \E c \in Block : BindFn(c)
  \/ \E x \in Name : OpenCall(x)
  \/ OpenCallOnValue
  \/ Call
  \/ Enter
  \/ \E c \in Block : SelfClosure(c)
  \/ \E c \in Block : BindSelf(c)
  \/ LoadCapture
  \/ \E c \in Block : BindCapture(c)
  \/ \E c \in Block : BindParam(c)
  \/ Return
  \/ FallThrough
  \/ ReleaseLocal
  \/ BackInCaller
  \/ Abort
  \/ EndProgram
  \/ ReleaseGlobal
  \/ Exit

Spec == Init /\ [][Next]_vars

(***************************************************************************)
(* Properties.                                                             *)
(***************************************************************************)

(* gen_call and gen_thread_spawn release the closure before its body runs  *)
(* because the closure's fate is irrelevant from there on: the env the     *)
(* body is handed is null or still alive when the body starts.             *)
EnvAliveAtEntry == status # "undefined"

(* It is as long as every callee is a name that nobody reassigns: such a   *)
(* closure has a second owner while it is called.                          *)
EnvAliveByName ==
  prog.uses \cap {"calltemp", "reassign"} = {} => status # "undefined"

(* A frame that has returned leaves no cell behind: not its parameter, its *)
(* captures, its own name, nor a local of a branch it returned from.       *)
FramesOwnTheirScopes ==
  /\ ClosTypeOK
  /\ \A d \in 1 .. MaxDepth, x \in Name :
       d > depth => own[Local(d, x)] = Nil

(* Capture is by value, so closures, envs and cells form no cycle, however *)
(* functions are defined, passed, returned and reassigned: what the        *)
(* refcounts cannot free cannot be built without arrays or records.        *)
CapturesAcyclic == \A b \in Live : b \notin Reach(own, Children(own, {b}))

(* A program that ran to its end, its functions called, returned and       *)
(* captured in any order, leaves no block and no count behind, and no      *)
(* frame its cells before that.                                            *)
FunctionsLeakNothing ==
  /\ FramesOwnTheirScopes
  /\ CapturesAcyclic
  /\ status = "ended" => Live = {} /\ gcLive = 0
=============================================================================
