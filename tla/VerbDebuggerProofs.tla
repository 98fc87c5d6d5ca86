------------------------- MODULE VerbDebuggerProofs -------------------------
(***************************************************************************)
(* The debugger, for programs of any functions, calls of any depth and any *)
(* commands.                                                               *)
(***************************************************************************)
EXTENDS VerbDebugger, SequenceTheorems, TLAPS

(* All but the last element.                                               *)
LEMMA FrontIs ==
  ASSUME NEW S, NEW w \in Seq(S), Len(w) - 1 \in Nat
  PROVE  /\ Front(w) \in Seq(S)
         /\ Len(Front(w)) = Len(w) - 1
         /\ \A k \in 1 .. Len(w) - 1 : Front(w)[k] = w[k]
<1>1. Len(w) \in Nat /\ \A k \in 1 .. Len(w) : w[k] \in S
  BY ElementOfSeq
<1>2. PICK h : h = Len(w) - 1
  OBVIOUS
<1>3. h \in Int /\ 0 <= h /\ \A k \in 1 .. h : w[k] \in S
  BY <1>1, <1>2
<1>4. /\ SubSeq(w, 1, h) \in Seq(S)
      /\ Len(SubSeq(w, 1, h)) = IF 1 <= h THEN h - 1 + 1 ELSE 0
      /\ \A k \in 1 .. h - 1 + 1 : SubSeq(w, 1, h)[k] = w[1 + k - 1]
  BY <1>3, SubSeqProperties
<1>5. Len(SubSeq(w, 1, h)) = h
  BY <1>3, <1>4
<1>6. \A k \in 1 .. h : k \in 1 .. h - 1 + 1 /\ 1 + k - 1 = k
  BY <1>3
<1>7. \A k \in 1 .. h : SubSeq(w, 1, h)[k] = w[k]
  BY <1>4, <1>6
<1> QED
  BY <1>2, <1>4, <1>5, <1>7 DEF Front

(***************************************************************************)
(* The inductive invariant.                                                *)
(***************************************************************************)

\* The top level is outermost, functions are above it, and only the last
\* call can be before its push or behind its pop.
Shaped ==
  /\ stack[1].fn = None /\ stack[1].phase = "body"
  /\ \A k \in 2 .. Depth : stack[k].fn \in Fn
  /\ \A k \in 1 .. Depth - 1 : stack[k].phase \in {"body", "value"}
  /\ pc = "console" => Innermost.phase = "body"

\* Every call between its two hooks has a frame.
Hooked ==
  Len(frames) = IF Innermost.phase \in {"entered", "left"} THEN Depth - 2 ELSE Depth - 1

Matched ==
  \A k \in 1 .. Len(frames) :
    /\ frames[k].fn = stack[k + 1].fn
    /\ stack[k + 1].fresh => frames[k].callLine = stack[k + 1].from

\* A call about to be pushed comes from the line of the last checkpoint, if
\* its statement is the last with one.
Pending == Innermost.phase = "entered" /\ Innermost.fresh => currentLine = Innermost.from

\* Where the statement of the last checkpoint is, that line is.
LatestIs ==
  \/ latest = <<0, 0>>
  \/ /\ latest[1] \in 1 .. Depth
     /\ latest[2] \in 1 .. Len(stack[latest[1]].open)
     /\ stack[latest[1]].open[latest[2]][2] = currentLine

\* The breakpoints and the mode are what the commands say.
AskedFor ==
  /\ \A p \in Place : p \in breakpoints <=> BreakAt(p)
  /\ stepping <=> resumed = "step"
  /\ ~started => ~stepping

DInv == TypeOK /\ Shaped /\ Hooked /\ Matched /\ Pending /\ LatestIs /\ AskedFor

(* The innermost call is a call.                                           *)
LEMMA InnermostIs ==
  ASSUME TypeOK
  PROVE  /\ Depth \in Nat \ {0} /\ DOMAIN stack = 1 .. Depth
         /\ \A k \in 1 .. Depth : stack[k] \in Call
         /\ Innermost \in Call
         /\ Innermost.open \in Seq(Place) /\ Nest \in Nat
         /\ Len(frames) \in Nat
<1>1. stack \in Seq(Call) /\ stack # <<>> /\ frames \in Seq([fn : Fn, callLine : Line \cup {None}])
  BY DEF TypeOK
<1>2. Depth \in Nat \ {0} /\ DOMAIN stack = 1 .. Depth
  BY <1>1 DEF Depth
<1>3. \A k \in 1 .. Depth : stack[k] \in Call
  BY <1>1, ElementOfSeq DEF Depth
<1>4. Innermost \in Call
  BY <1>2, <1>3 DEF Innermost
<1>5. Innermost.open \in Seq(Place)
  BY <1>4 DEF Call
<1> QED
  BY <1>1, <1>2, <1>3, <1>4, <1>5 DEF Nest

(* The innermost call changes, the others stay.                            *)
LEMMA BecomesIs ==
  ASSUME TypeOK, NEW c, c \in Call, Becomes(c)
  PROVE  /\ stack' \in Seq(Call) /\ stack' # <<>> /\ Depth' = Depth
         /\ Innermost' = c /\ stack'[Depth] = c
         /\ \A k \in 1 .. Depth : k # Depth => stack'[k] = stack[k]
<1>1. stack' = [stack EXCEPT ![Depth] = c] /\ stack \in Seq(Call)
  BY DEF TypeOK, Becomes
<1>2. PICK d : d = Depth
  OBVIOUS
<1>3. d \in Nat \ {0} /\ d = Len(stack) /\ DOMAIN stack = 1 .. d
  BY <1>2, InnermostIs DEF Depth
<1>4. /\ stack' \in Seq(Call) /\ Len(stack') = d /\ stack'[d] = c
      /\ \A k \in 1 .. d : k # d => stack'[k] = stack[k]
  BY <1>1, <1>2, <1>3, ExceptSeq
<1>5. stack' # <<>>
  BY <1>3, <1>4
<1> QED
  BY <1>2, <1>4, <1>5 DEF Depth, Innermost

(* It is still the same call, and the shape of the stack is kept.          *)
LEMMA StaysCall ==
  ASSUME TypeOK, Shaped, NEW c, c \in Call, Becomes(c),
         c.fn = Innermost.fn, c.from = Innermost.from, c.fresh = Innermost.fresh,
         Innermost.fn = None => c.phase = "body", pc' = "console" => c.phase = "body"
  PROVE  /\ Shaped'
         /\ \A k \in 1 .. Depth : /\ stack'[k].fn = stack[k].fn /\ stack'[k].from = stack[k].from
                                  /\ stack'[k].fresh = stack[k].fresh
<1>1. /\ stack' # <<>> /\ Depth' = Depth
      /\ Innermost' = c /\ stack'[Depth] = c
      /\ \A k \in 1 .. Depth : k # Depth => stack'[k] = stack[k]
  BY BecomesIs
<1>2. stack[Depth] = Innermost /\ Depth \in Nat \ {0}
  BY InnermostIs DEF Innermost
<1>3. ASSUME NEW k \in 1 .. Depth
      PROVE  /\ stack'[k].fn = stack[k].fn /\ stack'[k].from = stack[k].from
             /\ stack'[k].fresh = stack[k].fresh
  <2>1. CASE k = Depth
    BY <1>1, <1>2, <2>1
  <2>2. CASE k # Depth
    BY <1>1, <2>2
  <2> QED
    BY <2>1, <2>2
<1>4. 1 \in 1 .. Depth /\ Depth \in 1 .. Depth
  BY <1>2
<1>5. stack'[1].fn = None /\ stack'[1].phase = "body"
  <2>1. stack'[1].fn = None
    BY <1>3, <1>4 DEF Shaped
  <2>2. stack'[1].phase = "body"
    <3>1. CASE Depth = 1
      BY <1>1, <1>2, <3>1 DEF Shaped
    <3>2. CASE Depth # 1
      BY <1>1, <1>4, <3>2 DEF Shaped
    <3> QED
      BY <3>1, <3>2
  <2> QED
    BY <2>1, <2>2
<1>6. \A k \in 2 .. Depth : stack'[k].fn \in Fn
  <2>1. \A k \in 2 .. Depth : k \in 1 .. Depth
    BY <1>2
  <2> QED
    BY <1>3, <2>1 DEF Shaped
<1>7. \A k \in 1 .. Depth - 1 : stack'[k].phase \in {"body", "value"}
  <2>1. \A k \in 1 .. Depth - 1 : k \in 1 .. Depth /\ k # Depth
    BY <1>2
  <2> QED
    BY <1>1, <2>1 DEF Shaped
<1> QED
  BY <1>1, <1>3, <1>5, <1>6, <1>7 DEF Shaped

(* Frames match the calls if neither changes.                              *)
LEMMA StaysMatched ==
  ASSUME TypeOK, Matched, Hooked, UNCHANGED frames,
         \A k \in 1 .. Depth : /\ stack'[k].fn = stack[k].fn /\ stack'[k].from = stack[k].from
                              /\ stack'[k].fresh = stack[k].fresh
  PROVE  Matched'
<1>1. \A k \in 1 .. Len(frames) : k + 1 \in 1 .. Depth
  BY InnermostIs DEF Hooked
<1> QED
  BY <1>1 DEF Matched

(* Before the first statement.                                             *)
LEMMA Starts == Init => DInv
<1> SUFFICES ASSUME Init PROVE DInv
  OBVIOUS
<1>1. PICK c : c = [fn |-> None, from |-> None, fresh |-> FALSE, open |-> <<>>, phase |-> "body"]
  OBVIOUS
<1>2. c \in Call
  BY <1>1 DEF Call
<1>3. stack = <<c>>
  BY <1>1 DEF Init
<1>4. stack \in Seq(Call) /\ Len(stack) = 1 /\ stack # <<>> /\ stack[1] = c
  BY <1>2, <1>3
<1>5. TypeOK
  <2>1. frames \in Seq([fn : Fn, callLine : Line \cup {None}]) /\ asked \in Seq(Command)
    BY DEF Init
  <2>2. latest \in Nat \X Nat
    BY DEF Init
  <2> QED
    BY <1>4, <2>1, <2>2 DEF Init, TypeOK
<1>6. Depth = 1 /\ Innermost = c
  BY <1>4 DEF Depth, Innermost
<1>7. Shaped
  BY <1>1, <1>4, <1>6 DEF Shaped
<1>8. Hooked /\ Matched /\ Pending /\ LatestIs
  BY <1>1, <1>6 DEF Init, Hooked, Matched, Pending, LatestIs
<1>9. AskedFor
  BY DEF Init, AskedFor, BreakAt
<1> QED
  BY <1>5, <1>7, <1>8, <1>9 DEF DInv

(* What the user asked for is about breakpoints, mode and commands only.   *)
LEMMA AskedStays ==
  ASSUME AskedFor, UNCHANGED <<breakpoints, stepping, started, asked, resumed>>
  PROVE  AskedFor'
BY DEF AskedFor, BreakAt, Names, ResolveFile

(***************************************************************************)
(* Steps of the program.                                                   *)
(***************************************************************************)

(* A statement opens: the innermost call has one more, in a phase between  *)
(* its hooks; frames stay.                                                 *)
LEMMA Opens ==
  ASSUME DInv, NEW p, p \in Place, NEW ph, ph \in {"body", "value"},
         Innermost.phase = "body", ph = "value" => Innermost.fn # None,
         pc' = "console" => ph = "body",
         Becomes([Innermost EXCEPT !.open = Append(@, p), !.phase = ph]),
         UNCHANGED frames
  PROVE  /\ stack' \in Seq(Call) /\ stack' # <<>> /\ Shaped' /\ Hooked' /\ Matched' /\ Pending'
         /\ Depth' = Depth
         /\ Len(stack'[Depth].open) = Nest + 1 /\ stack'[Depth].open[Nest + 1] = p
         /\ \A k \in 1 .. Depth : \A m \in 1 .. Len(stack[k].open) :
              m \in 1 .. Len(stack'[k].open) /\ stack'[k].open[m] = stack[k].open[m]
<1>0. TypeOK /\ Shaped /\ Hooked /\ Matched
  BY DEF DInv
<1> DEFINE c == [Innermost EXCEPT !.open = Append(@, p), !.phase = ph]
<1>1. /\ Depth \in Nat \ {0} /\ \A k \in 1 .. Depth : stack[k] \in Call
      /\ Innermost \in Call /\ Innermost.open \in Seq(Place) /\ Nest \in Nat
  BY <1>0, InnermostIs
<1>2. Append(Innermost.open, p) \in Seq(Place)
  BY <1>1
<1>3. c \in Call /\ c.open = Append(Innermost.open, p) /\ c.phase = ph /\ c.fn = Innermost.fn
      /\ c.from = Innermost.from /\ c.fresh = Innermost.fresh
  BY <1>1, <1>2 DEF Call
<1>4. /\ stack' \in Seq(Call) /\ stack' # <<>> /\ Depth' = Depth
      /\ Innermost' = c /\ stack'[Depth] = c
      /\ \A k \in 1 .. Depth : k # Depth => stack'[k] = stack[k]
  BY <1>0, <1>3, BecomesIs
<1>5. stack[Depth] = Innermost
  BY DEF Innermost
<1>6. /\ Shaped'
      /\ \A k \in 1 .. Depth : /\ stack'[k].fn = stack[k].fn /\ stack'[k].from = stack[k].from
                               /\ stack'[k].fresh = stack[k].fresh
  BY <1>0, <1>3, StaysCall
<1>7. Hooked'
  BY <1>0, <1>3, <1>4 DEF Hooked
<1>8. Matched'
  BY <1>0, <1>6, StaysMatched
<1>9. Pending'
  BY <1>3, <1>4 DEF Pending
<1>10. Len(c.open) = Nest + 1 /\ c.open[Nest + 1] = p /\ \A m \in 1 .. Nest : c.open[m] = Innermost.open[m]
  BY <1>1, <1>3 DEF Nest
<1>11. ASSUME NEW k \in 1 .. Depth, NEW m \in 1 .. Len(stack[k].open)
       PROVE  m \in 1 .. Len(stack'[k].open) /\ stack'[k].open[m] = stack[k].open[m]
  <2>1. CASE k = Depth
    <3>1. stack[k] = Innermost /\ stack'[k] = c
      BY <1>4, <1>5, <2>1
    <3>2. m \in 1 .. Nest
      BY <3>1 DEF Nest
    <3> HIDE DEF c
    <3>3. m \in 1 .. Nest + 1
      BY <1>1, <3>2
    <3> QED
      BY <1>10, <3>1, <3>2, <3>3
  <2>2. CASE k # Depth
    BY <1>4, <2>2
  <2> QED
    BY <2>1, <2>2
<1> HIDE DEF c
<1> QED
  BY <1>4, <1>6, <1>7, <1>8, <1>9, <1>10, <1>11

(* A statement with a checkpoint is the latest.                            *)
LEMMA BeginStep ==
  ASSUME DInv, NEW f \in File, NEW l \in Line, Begin(f, l)
  PROVE  DInv'
<1>0. TypeOK /\ AskedFor /\ <<f, l>> \in Place
  BY DEF DInv, Place
<1>1. /\ Innermost.phase = "body" /\ pc' \in {"code", "console"} /\ currentLine' = l
      /\ latest' = <<Depth, Nest + 1>>
      /\ UNCHANGED <<breakpoints, stepping, started, frames, asked, resumed>>
  BY DEF Begin, ghosts
<1>2. Innermost \in Call /\ Depth \in Nat \ {0} /\ Nest \in Nat
  BY <1>0, InnermostIs
<1>3. [Innermost EXCEPT !.open = Append(@, <<f, l>>), !.phase = "body"]
        = [Innermost EXCEPT !.open = Append(@, <<f, l>>)]
  BY <1>1, <1>2 DEF Call
<1>4. Becomes([Innermost EXCEPT !.open = Append(@, <<f, l>>), !.phase = "body"])
  BY <1>3 DEF Begin
<1>5. /\ stack' \in Seq(Call) /\ stack' # <<>> /\ Shaped' /\ Hooked' /\ Matched' /\ Pending'
      /\ Depth' = Depth
      /\ Len(stack'[Depth].open) = Nest + 1 /\ stack'[Depth].open[Nest + 1] = <<f, l>>
  BY <1>0, <1>1, <1>4, Opens
<1>6. TypeOK'
  BY <1>0, <1>1, <1>2, <1>5 DEF TypeOK
<1>7. LatestIs'
  BY <1>1, <1>2, <1>5 DEF LatestIs
<1>8. AskedFor'
  BY <1>0, <1>1, AskedStays
<1> QED
  BY <1>5, <1>6, <1>7, <1>8 DEF DInv

(* One without leaves the latest where it is.                              *)
LEMMA QuietStep ==
  ASSUME DInv, NEW f \in File, NEW l \in Line, Each(f, l) \/ Return(f, l)
  PROVE  DInv'
<1>0. TypeOK /\ AskedFor /\ LatestIs /\ <<f, l>> \in Place
  BY DEF DInv, Place
<1>1. /\ Innermost.phase = "body" /\ pc = "code"
      /\ UNCHANGED <<breakpoints, stepping, started, currentLine, frames, pc, latest, asked, resumed>>
  BY DEF Each, Return, state, ghosts
<1>2. Innermost \in Call /\ Depth \in Nat \ {0} /\ Nest \in Nat
  BY <1>0, InnermostIs
<1>3. PICK ph \in {"body", "value"} :
        /\ ph = "value" => Innermost.fn # None
        /\ Becomes([Innermost EXCEPT !.open = Append(@, <<f, l>>), !.phase = ph])
  <2>1. CASE Each(f, l)
    <3>1. [Innermost EXCEPT !.open = Append(@, <<f, l>>), !.phase = "body"]
            = [Innermost EXCEPT !.open = Append(@, <<f, l>>)]
      BY <1>1, <1>2 DEF Call
    <3> QED
      BY <2>1, <3>1 DEF Each
  <2>2. CASE Return(f, l)
    BY <2>2 DEF Return
  <2> QED
    BY <2>1, <2>2
<1>5. /\ stack' \in Seq(Call) /\ stack' # <<>> /\ Shaped' /\ Hooked' /\ Matched' /\ Pending'
      /\ Depth' = Depth
      /\ \A k \in 1 .. Depth : \A m \in 1 .. Len(stack[k].open) :
           m \in 1 .. Len(stack'[k].open) /\ stack'[k].open[m] = stack[k].open[m]
  BY <1>0, <1>1, <1>3, Opens
<1>6. TypeOK'
  BY <1>0, <1>1, <1>5 DEF TypeOK
<1>7. LatestIs'
  BY <1>0, <1>1, <1>5 DEF LatestIs
<1>8. AskedFor'
  BY <1>0, <1>1, AskedStays
<1> QED
  BY <1>5, <1>6, <1>7, <1>8 DEF DInv

(* The end of a statement.                                                 *)
LEMMA EndStep ==
  ASSUME DInv, End
  PROVE  DInv'
<1>0. TypeOK /\ AskedFor /\ LatestIs /\ Shaped /\ Hooked /\ Matched
  BY DEF DInv
<1>1. /\ Innermost.phase = "body" /\ Nest > 0 /\ Becomes([Innermost EXCEPT !.open = Front(@)])
      /\ latest' = IF latest[1] = Depth /\ latest[2] >= Nest THEN <<0, 0>> ELSE latest
      /\ UNCHANGED <<breakpoints, stepping, started, currentLine, frames, pc, asked, resumed>>
  BY DEF End, Ends, state, ghosts
<1> DEFINE c == [Innermost EXCEPT !.open = Front(@)]
<1>2. /\ Depth \in Nat \ {0} /\ \A k \in 1 .. Depth : stack[k] \in Call
      /\ Innermost \in Call /\ Innermost.open \in Seq(Place) /\ Nest \in Nat
  BY <1>0, InnermostIs
<1>3. /\ Front(Innermost.open) \in Seq(Place) /\ Len(Front(Innermost.open)) = Nest - 1
      /\ \A k \in 1 .. Nest - 1 : Front(Innermost.open)[k] = Innermost.open[k]
  <2>1. Len(Innermost.open) - 1 \in Nat
    BY <1>1, <1>2 DEF Nest
  <2> QED
    BY <1>2, <2>1, FrontIs DEF Nest
<1>4. c \in Call /\ c.open = Front(Innermost.open) /\ c.phase = "body" /\ c.fn = Innermost.fn
      /\ c.from = Innermost.from /\ c.fresh = Innermost.fresh
  BY <1>1, <1>2, <1>3 DEF Call
<1>5. /\ stack' \in Seq(Call) /\ stack' # <<>> /\ Depth' = Depth
      /\ Innermost' = c /\ stack'[Depth] = c
      /\ \A k \in 1 .. Depth : k # Depth => stack'[k] = stack[k]
  BY <1>0, <1>1, <1>4, BecomesIs
<1>6. stack[Depth] = Innermost
  BY DEF Innermost
<1>7. /\ Shaped'
      /\ \A k \in 1 .. Depth : /\ stack'[k].fn = stack[k].fn /\ stack'[k].from = stack[k].from
                               /\ stack'[k].fresh = stack[k].fresh
  BY <1>0, <1>1, <1>4, StaysCall
<1>8. Hooked'
  BY <1>0, <1>1, <1>4, <1>5 DEF Hooked
<1>9. Matched'
  BY <1>0, <1>1, <1>7, StaysMatched
<1>10. Pending'
  BY <1>4, <1>5 DEF Pending
<1>11. latest' \in Nat \X Nat /\ latest \in Nat \X Nat
  BY <1>0, <1>1 DEF TypeOK
<1>12. TypeOK'
  BY <1>0, <1>1, <1>5, <1>11 DEF TypeOK
<1>13. LatestIs'
  <2>1. CASE latest' = <<0, 0>>
    BY <2>1 DEF LatestIs
  <2>2. CASE latest' # <<0, 0>>
    <3>1. latest' = latest /\ ~(latest[1] = Depth /\ latest[2] >= Nest)
      BY <1>1, <2>2
    <3>2. /\ latest[1] \in 1 .. Depth
          /\ latest[2] \in 1 .. Len(stack[latest[1]].open)
          /\ stack[latest[1]].open[latest[2]][2] = currentLine
      BY <1>0, <2>2, <3>1 DEF LatestIs
    <3>3. CASE latest[1] = Depth
      <4>1. latest[2] \in 1 .. Nest - 1
        BY <1>2, <1>6, <3>1, <3>2, <3>3 DEF Nest
      <4>2. c.open[latest[2]] = Innermost.open[latest[2]] /\ Len(c.open) = Nest - 1
        BY <1>3, <1>4, <4>1
      <4> HIDE DEF c
      <4> QED
        BY <1>1, <1>5, <1>6, <3>1, <3>2, <3>3, <4>1, <4>2 DEF LatestIs
    <3>4. CASE latest[1] # Depth
      BY <1>1, <1>5, <3>1, <3>2, <3>4 DEF LatestIs
    <3> QED
      BY <3>3, <3>4
  <2> QED
    BY <2>1, <2>2
<1>14. AskedFor'
  BY <1>0, <1>1, AskedStays
<1> QED
  BY <1>7, <1>8, <1>9, <1>10, <1>12, <1>13, <1>14 DEF DInv

(* A call: its line is that of the last checkpoint if its statement is.    *)
LEMMA CallStep ==
  ASSUME DInv, NEW f \in Fn, Calls(f)
  PROVE  DInv'
<1>0. TypeOK /\ AskedFor /\ LatestIs /\ Shaped /\ Hooked /\ Matched
  BY DEF DInv
<1>1. PICK c : c = [fn |-> f, from |-> Last(Innermost.open)[2], fresh |-> latest = <<Depth, Nest>>,
                    open |-> <<>>, phase |-> "entered"]
  OBVIOUS
<1>2. /\ pc = "code" /\ Innermost.phase \in {"body", "value"} /\ Nest > 0 /\ stack' = Append(stack, c)
      /\ UNCHANGED <<breakpoints, stepping, started, currentLine, frames, pc, latest, asked, resumed>>
  BY <1>1 DEF Calls, state, ghosts
<1>3. /\ Depth \in Nat \ {0} /\ \A k \in 1 .. Depth : stack[k] \in Call
      /\ Innermost.open \in Seq(Place) /\ Nest \in Nat
  BY <1>0, InnermostIs
<1>4. Innermost.open[Nest] \in Place /\ Last(Innermost.open) = Innermost.open[Nest]
  <2>1. Nest \in 1 .. Len(Innermost.open)
    BY <1>2, <1>3 DEF Nest
  <2> QED
    BY <1>3, <2>1, ElementOfSeq DEF Nest, Last
<1>5. c \in Call
  <2>1. Last(Innermost.open)[2] \in Line
    BY <1>4 DEF Place
  <2> QED
    BY <1>1, <2>1 DEF Call
<1>6. stack \in Seq(Call) /\ Depth = Len(stack)
  BY <1>0 DEF TypeOK, Depth
<1>7. /\ stack' \in Seq(Call) /\ Len(stack') = Depth + 1 /\ stack'[Depth + 1] = c
      /\ \A k \in 1 .. Depth : stack'[k] = stack[k]
  BY <1>2, <1>5, <1>6
<1>8. stack' # <<>> /\ Depth' = Depth + 1 /\ Innermost' = c
  BY <1>3, <1>7 DEF Depth, Innermost
<1>9. TypeOK'
  BY <1>0, <1>2, <1>7, <1>8 DEF TypeOK
<1>10. Shaped'
  <2>1. stack'[1].fn = None /\ stack'[1].phase = "body"
    BY <1>0, <1>3, <1>7 DEF Shaped
  <2>2. \A k \in 2 .. Depth + 1 : k = Depth + 1 \/ (k \in 2 .. Depth /\ k \in 1 .. Depth)
    BY <1>3
  <2>3. \A k \in 2 .. Depth + 1 : stack'[k].fn \in Fn
    BY <1>0, <1>1, <1>7, <2>2 DEF Shaped
  <2>4. \A k \in 1 .. Depth : k = Depth \/ k \in 1 .. Depth - 1
    BY <1>3
  <2>5. \A k \in 1 .. Depth : stack'[k].phase \in {"body", "value"}
    <3>1. Depth \in 1 .. Depth /\ stack[Depth] = Innermost
      BY <1>3 DEF Innermost
    <3> QED
      BY <1>0, <1>2, <1>7, <2>4, <3>1 DEF Shaped
  <2>6. Depth' - 1 = Depth /\ pc' # "console"
    BY <1>2, <1>3, <1>8
  <2> QED
    BY <1>8, <2>1, <2>3, <2>5, <2>6 DEF Shaped
<1>11. Hooked'
  BY <1>0, <1>1, <1>2, <1>3, <1>8 DEF Hooked
<1>12. Matched'
  <2>1. \A k \in 1 .. Len(frames) : k + 1 \in 1 .. Depth
    BY <1>0, InnermostIs DEF Hooked
  <2> QED
    BY <1>0, <1>2, <1>7, <2>1 DEF Matched
<1>13. Pending'
  <2>1. ASSUME latest = <<Depth, Nest>> PROVE currentLine = Last(Innermost.open)[2]
    <3>1. latest # <<0, 0>> /\ latest[1] = Depth /\ latest[2] = Nest
      BY <1>2, <1>3, <2>1
    <3>2. stack[latest[1]].open[latest[2]][2] = currentLine
      BY <1>0, <3>1 DEF LatestIs
    <3> QED
      BY <1>4, <3>1, <3>2 DEF Innermost
  <2> QED
    BY <1>1, <1>2, <1>8, <2>1 DEF Pending
<1>14. LatestIs'
  <2>1. CASE latest = <<0, 0>>
    BY <1>2, <2>1 DEF LatestIs
  <2>2. CASE latest # <<0, 0>>
    <3>1. latest[1] \in 1 .. Depth
      BY <1>0, <2>2 DEF LatestIs
    <3>2. latest[1] \in 1 .. Depth + 1 /\ stack'[latest[1]] = stack[latest[1]]
      BY <1>3, <1>7, <3>1
    <3> QED
      BY <1>0, <1>2, <1>8, <2>2, <3>2 DEF LatestIs
  <2> QED
    BY <2>1, <2>2
<1>15. AskedFor'
  BY <1>0, <1>2, AskedStays
<1> QED
  BY <1>9, <1>10, <1>11, <1>12, <1>13, <1>14, <1>15 DEF DInv

(* The innermost call goes from one phase to another; the rest of it and   *)
(* of the stack is as it was.                                              *)
LEMMA Moves ==
  ASSUME DInv, NEW ph, ph \in {"body", "left"}, pc = "code",
         Innermost.fn # None, Becomes([Innermost EXCEPT !.phase = ph]),
         UNCHANGED <<breakpoints, stepping, started, currentLine, pc, latest, asked, resumed>>
  PROVE  /\ stack' \in Seq(Call) /\ stack' # <<>> /\ Shaped' /\ LatestIs' /\ AskedFor' /\ Pending'
         /\ Depth' = Depth /\ Depth - 1 \in Nat \ {0} /\ Innermost'.phase = ph
         /\ \A k \in 1 .. Depth : /\ stack'[k].fn = stack[k].fn /\ stack'[k].from = stack[k].from
                                  /\ stack'[k].fresh = stack[k].fresh
<1>0. TypeOK /\ AskedFor /\ LatestIs /\ Shaped
  BY DEF DInv
<1> DEFINE c == [Innermost EXCEPT !.phase = ph]
<1>1. Innermost \in Call /\ Depth \in Nat \ {0} /\ stack[Depth] = Innermost
  BY <1>0, InnermostIs DEF Innermost
<1>2. c \in Call /\ c.open = Innermost.open /\ c.phase = ph /\ c.fn = Innermost.fn
      /\ c.from = Innermost.from /\ c.fresh = Innermost.fresh
  BY <1>1 DEF Call
<1>3. /\ stack' \in Seq(Call) /\ stack' # <<>> /\ Depth' = Depth
      /\ Innermost' = c /\ stack'[Depth] = c
      /\ \A k \in 1 .. Depth : k # Depth => stack'[k] = stack[k]
  BY <1>0, <1>2, BecomesIs
<1>4. /\ Shaped'
      /\ \A k \in 1 .. Depth : /\ stack'[k].fn = stack[k].fn /\ stack'[k].from = stack[k].from
                               /\ stack'[k].fresh = stack[k].fresh
  BY <1>0, <1>2, StaysCall
<1>5. Depth - 1 \in Nat \ {0}
  BY <1>0, <1>1 DEF Shaped
<1>6. \A k \in 1 .. Depth : stack'[k].open = stack[k].open
  BY <1>1, <1>2, <1>3
<1>7. LatestIs'
  BY <1>0, <1>3, <1>6 DEF LatestIs
<1>8. Pending'
  BY <1>2, <1>3 DEF Pending
<1>9. AskedFor'
  BY <1>0, AskedStays
<1> QED
  BY <1>2, <1>3, <1>4, <1>5, <1>7, <1>8, <1>9

(* The push: the frame of the call that was entered.                       *)
LEMMA PushStep ==
  ASSUME DInv, PushFrame
  PROVE  DInv'
<1>0. TypeOK /\ Shaped /\ Hooked /\ Matched /\ Pending
  BY DEF DInv
<1>1. PICK c : c = [fn |-> Innermost.fn, callLine |-> currentLine]
  OBVIOUS
<1>2. /\ pc = "code" /\ Innermost.phase = "entered" /\ frames' = Append(frames, c)
      /\ Becomes([Innermost EXCEPT !.phase = "body"])
      /\ UNCHANGED <<breakpoints, stepping, started, currentLine, pc, latest, asked, resumed>>
  BY <1>1 DEF PushFrame, ghosts
<1>3. Depth \in Nat \ {0} /\ stack[Depth] = Innermost
  BY <1>0, InnermostIs DEF Innermost
<1>4. Depth # 1 /\ Innermost.fn \in Fn /\ Innermost.fn # None
  <2>1. Depth # 1
    BY <1>0, <1>2, <1>3 DEF Shaped
  <2>2. Depth \in 2 .. Depth
    BY <1>3, <2>1
  <2> QED
    BY <1>0, <1>3, <2>1, <2>2, DebuggerAssumption DEF Shaped, DebuggerAssumption
<1>5. /\ stack' \in Seq(Call) /\ stack' # <<>> /\ Shaped' /\ LatestIs' /\ AskedFor' /\ Pending'
      /\ Depth' = Depth /\ Innermost'.phase = "body"
      /\ \A k \in 1 .. Depth : /\ stack'[k].fn = stack[k].fn /\ stack'[k].from = stack[k].from
                               /\ stack'[k].fresh = stack[k].fresh
  BY <1>2, <1>4, Moves
<1>6. c \in [fn : Fn, callLine : Line \cup {None}]
  BY <1>0, <1>1, <1>4 DEF TypeOK
<1>7. frames \in Seq([fn : Fn, callLine : Line \cup {None}]) /\ Len(frames) = Depth - 2
  BY <1>0, <1>2 DEF TypeOK, Hooked
<1>8. /\ frames' \in Seq([fn : Fn, callLine : Line \cup {None}]) /\ Len(frames') = Len(frames) + 1
      /\ frames'[Len(frames) + 1] = c /\ \A k \in 1 .. Len(frames) : frames'[k] = frames[k]
  BY <1>2, <1>6, <1>7
<1>9. TypeOK'
  BY <1>0, <1>2, <1>5, <1>8 DEF TypeOK
<1>10. Hooked'
  BY <1>3, <1>5, <1>7, <1>8 DEF Hooked
<1>11. Matched'
  <2> SUFFICES ASSUME NEW k \in 1 .. Len(frames')
               PROVE  /\ frames'[k].fn = stack'[k + 1].fn
                      /\ stack'[k + 1].fresh => frames'[k].callLine = stack'[k + 1].from
    BY DEF Matched
  <2>1. k + 1 \in 1 .. Depth
    BY <1>3, <1>4, <1>7, <1>8
  <2>2. CASE k = Len(frames) + 1
    <3>1. k + 1 = Depth /\ frames'[k] = c
      BY <1>3, <1>7, <1>8, <2>2
    <3> QED
      BY <1>0, <1>1, <1>2, <1>3, <1>5, <2>1, <3>1 DEF Pending
  <2>3. CASE k # Len(frames) + 1
    <3>1. k \in 1 .. Len(frames)
      BY <1>3, <1>4, <1>7, <1>8, <2>3
    <3> QED
      BY <1>0, <1>5, <1>8, <2>1, <3>1 DEF Matched
  <2> QED
    BY <2>2, <2>3
<1> QED
  BY <1>5, <1>9, <1>10, <1>11 DEF DInv

(* The pop, on either way out.                                             *)
LEMMA PopStep ==
  ASSUME DInv, ReturnHook \/ FallOffHook
  PROVE  DInv'
<1>0. TypeOK /\ Shaped /\ Hooked /\ Matched
  BY DEF DInv
<1>1. /\ pc = "code" /\ Innermost.phase \in {"body", "value"} /\ frames' = Popped
      /\ Innermost.fn # None \/ Innermost.phase = "value"
      /\ Becomes([Innermost EXCEPT !.phase = "left"])
      /\ UNCHANGED <<breakpoints, stepping, started, currentLine, pc, latest, asked, resumed>>
  BY DEF ReturnHook, FallOffHook, ghosts
<1>2. Depth \in Nat \ {0} /\ stack[Depth] = Innermost
  BY <1>0, InnermostIs DEF Innermost
<1>3. Depth # 1 /\ Innermost.fn # None
  <2>1. Depth # 1
    BY <1>0, <1>1, <1>2 DEF Shaped
  <2>2. Depth \in 2 .. Depth
    BY <1>2, <2>1
  <2> QED
    BY <1>0, <1>2, <2>1, <2>2, DebuggerAssumption DEF Shaped, DebuggerAssumption
<1>4. /\ stack' \in Seq(Call) /\ stack' # <<>> /\ Shaped' /\ LatestIs' /\ AskedFor' /\ Pending'
      /\ Depth' = Depth /\ Innermost'.phase = "left"
      /\ \A k \in 1 .. Depth : /\ stack'[k].fn = stack[k].fn /\ stack'[k].from = stack[k].from
                               /\ stack'[k].fresh = stack[k].fresh
  BY <1>1, <1>3, Moves
<1>5. frames \in Seq([fn : Fn, callLine : Line \cup {None}]) /\ Len(frames) = Depth - 1
  BY <1>0, <1>1 DEF TypeOK, Hooked
<1>6. Len(frames) - 1 \in Nat /\ frames # <<>>
  BY <1>2, <1>3, <1>5
<1>7. /\ frames' \in Seq([fn : Fn, callLine : Line \cup {None}]) /\ Len(frames') = Depth - 2
      /\ \A k \in 1 .. Len(frames') : k \in 1 .. Len(frames) /\ frames'[k] = frames[k]
  <2>1. frames' = Front(frames)
    BY <1>1, <1>6 DEF Popped
  <2>2. /\ Front(frames) \in Seq([fn : Fn, callLine : Line \cup {None}])
        /\ Len(Front(frames)) = Len(frames) - 1
        /\ \A k \in 1 .. Len(frames) - 1 : Front(frames)[k] = frames[k]
    BY <1>5, <1>6, FrontIs
  <2> QED
    BY <1>2, <1>5, <2>1, <2>2
<1>8. TypeOK'
  BY <1>0, <1>1, <1>4, <1>7 DEF TypeOK
<1>9. Hooked'
  BY <1>4, <1>7 DEF Hooked
<1>10. Matched'
  <2>1. \A k \in 1 .. Len(frames) : k + 1 \in 1 .. Depth
    BY <1>2, <1>5
  <2> QED
    BY <1>0, <1>4, <1>7, <2>1 DEF Matched
<1> QED
  BY <1>4, <1>8, <1>9, <1>10 DEF DInv

(* The ret: the calls below are as they were.                              *)
LEMMA BackStep ==
  ASSUME DInv, BackInCaller
  PROVE  DInv'
<1>0. TypeOK /\ AskedFor /\ LatestIs /\ Shaped /\ Hooked /\ Matched
  BY DEF DInv
<1>1. /\ pc = "code" /\ Innermost.phase = "left" /\ stack' = Front(stack)
      /\ latest' = IF latest[1] = Depth /\ latest[2] >= 0 THEN <<0, 0>> ELSE latest
      /\ UNCHANGED <<breakpoints, stepping, started, currentLine, frames, pc, asked, resumed>>
  BY DEF BackInCaller, Ends, state, ghosts
<1>2. Depth \in Nat \ {0} /\ stack[Depth] = Innermost
  BY <1>0, InnermostIs DEF Innermost
<1>3. Depth # 1
  BY <1>0, <1>1, <1>2 DEF Shaped
<1>4. stack \in Seq(Call) /\ Depth = Len(stack) /\ Depth - 1 \in Nat \ {0}
  BY <1>0, <1>2, <1>3 DEF TypeOK, Depth
<1>5. /\ stack' \in Seq(Call) /\ Len(stack') = Depth - 1
      /\ \A k \in 1 .. Depth - 1 : stack'[k] = stack[k]
  BY <1>1, <1>4, FrontIs
<1>6. stack' # <<>> /\ Depth' = Depth - 1 /\ Innermost' = stack[Depth - 1]
  BY <1>4, <1>5 DEF Depth, Innermost
<1>7. latest \in Nat \X Nat /\ latest' \in Nat \X Nat
  BY <1>0, <1>1 DEF TypeOK
<1>8. TypeOK'
  BY <1>0, <1>1, <1>5, <1>6, <1>7 DEF TypeOK
<1>9. Innermost'.phase \in {"body", "value"}
  <2>1. Depth - 1 \in 1 .. Depth - 1
    BY <1>4
  <2> QED
    BY <1>0, <1>6, <2>1 DEF Shaped
<1>10. Shaped'
  <2>1. 1 \in 1 .. Depth - 1
    BY <1>4
  <2>2. \A k \in 2 .. Depth - 1 : k \in 2 .. Depth /\ k \in 1 .. Depth - 1
    BY <1>4
  <2>3. \A k \in 1 .. (Depth - 1) - 1 : k \in 1 .. Depth - 1
    BY <1>4
  <2> QED
    BY <1>0, <1>1, <1>5, <1>6, <2>1, <2>2, <2>3 DEF Shaped
<1>11. Hooked' /\ Pending'
  BY <1>0, <1>1, <1>4, <1>6, <1>9 DEF Hooked, Pending
<1>12. Matched'
  <2>1. \A k \in 1 .. Len(frames) : k + 1 \in 1 .. Depth - 1
    BY <1>0, <1>1, <1>4 DEF Hooked
  <2> QED
    BY <1>0, <1>1, <1>5, <2>1 DEF Matched
<1>13. LatestIs'
  <2>1. CASE latest' = <<0, 0>>
    BY <2>1 DEF LatestIs
  <2>2. CASE latest' # <<0, 0>>
    <3>1. latest' = latest /\ latest[1] # Depth
      BY <1>1, <1>7, <2>2
    <3>2. /\ latest[1] \in 1 .. Depth /\ latest[2] \in 1 .. Len(stack[latest[1]].open)
          /\ stack[latest[1]].open[latest[2]][2] = currentLine
      BY <1>0, <2>2, <3>1 DEF LatestIs
    <3>3. latest[1] \in 1 .. Depth - 1
      BY <1>4, <3>1, <3>2
    <3> QED
      BY <1>1, <1>5, <1>6, <3>1, <3>2, <3>3 DEF LatestIs
  <2> QED
    BY <2>1, <2>2
<1>14. AskedFor'
  BY <1>0, <1>1, AskedStays
<1> QED
  BY <1>8, <1>10, <1>11, <1>12, <1>13, <1>14 DEF DInv

(***************************************************************************)
(* Steps of the user.                                                      *)
(***************************************************************************)

(* A command is the last that names its place, and changes no other.       *)
LEMMA LastNaming ==
  ASSUME asked \in Seq(Command), NEW c, c \in Command, asked' = Append(asked, c), NEW p
  PROVE  BreakAt(p)' <=> IF <<ResolveFile(c.file), c.line>> = p THEN c.does = "break"
                                                               ELSE BreakAt(p)
<1>1. PICK n : n = Len(asked)
  OBVIOUS
<1>2. /\ n \in Nat /\ DOMAIN asked = 1 .. n /\ DOMAIN asked' = 1 .. n + 1
      /\ asked'[n + 1] = c /\ \A k \in 1 .. n : asked'[k] = asked[k]
  BY <1>1
<1>3. /\ \A k \in 1 .. n : Names(k, p)' <=> Names(k, p)
      /\ Names(n + 1, p)' <=> <<ResolveFile(c.file), c.line>> = p
  BY <1>2 DEF Names, ResolveFile
<1>4. \A k \in 1 .. n : k \in 1 .. n + 1 /\ n + 1 > k /\ ~(k > n + 1)
  BY <1>2
<1>5. n + 1 \in 1 .. n + 1 /\ \A k \in 1 .. n + 1 : k = n + 1 \/ k \in 1 .. n
  BY <1>2
<1>6. ~(n + 1 > n + 1)
  BY <1>2
<1>7. CASE <<ResolveFile(c.file), c.line>> = p
  <2>1. Names(n + 1, p)'
    BY <1>3, <1>7
  <2>2. BreakAt(p)' => c.does = "break"
    BY <1>2, <1>3, <1>4, <1>5, <2>1 DEF BreakAt
  <2>3. c.does = "break" => BreakAt(p)'
    BY <1>2, <1>4, <1>5, <1>6, <2>1 DEF BreakAt
  <2> QED
    BY <1>7, <2>2, <2>3
<1>8. CASE ~(<<ResolveFile(c.file), c.line>> = p)
  <2>1. ~Names(n + 1, p)'
    BY <1>3, <1>8
  <2>2. ASSUME BreakAt(p)' PROVE BreakAt(p)
    <3>1. PICK k \in 1 .. n + 1 : /\ Names(k, p)' /\ asked'[k].does = "break"
                                  /\ \A m \in 1 .. n + 1 : m > k => ~Names(m, p)'
      BY <1>2, <2>2 DEF BreakAt
    <3>2. k \in 1 .. n
      BY <1>5, <2>1, <3>1
    <3>3. \A m \in 1 .. n : m > k => ~Names(m, p)
      BY <1>3, <1>4, <3>1
    <3> QED
      BY <1>2, <1>3, <3>1, <3>2, <3>3 DEF BreakAt
  <2>3. ASSUME BreakAt(p) PROVE BreakAt(p)'
    <3>1. PICK k \in 1 .. n : /\ Names(k, p) /\ asked[k].does = "break"
                              /\ \A m \in 1 .. n : m > k => ~Names(m, p)
      BY <1>2, <2>3 DEF BreakAt
    <3>2. \A m \in 1 .. n + 1 : m > k => ~Names(m, p)'
      BY <1>3, <1>5, <2>1, <3>1
    <3>3. k \in 1 .. n + 1 /\ Names(k, p)' /\ asked'[k].does = "break"
      BY <1>2, <1>3, <1>4, <3>1
    <3> QED
      BY <1>2, <3>2, <3>3 DEF BreakAt
  <2> QED
    BY <1>8, <2>2, <2>3
<1> QED
  BY <1>7, <1>8

(* What runs is as it was.                                                 *)
LEMMA RunsStay ==
  ASSUME DInv, UNCHANGED <<currentLine, frames, stack, latest>>,
         pc' = "console" => pc = "console"
  PROVE  Shaped' /\ Hooked' /\ Matched' /\ Pending' /\ LatestIs'
<1>1. Depth' = Depth /\ Innermost' = Innermost
  BY DEF Depth, Innermost
<1> QED
  BY <1>1 DEF DInv, Shaped, Hooked, Matched, Pending, LatestIs

(* break and delete.                                                       *)
LEMMA AskStep ==
  ASSUME DInv, NEW f \in File \cup {None}, NEW l \in Line, Break(f, l) \/ Delete(f, l)
  PROVE  DInv'
<1>0. TypeOK /\ AskedFor
  BY DEF DInv
<1>1. PICK does \in {"break", "delete"} :
        /\ asked' = Append(asked, [does |-> does, file |-> f, line |-> l])
        /\ breakpoints' = IF does = "break" THEN breakpoints \cup {<<ResolveFile(f), l>>}
                                            ELSE breakpoints \ {<<ResolveFile(f), l>>}
  BY DEF Break, Delete, Asks
<1>2. UNCHANGED <<stepping, started, currentLine, frames, pc, stack, latest, resumed>>
  BY DEF Break, Delete, Asks
<1>3. PICK c : c = [does |-> does, file |-> f, line |-> l]
  OBVIOUS
<1>4. c \in Command /\ c.does = does /\ c.file = f /\ c.line = l
  BY <1>3 DEF Command
<1>5. asked \in Seq(Command) /\ asked' = Append(asked, c)
  BY <1>0, <1>1, <1>3 DEF TypeOK
<1>6. <<ResolveFile(f), l>> \in Place
  BY DebuggerAssumption DEF ResolveFile, Place, DebuggerAssumption
<1>7. TypeOK'
  BY <1>0, <1>1, <1>2, <1>4, <1>5, <1>6 DEF TypeOK
<1>8. ASSUME NEW p \in Place PROVE p \in breakpoints' <=> BreakAt(p)'
  <2>1. BreakAt(p)' <=> IF <<ResolveFile(f), l>> = p THEN does = "break" ELSE BreakAt(p)
    BY <1>4, <1>5, LastNaming
  <2>2. p \in breakpoints <=> BreakAt(p)
    BY <1>0 DEF AskedFor
  <2> QED
    BY <1>1, <2>1, <2>2
<1>9. AskedFor'
  BY <1>0, <1>2, <1>8 DEF AskedFor
<1>10. Shaped' /\ Hooked' /\ Matched' /\ Pending' /\ LatestIs'
  BY <1>2, RunsStay
<1> QED
  BY <1>7, <1>9, <1>10 DEF DInv

(* run, continue, step and the end.                                        *)
LEMMA ResumeStep ==
  ASSUME DInv, Run \/ Continue \/ Step \/ Quit
  PROVE  DInv'
<1>0. TypeOK /\ AskedFor
  BY DEF DInv
<1>1. /\ pc' \in {"code", "over"} /\ stepping' \in BOOLEAN /\ started' \in BOOLEAN
      /\ resumed' \in {"none", "run", "continue", "step"}
      /\ UNCHANGED <<breakpoints, currentLine, frames, stack, latest, asked>>
  BY <1>0 DEF Run, Continue, Step, Quit, Resume, state, ghosts, TypeOK
<1>2. TypeOK'
  BY <1>0, <1>1 DEF TypeOK
<1>3. stepping' <=> resumed' = "step"
  <2>1. CASE Run
    <3>1. stepping' = stepping /\ resumed' = "run"
      BY <2>1 DEF Run, Resume
    <3>2. ~stepping
      BY <1>0, <2>1 DEF AskedFor, Run
    <3> QED
      BY <3>1, <3>2
  <2>2. CASE Continue
    BY <2>2 DEF Continue, Resume
  <2>3. CASE Step
    BY <2>3 DEF Step, Resume
  <2>4. CASE Quit
    BY <1>0, <2>4 DEF Quit, AskedFor, state, ghosts
  <2> QED
    BY <2>1, <2>2, <2>3, <2>4
<1>4. \A p : BreakAt(p)' <=> BreakAt(p)
  BY <1>1 DEF BreakAt, Names, ResolveFile
<1>5. AskedFor'
  <2>1. ~started' => ~stepping'
    BY <1>0 DEF AskedFor, Run, Continue, Step, Quit, Resume, state
  <2> QED
    BY <1>0, <1>1, <1>3, <1>4, <2>1 DEF AskedFor
<1>6. Shaped' /\ Hooked' /\ Matched' /\ Pending' /\ LatestIs'
  BY <1>1, RunsStay
<1> QED
  BY <1>2, <1>5, <1>6 DEF DInv

(***************************************************************************)
(* The theorems.                                                           *)
(***************************************************************************)

LEMMA Steps == DInv /\ [Next]_vars => DInv'
<1> SUFFICES ASSUME DInv, [Next]_vars PROVE DInv'
  OBVIOUS
<1>1. CASE UNCHANGED vars
  <2>1. UNCHANGED <<breakpoints, stepping, started, currentLine, frames, pc, stack, latest, asked, resumed>>
    BY <1>1 DEF vars, state, ghosts
  <2>2. Shaped' /\ Hooked' /\ Matched' /\ Pending' /\ LatestIs'
    BY <2>1, RunsStay
  <2>3. TypeOK' /\ AskedFor'
    BY <2>1, AskedStays DEF DInv, TypeOK
  <2> QED
    BY <2>2, <2>3 DEF DInv
<1>2. CASE \E f \in File, l \in Line : Begin(f, l) \/ Each(f, l) \/ Return(f, l)
  BY <1>2, BeginStep, QuietStep
<1>3. CASE End
  BY <1>3, EndStep
<1>4. CASE \E f \in Fn : Calls(f)
  BY <1>4, CallStep
<1>5. CASE PushFrame
  BY <1>5, PushStep
<1>6. CASE ReturnHook \/ FallOffHook
  BY <1>6, PopStep
<1>7. CASE BackInCaller
  BY <1>7, BackStep
<1>8. CASE \E f \in File \cup {None}, l \in Line : Break(f, l) \/ Delete(f, l)
  BY <1>8, AskStep
<1>9. CASE Run \/ Continue \/ Step \/ Quit
  BY <1>9, ResumeStep
<1> QED
  BY <1>1, <1>2, <1>3, <1>4, <1>5, <1>6, <1>7, <1>8, <1>9 DEF Next

THEOREM Invariance == Spec => []DInv
<1> QED
  BY Starts, Steps, PTL DEF Spec

(* For any functions, calls and ways out of them, `backtrace` names the    *)
(* calls that are open, and gives the line of each whose statement was the *)
(* last to begin with a checkpoint.                                        *)
THEOREM BacktraceHolds == Spec => []BacktraceTrue
<1>1. DInv => BacktraceTrue
  <2> SUFFICES ASSUME DInv PROVE BacktraceTrue
    OBVIOUS
  <2>1. pc = "console" => Len(frames) = Depth - 1
    BY DEF DInv, Shaped, Hooked
  <2> QED
    BY <2>1 DEF DInv, Matched, BacktraceTrue
<1> QED
  BY <1>1, Invariance, PTL

(* For any files and lines, a statement with a checkpoint stops exactly if *)
(* what the user typed asks for it.                                        *)
THEOREM StopsHold == Spec => StopsAsAsked
<1>1. ASSUME DInv, NEW f \in File, NEW l \in Line, Begin(f, l)
      PROVE  pc' = "console" <=> resumed = "step" \/ BreakAt(<<f, l>>)
  <2>1. <<f, l>> \in Place
    BY DEF Place
  <2>2. ShouldStop(<<f, l>>) <=> resumed = "step" \/ BreakAt(<<f, l>>)
    BY <1>1, <2>1 DEF DInv, AskedFor, ShouldStop
  <2> QED
    BY <1>1, <2>2 DEF Begin
<1>2. DInv => [\A f \in File, l \in Line :
                 Begin(f, l) => (pc' = "console" <=> resumed = "step" \/ BreakAt(<<f, l>>))]_vars
  BY <1>1
<1> QED
  BY <1>2, Invariance, PTL DEF StopsAsAsked
=============================================================================
