-------------------------- MODULE VerbParserProofs --------------------------
(***************************************************************************)
(* The depths by which the parser judges return, leave and next are those  *)
(* of the functions and loops around the statement, for texts of every     *)
(* length, with errors anywhere; and its recovery always moves on.         *)
(*                                                                         *)
(* The argument: todo holds, with every body being parsed, the step that   *)
(* leaves it.  Read from its end, those steps say what the depths are at   *)
(* each place (Nests); what is begun is put in front and leaves the places *)
(* behind it as they are, so the depths are those of the first place.      *)
(***************************************************************************)
EXTENDS VerbParser, FiniteSetTheorems, SequenceTheorems, WellFoundedInduction, TLAPS

(***************************************************************************)
(* The depths that todo stands for.                                        *)
(***************************************************************************)
DepthsRecord == [fn : Nat, loop : Nat, saved : Seq(Nat)]

Outermost == [fn |-> 0, loop |-> 0, saved |-> <<>>]

\* What the depths are in the construct that m leaves.
Redo(d, m) ==
  CASE m = "leave_fn" -> [fn |-> d.fn + 1, loop |-> 0, saved |-> <<d.loop>> \o d.saved]
    [] m = "leave_loop" -> [d EXCEPT !.loop = @ + 1]
    [] OTHER -> d

\* A body to be parsed or left.
One(m) == IF m \in Scoped THEN 1 ELSE 0

\* The depths g[k] and the number h[k] of bodies from place k of t on.
Nests(t, g, h) ==
  /\ g \in [1 .. Len(t) + 1 -> DepthsRecord]
  /\ h \in [1 .. Len(t) + 1 -> Nat]
  /\ g[Len(t) + 1] = Outermost
  /\ h[Len(t) + 1] = 0
  /\ \A k \in 1 .. Len(t) + 1 : /\ g[k].fn <= h[k] /\ g[k].loop <= h[k]
                                /\ Len(g[k].saved) = g[k].fn
  /\ \A k \in 1 .. Len(t) : g[k] = Redo(g[k + 1], t[k]) /\ h[k] = h[k + 1] + One(t[k])

Nest(t, d, w) == \E g, h : Nests(t, g, h) /\ g[1] = d /\ h[1] = w

(* A set of numbers has a least one.                                       *)
LEMMA LeastNat ==
  ASSUME NEW S \in SUBSET Nat, S # {}
  PROVE  \E m \in S : \A k \in S : m <= k
<1> DEFINE T == {0 .. n : n \in S}
<1>1. T \subseteq FiniteSubsetsOf(Nat) /\ T # {}
  <2>1. \A n \in S : IsFiniteSet(0 .. n) /\ 0 .. n \in SUBSET Nat
    BY FS_Interval
  <2> QED
    BY <2>1 DEF FiniteSubsetsOf
<1>2. PICK x \in T : \A y \in T : ~(<<y, x>> \in StrictSubsetOrdering(Nat))
  BY <1>1, FS_StrictSubsetOrderingWellFounded, WFMin
<1>3. PICK m \in S : x = 0 .. m
  OBVIOUS
<1>4. ASSUME NEW k \in S, k < m
      PROVE  FALSE
  <2>1. 0 .. k \subseteq 0 .. m /\ m \in 0 .. m /\ m \notin 0 .. k
    BY <1>4
  <2>2. <<0 .. k, 0 .. m>> \in StrictSubsetOrdering(Nat)
    BY <2>1 DEF StrictSubsetOrdering
  <2> QED
    BY <1>2, <1>3, <2>2
<1> QED
  BY <1>4

(* A body more is a place more in the depths, and leaving it takes it back.*)
LEMMA RedoIs ==
  ASSUME NEW d \in DepthsRecord, NEW m, NEW w \in Nat,
         d.fn <= w, d.loop <= w, Len(d.saved) = d.fn
  PROVE  /\ Redo(d, m) \in DepthsRecord
         /\ Redo(d, m).fn <= w + One(m) /\ Redo(d, m).loop <= w + One(m)
         /\ Len(Redo(d, m).saved) = Redo(d, m).fn
         /\ Undo(Redo(d, m), m) = d
<1>1. /\ d.fn \in Nat /\ d.loop \in Nat /\ d.saved \in Seq(Nat)
      /\ d = [fn |-> d.fn, loop |-> d.loop, saved |-> d.saved]
  BY DEF DepthsRecord
<1>2. CASE m = "leave_fn"
  <2>1. PICK q : q = <<d.loop>> \o d.saved
    OBVIOUS
  <2>2. <<d.loop>> \in Seq(Nat) /\ Len(<<d.loop>>) = 1 /\ <<d.loop>>[1] = d.loop
    BY <1>1
  <2>3. /\ q \in Seq(Nat) /\ Len(q) = 1 + Len(d.saved)
        /\ \A k \in 1 .. 1 + Len(d.saved) : q[k] = IF k <= 1 THEN <<d.loop>>[k] ELSE d.saved[k - 1]
    BY <1>1, <2>1, <2>2, ConcatProperties
  <2>4. q # <<>> /\ Head(q) = d.loop
    BY <1>1, <2>2, <2>3, EmptySeq
  <2>5. Tail(q) = d.saved
    <3>1. /\ Tail(q) \in Seq(Nat) /\ Len(Tail(q)) = Len(d.saved)
          /\ \A k \in 1 .. Len(Tail(q)) : Tail(q)[k] = q[k + 1]
      <4>1. /\ Tail(q) \in Seq(Nat) /\ Len(Tail(q)) = Len(q) - 1
            /\ \A k \in 1 .. Len(Tail(q)) : Tail(q)[k] = q[k + 1]
        BY <2>3, <2>4, HeadTailProperties
      <4>2. Len(q) - 1 = Len(d.saved)
        BY <1>1, <2>3
      <4> QED
        BY <4>1, <4>2
    <3>2. ASSUME NEW k \in 1 .. Len(d.saved) PROVE Tail(q)[k] = d.saved[k]
      <4>1. k + 1 \in 1 .. 1 + Len(d.saved) /\ ~(k + 1 <= 1) /\ k + 1 - 1 = k
        BY <1>1
      <4>2. q[k + 1] = d.saved[k]
        BY <2>3, <4>1
      <4> QED
        BY <3>1, <4>2
    <3> QED
      BY <1>1, <3>1, <3>2, SeqEqual
  <2>6. Redo(d, m) = [fn |-> d.fn + 1, loop |-> 0, saved |-> q]
    BY <1>2, <2>1 DEF Redo
  <2>7. One(m) = 1
    BY <1>2 DEF One, Scoped
  <2>8. PICK r : r = Redo(d, m)
    OBVIOUS
  <2>9. r.fn = d.fn + 1 /\ r.loop = 0 /\ r.saved = q
    BY <2>6, <2>8
  <2>10. r \in DepthsRecord /\ r.fn <= w + 1 /\ r.loop <= w + 1 /\ Len(r.saved) = r.fn
    <3>1. r \in DepthsRecord
      BY <1>1, <2>3, <2>6, <2>8 DEF DepthsRecord
    <3>2. Len(d.saved) \in Nat
      BY <1>1
    <3> QED
      BY <1>1, <2>3, <2>9, <3>1, <3>2
  <2>11. Undo(r, m) = [fn |-> r.fn - 1, loop |-> Head(r.saved), saved |-> Tail(r.saved)]
    BY <1>2 DEF Undo
  <2>12. r.fn - 1 = d.fn
    BY <1>1, <2>9
  <2>13. Undo(r, m) = d
    BY <1>1, <2>4, <2>5, <2>9, <2>11, <2>12
  <2> QED
    BY <2>7, <2>8, <2>10, <2>13
<1>3. CASE m = "leave_loop"
  <2>1. Redo(d, m) = [fn |-> d.fn, loop |-> d.loop + 1, saved |-> d.saved]
    BY <1>1, <1>3 DEF Redo
  <2>2. One(m) = 1
    BY <1>3 DEF One, Scoped
  <2>3. PICK r : r = Redo(d, m)
    OBVIOUS
  <2>4. r.fn = d.fn /\ r.loop = d.loop + 1 /\ r.saved = d.saved /\ r \in DepthsRecord
    BY <1>1, <2>1, <2>3 DEF DepthsRecord
  <2>5. Undo(r, m) = [r EXCEPT !.loop = @ - 1]
    BY <1>3 DEF Undo
  <2>6. Undo(r, m) = [fn |-> r.fn, loop |-> r.loop - 1, saved |-> r.saved]
    BY <2>4, <2>5 DEF DepthsRecord
  <2>7. r.loop - 1 = d.loop
    BY <1>1, <2>4
  <2>8. Undo(r, m) = d
    BY <1>1, <2>4, <2>6, <2>7
  <2>9. r.fn <= w + 1 /\ r.loop <= w + 1 /\ Len(r.saved) = r.fn
    BY <1>1, <2>4
  <2> QED
    BY <2>2, <2>3, <2>4, <2>8, <2>9
<1>4. CASE m # "leave_fn" /\ m # "leave_loop"
  BY <1>1, <1>4 DEF Redo, Undo, One
<1> QED
  BY <1>2, <1>3, <1>4

(* Nothing left to parse.                                                  *)
LEMMA NestEmpty ==
  /\ Nest(<<>>, Outermost, 0)
  /\ \A d, w : Nest(<<>>, d, w) => d = Outermost /\ w = 0
<1>1. Len(<<>>) = 0
  OBVIOUS
<1>2. Nest(<<>>, Outermost, 0)
  <2> DEFINE g == [k \in 1 .. 1 |-> Outermost]
             h == [k \in 1 .. 1 |-> 0]
  <2>1. Outermost \in DepthsRecord /\ Outermost.fn = 0 /\ Outermost.loop = 0 /\ Len(Outermost.saved) = 0
    BY DEF Outermost, DepthsRecord
  <2>2. Nests(<<>>, g, h)
    BY <1>1, <2>1 DEF Nests
  <2> QED
    BY <2>2 DEF Nest
<1>3. \A d, w : Nest(<<>>, d, w) => d = Outermost /\ w = 0
  BY <1>1 DEF Nest, Nests
<1> QED
  BY <1>2, <1>3

(* What is put in front of it.                                             *)
LEMMA NestOne ==
  ASSUME NEW t \in Seq(Symbol), NEW m \in Symbol, NEW d, NEW w, Nest(t, d, w)
  PROVE  Nest(<<m>> \o t, Redo(d, m), w + One(m))
<1>1. PICK g, h : Nests(t, g, h) /\ g[1] = d /\ h[1] = w
  BY DEF Nest
<1>2. PICK n \in Nat \ {0} : n = Len(t) + 1
  OBVIOUS
<1>3. PICK u : u = <<m>> \o t
  OBVIOUS
<1>4. Len(u) = n /\ u[1] = m /\ \A k \in 2 .. n : u[k] = t[k - 1]
  <2>1. <<m>> \in Seq(Symbol) /\ Len(<<m>>) = 1 /\ <<m>>[1] = m
    OBVIOUS
  <2>2. Len(u) = 1 + Len(t) /\ \A k \in 1 .. 1 + Len(t) : u[k] = IF k <= 1 THEN <<m>>[k] ELSE t[k - 1]
    BY <1>3, <2>1, ConcatProperties
  <2> QED
    BY <1>2, <2>1, <2>2
<1>5. /\ g \in [1 .. n -> DepthsRecord] /\ h \in [1 .. n -> Nat] /\ g[n] = Outermost /\ h[n] = 0
      /\ \A k \in 1 .. n : g[k].fn <= h[k] /\ g[k].loop <= h[k] /\ Len(g[k].saved) = g[k].fn
      /\ \A k \in 1 .. n - 1 : g[k] = Redo(g[k + 1], t[k]) /\ h[k] = h[k + 1] + One(t[k])
  BY <1>1, <1>2 DEF Nests
<1>6. PICK e : e = Redo(d, m)
  OBVIOUS
<1>7. PICK v : v = w + One(m)
  OBVIOUS
<1>8. e \in DepthsRecord /\ v \in Nat /\ e.fn <= v /\ e.loop <= v /\ Len(e.saved) = e.fn
  <2>1. 1 \in 1 .. n
    BY <1>2
  <2>2. d \in DepthsRecord /\ w \in Nat /\ d.fn <= w /\ d.loop <= w /\ Len(d.saved) = d.fn
    BY <1>1, <1>5, <2>1
  <2> QED
    BY <1>6, <1>7, <2>2, RedoIs DEF One
<1> DEFINE f == [k \in 1 .. n + 1 |-> IF k = 1 THEN e ELSE g[k - 1]]
           l == [k \in 1 .. n + 1 |-> IF k = 1 THEN v ELSE h[k - 1]]
<1>9. \A k \in 2 .. n + 1 : k - 1 \in 1 .. n /\ f[k] = g[k - 1] /\ l[k] = h[k - 1] /\ k \in 1 .. n + 1
  BY <1>2
<1>10. f[1] = e /\ l[1] = v /\ 1 \in 1 .. n + 1 /\ \A k \in 1 .. n + 1 : k = 1 \/ k \in 2 .. n + 1
  BY <1>2
<1>11. f \in [1 .. n + 1 -> DepthsRecord] /\ l \in [1 .. n + 1 -> Nat]
  BY <1>5, <1>8, <1>9, <1>10
<1>12. f[n + 1] = Outermost /\ l[n + 1] = 0
  BY <1>2, <1>5, <1>9
<1>13. \A k \in 1 .. n + 1 : f[k].fn <= l[k] /\ f[k].loop <= l[k] /\ Len(f[k].saved) = f[k].fn
  BY <1>5, <1>8, <1>9, <1>10
<1>14. ASSUME NEW k \in 1 .. n
       PROVE  f[k] = Redo(f[k + 1], u[k]) /\ l[k] = l[k + 1] + One(u[k])
  <2>1. CASE k = 1
    <3>1. f[k + 1] = d /\ l[k + 1] = w
      BY <1>1, <1>2, <1>9, <2>1
    <3> QED
      BY <1>4, <1>6, <1>7, <1>10, <2>1, <3>1
  <2>2. CASE k # 1
    <3>1. k - 1 \in 1 .. n - 1 /\ k \in 2 .. n /\ k - 1 + 1 = k /\ k + 1 - 1 = k /\ k + 1 \in 2 .. n + 1 /\ k \in 2 .. n + 1
      BY <1>2, <2>2
    <3>2. g[k - 1] = Redo(g[k], t[k - 1]) /\ h[k - 1] = h[k] + One(t[k - 1])
      BY <1>5, <3>1
    <3> QED
      BY <1>4, <1>9, <3>1, <3>2
  <2> QED
    BY <2>1, <2>2
<1> HIDE DEF f, l
<1>15. Nests(u, f, l)
  BY <1>4, <1>11, <1>12, <1>13, <1>14 DEF Nests
<1> QED
  BY <1>3, <1>6, <1>7, <1>10, <1>15 DEF Nest

(* What is behind its first place.                                         *)
LEMMA NestTail ==
  ASSUME NEW t \in Seq(Symbol), t # <<>>, NEW d, NEW w, Nest(t, d, w)
  PROVE  \E e \in DepthsRecord, v \in Nat :
            /\ Nest(Tail(t), e, v)
            /\ d = Redo(e, Head(t)) /\ w = v + One(Head(t))
            /\ e.fn <= v /\ e.loop <= v /\ Undo(d, Head(t)) = e
<1>1. PICK g, h : Nests(t, g, h) /\ g[1] = d /\ h[1] = w
  BY DEF Nest
<1>2. PICK n \in Nat \ {0} : n = Len(t)
  BY EmptySeq
<1>3. PICK u : u = Tail(t)
  OBVIOUS
<1>4. Len(u) = n - 1 /\ Head(t) = t[1] /\ \A k \in 1 .. n - 1 : u[k] = t[k + 1]
  BY <1>2, <1>3, HeadTailProperties
<1>5. /\ g \in [1 .. n + 1 -> DepthsRecord] /\ h \in [1 .. n + 1 -> Nat]
      /\ g[n + 1] = Outermost /\ h[n + 1] = 0
      /\ \A k \in 1 .. n + 1 : g[k].fn <= h[k] /\ g[k].loop <= h[k] /\ Len(g[k].saved) = g[k].fn
      /\ \A k \in 1 .. n : g[k] = Redo(g[k + 1], t[k]) /\ h[k] = h[k + 1] + One(t[k])
  BY <1>1, <1>2 DEF Nests
<1> DEFINE f == [k \in 1 .. n |-> g[k + 1]]
           l == [k \in 1 .. n |-> h[k + 1]]
<1>6. \A k \in 1 .. n : k + 1 \in 1 .. n + 1 /\ f[k] = g[k + 1] /\ l[k] = h[k + 1]
  BY <1>2
<1>7. f \in [1 .. n -> DepthsRecord] /\ l \in [1 .. n -> Nat]
  BY <1>5, <1>6
<1>8. f[n] = Outermost /\ l[n] = 0 /\ 1 \in 1 .. n /\ f[1] = g[2] /\ l[1] = h[2]
  BY <1>2, <1>5, <1>6
<1>9. \A k \in 1 .. n : f[k].fn <= l[k] /\ f[k].loop <= l[k] /\ Len(f[k].saved) = f[k].fn
  BY <1>5, <1>6
<1>10. ASSUME NEW k \in 1 .. n - 1
       PROVE  f[k] = Redo(f[k + 1], u[k]) /\ l[k] = l[k + 1] + One(u[k])
  <2>1. k \in 1 .. n /\ k + 1 \in 1 .. n
    BY <1>2
  <2> QED
    BY <1>4, <1>5, <1>6, <2>1
<1> HIDE DEF f, l
<1>11. n - 1 + 1 = n
  BY <1>2
<1>12. Nests(u, f, l)
  BY <1>4, <1>7, <1>8, <1>9, <1>10, <1>11 DEF Nests
<1>13. f[1] \in DepthsRecord /\ l[1] \in Nat
  BY <1>7, <1>8
<1>14. d = Redo(f[1], t[1]) /\ w = l[1] + One(t[1])
  <2>1. 1 + 1 = 2
    OBVIOUS
  <2> QED
    BY <1>1, <1>5, <1>8, <2>1
<1>15. f[1].fn <= l[1] /\ f[1].loop <= l[1] /\ Len(f[1].saved) = f[1].fn
  BY <1>8, <1>9
<1>16. Undo(d, t[1]) = f[1]
  BY <1>13, <1>14, <1>15, RedoIs
<1>17. Nest(u, f[1], l[1])
  BY <1>12 DEF Nest
<1> QED
  BY <1>3, <1>4, <1>13, <1>14, <1>15, <1>16, <1>17

(* Symbols that are no bodies, in front of it.                             *)
LEMMA NestPlain ==
  ASSUME NEW t \in Seq(Symbol), NEW p \in Seq(Symbol \ Scoped), NEW d, NEW w, Nest(t, d, w)
  PROVE  Nest(p \o t, d, w)
<1>1. PICK g, h : Nests(t, g, h) /\ g[1] = d /\ h[1] = w
  BY DEF Nest
<1>2. PICK n \in Nat \ {0} : n = Len(t) + 1
  OBVIOUS
<1>3. PICK c \in Nat : c = Len(p)
  OBVIOUS
<1>4. PICK u : u = p \o t
  OBVIOUS
<1>5. /\ Len(u) + 1 = c + n
      /\ \A k \in 1 .. c : u[k] \notin Scoped
      /\ \A k \in c + 1 .. c + n - 1 : u[k] = t[k - c]
  <2>1. p \in Seq(Symbol) /\ \A k \in 1 .. c : p[k] \notin Scoped
    BY <1>3
  <2>2. Len(u) = c + Len(t) /\ \A k \in 1 .. c + Len(t) : u[k] = IF k <= c THEN p[k] ELSE t[k - c]
    BY <1>3, <1>4, <2>1, ConcatProperties
  <2> QED
    BY <1>2, <1>3, <2>1, <2>2
<1>6. /\ g \in [1 .. n -> DepthsRecord] /\ h \in [1 .. n -> Nat] /\ g[n] = Outermost /\ h[n] = 0
      /\ \A k \in 1 .. n : g[k].fn <= h[k] /\ g[k].loop <= h[k] /\ Len(g[k].saved) = g[k].fn
      /\ \A k \in 1 .. n - 1 : g[k] = Redo(g[k + 1], t[k]) /\ h[k] = h[k + 1] + One(t[k])
  BY <1>1, <1>2 DEF Nests
<1> DEFINE at(k) == IF k <= c THEN 1 ELSE k - c
           f == [k \in 1 .. c + n |-> g[at(k)]]
           l == [k \in 1 .. c + n |-> h[at(k)]]
<1>7. \A k \in 1 .. c + n : at(k) \in 1 .. n /\ f[k] = g[at(k)] /\ l[k] = h[at(k)]
  BY <1>2, <1>3
<1>8. f \in [1 .. c + n -> DepthsRecord] /\ l \in [1 .. c + n -> Nat]
  BY <1>6, <1>7
<1>9. f[c + n] = Outermost /\ l[c + n] = 0
  <2>1. c + n \in 1 .. c + n /\ at(c + n) = n
    BY <1>2, <1>3
  <2> QED
    BY <1>6, <1>7, <2>1
<1>10. \A k \in 1 .. c + n : f[k].fn <= l[k] /\ f[k].loop <= l[k] /\ Len(f[k].saved) = f[k].fn
  BY <1>6, <1>7
<1>11. f[1] = d /\ l[1] = w
  <2>1. 1 \in 1 .. c + n /\ at(1) = 1
    BY <1>2, <1>3
  <2> QED
    BY <1>1, <1>7, <2>1
<1>12. ASSUME NEW k \in 1 .. c + n - 1
       PROVE  f[k] = Redo(f[k + 1], u[k]) /\ l[k] = l[k + 1] + One(u[k])
  <2>1. k \in 1 .. c + n /\ k + 1 \in 1 .. c + n
    BY <1>2, <1>3
  <2>2. CASE k \in 1 .. c
    <3>1. at(k) = 1 /\ at(k + 1) = 1
      BY <1>3, <2>2
    <3>2. f[k] = g[1] /\ f[k + 1] = g[1] /\ l[k] = h[1] /\ l[k + 1] = h[1] /\ h[1] \in Nat
      BY <1>2, <1>6, <1>7, <2>1, <3>1
    <3>3. u[k] # "leave_fn" /\ u[k] # "leave_loop" /\ One(u[k]) = 0
      BY <1>5, <2>2 DEF Scoped, One
    <3> QED
      BY <3>2, <3>3 DEF Redo
  <2>3. CASE k \notin 1 .. c
    <3>1. k \in c + 1 .. c + n - 1 /\ k - c \in 1 .. n - 1 /\ at(k) = k - c /\ at(k + 1) = k - c + 1
      BY <1>2, <1>3, <2>3
    <3> QED
      BY <1>5, <1>6, <1>7, <2>1, <3>1
  <2> QED
    BY <2>2, <2>3
<1> HIDE DEF at, f, l
<1>13. Len(u) = c + n - 1
  <2>1. Len(u) \in Nat
    BY <1>4, ConcatProperties
  <2> QED
    BY <1>5, <2>1
<1>14. Nests(u, f, l)
  BY <1>5, <1>8, <1>9, <1>10, <1>12, <1>13 DEF Nests
<1> QED
  BY <1>4, <1>11, <1>14 DEF Nest

(* An error leaves all of it, and the depths are those outside.            *)
LEMMA UnwindsAll ==
  ASSUME todo \in Seq(Symbol), NEW w, Nest(todo, Depths, w)
  PROVE  Unwound = Outermost
<1>1. PICK g, h : Nests(todo, g, h) /\ g[1] = Depths
  BY DEF Nest
<1>2. PICK n \in Nat : n = Len(todo)
  OBVIOUS
<1>3. /\ g \in [1 .. n + 1 -> DepthsRecord] /\ h \in [1 .. n + 1 -> Nat]
      /\ g[n + 1] = Outermost
      /\ \A k \in 1 .. n + 1 : g[k].fn <= h[k] /\ g[k].loop <= h[k] /\ Len(g[k].saved) = g[k].fn
      /\ \A k \in 1 .. n : g[k] = Redo(g[k + 1], todo[k])
  BY <1>1, <1>2 DEF Nests
<1>4. ASSUME NEW k \in 1 .. n PROVE Undo(g[k], todo[k]) = g[k + 1]
  <2>1. k + 1 \in 1 .. n + 1 /\ k \in 1 .. n
    BY <1>2
  <2>2. /\ g[k + 1] \in DepthsRecord /\ h[k + 1] \in Nat
        /\ g[k + 1].fn <= h[k + 1] /\ g[k + 1].loop <= h[k + 1] /\ Len(g[k + 1].saved) = g[k + 1].fn
        /\ g[k] = Redo(g[k + 1], todo[k])
    BY <1>3, <2>1
  <2> QED
    BY <2>2, RedoIs
<1> DEFINE f == [k \in 0 .. n |-> g[k + 1]]
<1>5. \A k \in 0 .. n : f[k] = IF k = 0 THEN Depths ELSE Undo(f[k - 1], todo[k])
  <2> SUFFICES ASSUME NEW k \in 0 .. n
               PROVE  f[k] = IF k = 0 THEN Depths ELSE Undo(f[k - 1], todo[k])
    OBVIOUS
  <2>1. CASE k = 0
    BY <1>1, <1>2, <2>1
  <2>2. CASE k # 0
    <3>1. k \in 1 .. n /\ k - 1 \in 0 .. n /\ k - 1 + 1 = k
      BY <1>2, <2>2
    <3>2. f[k] = g[k + 1] /\ f[k - 1] = g[k]
      BY <3>1
    <3> QED
      BY <1>4, <2>2, <3>1, <3>2
  <2> QED
    BY <2>1, <2>2
<1> DEFINE R == CHOOSE u : u = [k \in 0 .. n |-> IF k = 0 THEN Depths ELSE Undo(u[k - 1], todo[k])]
<1>6. R = [k \in 0 .. n |-> IF k = 0 THEN Depths ELSE Undo(R[k - 1], todo[k])]
  <2>1. f = [k \in 0 .. n |-> IF k = 0 THEN Depths ELSE Undo(f[k - 1], todo[k])]
    BY <1>5
  <2> HIDE DEF f
  <2> QED
    BY <2>1
<1>7. Unwound = R[n]
  BY <1>2 DEF Unwound
<1>8. \A k \in 0 .. n : R[k] = IF k = 0 THEN Depths ELSE Undo(R[k - 1], todo[k])
  <2> HIDE DEF R
  <2> QED
    BY <1>6
<1> HIDE DEF R, f
<1>9. \A k \in 0 .. n : R[k] = f[k]
  <2> DEFINE S == {k \in 0 .. n : R[k] # f[k]}
  <2>1. SUFFICES ASSUME S # {} PROVE FALSE
    OBVIOUS
  <2>2. S \in SUBSET Nat
    BY <1>2
  <2>3. PICK m \in S : \A k \in S : m <= k
    BY <2>1, <2>2, LeastNat
  <2>4. m \in 0 .. n /\ R[m] # f[m] /\ m # 0
    BY <1>5, <1>8
  <2>5. m - 1 \in 0 .. n /\ ~(m <= m - 1)
    BY <2>4
  <2>6. R[m - 1] = f[m - 1]
    BY <2>3, <2>5
  <2> QED
    BY <1>5, <1>8, <2>4, <2>6
<1>10. f[n] = Outermost
  BY <1>2, <1>3 DEF f
<1> QED
  BY <1>2, <1>7, <1>9, <1>10

(* The depths count the bodies around.                                     *)
LEMMA CountsAre ==
  ASSUME todo \in Seq(Symbol), NEW w, Nest(todo, Depths, w)
  PROVE  /\ fn_depth = Cardinality(FunctionsOpen) /\ loop_depth = Cardinality(LoopsOpen)
         /\ Len(saved) = fn_depth
         /\ fn_depth \in Nat /\ loop_depth \in Nat
         /\ fn_depth <= w /\ loop_depth <= w
<1>1. PICK g, h : Nests(todo, g, h) /\ g[1] = Depths /\ h[1] = w
  BY DEF Nest
<1>2. PICK n \in Nat : n = Len(todo)
  OBVIOUS
<1>3. /\ g \in [1 .. n + 1 -> DepthsRecord]
      /\ g[n + 1] = Outermost
      /\ \A k \in 1 .. n + 1 : g[k].fn <= h[k] /\ g[k].loop <= h[k] /\ Len(g[k].saved) = g[k].fn
      /\ \A k \in 1 .. n : g[k] = Redo(g[k + 1], todo[k])
  BY <1>1, <1>2 DEF Nests
<1> DEFINE F(k) == {x \in k .. n : todo[x] = "leave_fn"}
           L(k) == {x \in k .. n : todo[x] = "leave_loop" /\ \A f \in F(k) : x < f}
           C(k) == /\ IsFiniteSet(F(k)) /\ g[k].fn = Cardinality(F(k))
                   /\ IsFiniteSet(L(k)) /\ g[k].loop = Cardinality(L(k))
<1>4. C(n + 1)
  <2>1. F(n + 1) = {} /\ L(n + 1) = {}
    BY <1>2
  <2>2. g[n + 1].fn = 0 /\ g[n + 1].loop = 0
    BY <1>3 DEF Outermost
  <2> HIDE DEF F, L
  <2> QED
    BY <2>1, <2>2, FS_EmptySet
<1>5. ASSUME NEW k \in 1 .. n, C(k + 1)
      PROVE  C(k)
  <2>1. g[k] = Redo(g[k + 1], todo[k]) /\ g[k + 1] \in DepthsRecord
    BY <1>2, <1>3
  <2>2. g[k + 1].fn \in Nat /\ g[k + 1].loop \in Nat
    BY <2>1 DEF DepthsRecord
  <2>3. k .. n = {k} \cup (k + 1 .. n) /\ k \notin k + 1 .. n
    BY <1>2
  <2>4. CASE todo[k] = "leave_fn"
    <3>1. F(k) = F(k + 1) \cup {k} /\ k \notin F(k + 1)
      BY <2>3, <2>4
    <3>2. L(k) = {}
      BY <1>2, <3>1
    <3>3. g[k].fn = g[k + 1].fn + 1 /\ g[k].loop = 0
      BY <2>1, <2>4 DEF Redo
    <3> HIDE DEF F, L
    <3>4. IsFiniteSet(F(k)) /\ Cardinality(F(k)) = Cardinality(F(k + 1)) + 1
      BY <1>5, <3>1, FS_AddElement
    <3> QED
      BY <1>5, <3>2, <3>3, <3>4, FS_EmptySet
  <2>5. CASE todo[k] = "leave_loop"
    <3>1. F(k) = F(k + 1)
      BY <2>3, <2>5
    <3>2. L(k) = L(k + 1) \cup {k} /\ k \notin L(k + 1)
      <4>1. \A f \in F(k + 1) : k < f
        BY <1>2
      <4> QED
        BY <2>3, <2>5, <3>1, <4>1
    <3>3. g[k].fn = g[k + 1].fn /\ g[k].loop = g[k + 1].loop + 1
      BY <2>1, <2>5 DEF Redo, DepthsRecord
    <3> HIDE DEF F, L
    <3>4. IsFiniteSet(L(k)) /\ Cardinality(L(k)) = Cardinality(L(k + 1)) + 1
      BY <1>5, <3>2, FS_AddElement
    <3> QED
      BY <1>5, <3>1, <3>3, <3>4
  <2>6. CASE todo[k] # "leave_fn" /\ todo[k] # "leave_loop"
    <3>1. F(k) = F(k + 1)
      BY <2>3, <2>6
    <3>2. L(k) = L(k + 1)
      BY <2>3, <2>6, <3>1
    <3>3. g[k] = g[k + 1]
      BY <2>1, <2>6 DEF Redo
    <3> QED
      BY <1>5, <3>1, <3>2, <3>3
  <2> QED
    BY <2>4, <2>5, <2>6
<1> HIDE DEF C
<1>6. C(1)
  <2> DEFINE S == {m \in 0 .. n : ~C(n + 1 - m)}
  <2>1. S = {}
    <3>1. SUFFICES ASSUME S # {} PROVE FALSE
      OBVIOUS
    <3>2. S \in SUBSET Nat
      BY <1>2
    <3>3. PICK m \in S : \A k \in S : m <= k
      BY <3>1, <3>2, LeastNat
    <3>4. m \in 0 .. n /\ ~C(n + 1 - m)
      BY <3>3
    <3>5. m # 0
      <4>1. n + 1 - 0 = n + 1
        BY <1>2
      <4> QED
        BY <1>4, <3>4, <4>1
    <3>6. m - 1 \in 0 .. n /\ ~(m <= m - 1)
      BY <1>2, <3>4, <3>5
    <3>7. C(n + 1 - (m - 1))
      BY <3>3, <3>6
    <3>8. n + 1 - (m - 1) = n + 1 - m + 1 /\ n + 1 - m \in 1 .. n
      BY <1>2, <3>4, <3>5
    <3> QED
      BY <1>5, <3>4, <3>7, <3>8
  <2>2. n \in 0 .. n /\ n + 1 - n = 1
    BY <1>2
  <2> QED
    BY <2>1, <2>2
<1>7. FunctionsOpen = F(1) /\ LoopsOpen = L(1)
  BY <1>2 DEF FunctionsOpen, LoopsOpen
<1>8. /\ Depths.fn = fn_depth /\ Depths.loop = loop_depth /\ Depths.saved = saved
      /\ Depths \in DepthsRecord /\ 1 \in 1 .. n + 1
  <2>1. 1 \in 1 .. n + 1
    BY <1>2
  <2>2. Depths \in DepthsRecord
    BY <1>1, <1>3, <2>1
  <2> QED
    BY <2>1, <2>2 DEF Depths
<1>9. fn_depth \in Nat /\ loop_depth \in Nat /\ Len(saved) = fn_depth /\ fn_depth <= w /\ loop_depth <= w
  BY <1>1, <1>3, <1>8 DEF DepthsRecord
<1> QED
  BY <1>1, <1>6, <1>7, <1>8, <1>9 DEF C

(***************************************************************************)
(* What the parser has to parse.                                           *)
(***************************************************************************)
Openers == {"make", "repeat"}

Plain == Symbol \ (Scoped \cup Openers)

Keyword == {"assign", "word", "make", "shape", "record", "return", "check", "repeat", "each",
            "match", "leave", "begin"}

(* The symbols.                                                            *)
LEMMA SymbolsAre ==
  /\ DOMAIN Production = Keyword
  /\ Token = Keyword \cup {"end", "semi", "orelse", "when", "otherwise", "import", "junk"}
  /\ Keyword \ Openers \subseteq Plain
  /\ {"stmt", "end", "semi", "orelse", "when", "otherwise", "import"} \subseteq Plain
  /\ Optional \subseteq Plain
  /\ Scoped \subseteq Symbol /\ Openers \subseteq Token /\ Token \subseteq Symbol
  /\ Scoped \cap Token = {} /\ "eof" \notin Token /\ "stmt" \notin Token
<1>1. DOMAIN Production = Keyword
  BY DEF Production, Keyword
<1>2. Token = Keyword \cup {"end", "semi", "orelse", "when", "otherwise", "import", "junk"}
  BY <1>1 DEF Token
<1>3. Symbol = Token \cup {"stmt"} \cup Optional \cup Scoped
  BY DEF Symbol
<1>4. Keyword \ Openers \subseteq Plain
  BY <1>2, <1>3 DEF Plain, Keyword, Openers, Scoped
<1>5. {"stmt", "end", "semi", "orelse", "when", "otherwise", "import"} \subseteq Plain
  BY <1>2, <1>3 DEF Plain, Openers, Scoped
<1>6. Optional \subseteq Plain
  BY <1>3 DEF Plain, Openers, Scoped, Optional
<1>7. Scoped \cap Token = {} /\ "eof" \notin Token /\ "stmt" \notin Token /\ Openers \subseteq Token
  BY <1>2 DEF Scoped, Keyword, Openers
<1> QED
  BY <1>1, <1>2, <1>3, <1>4, <1>5, <1>6, <1>7

(* The first of two texts is in front.                                     *)
LEMMA FrontIs ==
  ASSUME NEW S, NEW r \in Seq(S), Len(r) >= 1, NEW u \in Seq(S)
  PROVE  r \o u \in Seq(S) /\ Len(r \o u) = Len(r) + Len(u) /\ (r \o u)[1] = r[1]
<1>1. 1 \in 1 .. Len(r) + Len(u) /\ 1 <= Len(r)
  OBVIOUS
<1> QED
  BY <1>1, ConcatProperties

(* What is plain.                                                          *)
LEMMA PlainAre ==
  /\ Block \in Seq(Plain) /\ Len(Block) = 3 /\ Block[1] = "begin"
  /\ \A m : m = "else" => <<"check", "word">> \o Block \o <<m>> \in Seq(Plain)
                          /\ (<<"check", "word">> \o Block \o <<m>>)[1] = "check"
                          /\ Len(<<"check", "word">> \o Block \o <<m>>) = 6
  /\ <<"each", "word">> \o Block \in Seq(Plain)
  /\ (<<"each", "word">> \o Block)[1] = "each"
  /\ Len(<<"each", "word">> \o Block) = 5
<1>1. /\ "begin" \in Plain /\ "body" \in Plain /\ "end" \in Plain /\ "check" \in Plain
      /\ "word" \in Plain /\ "else" \in Plain /\ "each" \in Plain
  BY SymbolsAre DEF Keyword, Openers, Optional
<1>2. Block \in Seq(Plain) /\ Len(Block) = 3 /\ Block[1] = "begin"
  BY <1>1 DEF Block
<1>3. PICK c, e, z : c = <<"check", "word">> /\ e = <<"each", "word">> /\ z = <<"else">>
  OBVIOUS
<1>4. /\ c \in Seq(Plain) /\ Len(c) = 2 /\ c[1] = "check"
      /\ e \in Seq(Plain) /\ Len(e) = 2 /\ e[1] = "each"
      /\ z \in Seq(Plain) /\ Len(z) = 1
  BY <1>1, <1>3
<1>5. c \o Block \in Seq(Plain) /\ Len(c \o Block) = 5 /\ (c \o Block)[1] = "check"
  <2>1. Len(c) >= 1
    BY <1>4
  <2>2. c \o Block \in Seq(Plain) /\ Len(c \o Block) = Len(c) + Len(Block) /\ (c \o Block)[1] = c[1]
    BY <1>2, <1>4, <2>1, FrontIs
  <2> QED
    BY <1>2, <1>4, <2>2
<1>6. e \o Block \in Seq(Plain) /\ Len(e \o Block) = 5 /\ (e \o Block)[1] = "each"
  <2>1. Len(e) >= 1
    BY <1>4
  <2>2. e \o Block \in Seq(Plain) /\ Len(e \o Block) = Len(e) + Len(Block) /\ (e \o Block)[1] = e[1]
    BY <1>2, <1>4, <2>1, FrontIs
  <2> QED
    BY <1>2, <1>4, <2>2
<1>7. /\ (c \o Block) \o z \in Seq(Plain) /\ Len((c \o Block) \o z) = 6
      /\ ((c \o Block) \o z)[1] = "check"
  <2>1. PICK y : y = c \o Block
    OBVIOUS
  <2>2. y \in Seq(Plain) /\ Len(y) = 5 /\ y[1] = "check" /\ Len(y) >= 1
    BY <1>5, <2>1
  <2>3. y \o z \in Seq(Plain) /\ Len(y \o z) = Len(y) + Len(z) /\ (y \o z)[1] = y[1]
    BY <1>4, <2>2, FrontIs
  <2> QED
    BY <1>4, <2>1, <2>2, <2>3
<1> QED
  BY <1>2, <1>3, <1>6, <1>7

(* What a keyword begins.                                                  *)
LEMMA ProductionIs ==
  ASSUME NEW x \in Keyword
  PROVE  /\ Production[x] \in Seq(Symbol) /\ Len(Production[x]) >= 1 /\ Production[x][1] = x
         /\ \/ x \notin Openers /\ Production[x] \in Seq(Plain)
            \/ x \in Openers /\ \E m \in {"fn_body", "loop_body"} : Production[x] = <<x, "word", m>>
<1>1. /\ "word" \in Plain /\ "semi" \in Plain /\ "begin" \in Plain /\ "end" \in Plain
      /\ "fields" \in Plain /\ "names" \in Plain /\ "value" \in Plain
      /\ "arms" \in Plain /\ "default" \in Plain
      /\ (x \notin Openers => x \in Plain) /\ Plain \subseteq Symbol
      /\ x \in Symbol /\ "fn_body" \in Symbol /\ "loop_body" \in Symbol
  BY SymbolsAre DEF Keyword, Openers, Optional, Scoped, Plain
<1>2. CASE x \in {"assign", "word", "leave", "return"}
  <2>1. CASE x = "assign"
    <3>1. Production[x] = <<x, "word", "semi">>
      BY <2>1 DEF Production
    <3> QED
      BY <1>1, <2>1, <3>1 DEF Openers
  <2>2. CASE x = "return"
    <3>1. Production[x] = <<x, "value", "semi">>
      BY <2>2 DEF Production
    <3> QED
      BY <1>1, <2>2, <3>1 DEF Openers
  <2>3. CASE x \in {"word", "leave"}
    <3>1. Production[x] = <<x, "semi">>
      BY <2>3 DEF Production
    <3> QED
      BY <1>1, <2>3, <3>1 DEF Openers
  <2> QED
    BY <1>2, <2>1, <2>2, <2>3
<1>3. CASE x \in {"shape", "record"}
  <2>1. Production[x] = <<x, "word", "begin", IF x = "shape" THEN "fields" ELSE "names", "end">>
    BY <1>3 DEF Production
  <2> QED
    BY <1>1, <1>3, <2>1 DEF Openers
<1>4. CASE x = "match"
  <2>1. Production[x] = <<x, "word", "begin", "arms", "default", "end">>
    BY <1>4 DEF Production
  <2> QED
    BY <1>1, <1>4, <2>1 DEF Openers
<1>5. CASE x \in {"check", "each", "begin"}
  <2>1. ASSUME x = "check"
        PROVE  Production[x] \in Seq(Plain) /\ Len(Production[x]) >= 1 /\ Production[x][1] = x
    <3>1. Production[x] = <<"check", "word">> \o Block \o <<"else">>
      BY <2>1 DEF Production
    <3> QED
      BY <2>1, <3>1, PlainAre
  <2>2. ASSUME x = "each"
        PROVE  Production[x] \in Seq(Plain) /\ Len(Production[x]) >= 1 /\ Production[x][1] = x
    <3>1. Production[x] = <<"each", "word">> \o Block
      BY <2>2 DEF Production
    <3> QED
      BY <2>2, <3>1, PlainAre
  <2>3. ASSUME x = "begin"
        PROVE  Production[x] \in Seq(Plain) /\ Len(Production[x]) >= 1 /\ Production[x][1] = x
    <3>1. Production[x] = Block
      BY <2>3 DEF Production
    <3> QED
      BY <2>3, <3>1, PlainAre
  <2>4. Production[x] \in Seq(Plain) /\ Len(Production[x]) >= 1 /\ Production[x][1] = x
    BY <1>5, <2>1, <2>2, <2>3
  <2>5. x \notin Openers
    BY <1>5 DEF Openers
  <2>6. \A r \in Seq(Plain) : r \in Seq(Symbol)
    BY <1>1
  <2> QED
    BY <2>4, <2>5, <2>6
<1>6. CASE x \in Openers
  <2>1. Production[x] = <<x, "word", IF x = "make" THEN "fn_body" ELSE "loop_body">>
    BY <1>6 DEF Production, Openers
  <2> QED
    BY <1>1, <1>6, <2>1
<1> QED
  BY <1>2, <1>3, <1>4, <1>5, <1>6 DEF Keyword, Openers

(* What an optional part is replaced by.                                   *)
LEMMA ExpansionIs ==
  ASSUME NEW x
  PROVE  Expansion(x) \in Seq(Plain)
<1>1. /\ "stmt" \in Plain /\ "body" \in Plain /\ "word" \in Plain /\ "fields" \in Plain
      /\ "orelse" \in Plain /\ "alternative" \in Plain /\ "when" \in Plain /\ "arms" \in Plain
      /\ "otherwise" \in Plain
  BY SymbolsAre DEF Keyword, Openers, Optional
<1>2. /\ <<>> \in Seq(Plain) /\ <<"stmt", "body">> \in Seq(Plain)
      /\ <<"word", "fields">> \in Seq(Plain) /\ <<"word">> \in Seq(Plain)
      /\ <<"orelse", "alternative">> \in Seq(Plain)
  BY <1>1
<1>3. Block \in Seq(Plain) /\ Production.check \in Seq(Plain)
  BY PlainAre DEF Production
<1>4. <<"when", "word">> \o Block \o <<"arms">> \in Seq(Plain) /\ <<"otherwise">> \o Block \in Seq(Plain)
  <2>1. <<"when", "word">> \in Seq(Plain) /\ <<"arms">> \in Seq(Plain) /\ <<"otherwise">> \in Seq(Plain)
    BY <1>1
  <2> QED
    BY <1>3, <2>1, ConcatProperties
<1>5. CASE x = "body"
  BY <1>2, <1>5 DEF Expansion
<1>6. CASE x = "fields"
  BY <1>2, <1>6 DEF Expansion
<1>7. CASE x = "names"
  BY <1>2, <1>7 DEF Expansion
<1>8. CASE x = "value"
  BY <1>2, <1>8 DEF Expansion
<1>9. CASE x = "else"
  BY <1>2, <1>9 DEF Expansion
<1>10. CASE x = "alternative"
  BY <1>3, <1>10 DEF Expansion
<1>11. CASE x = "arms"
  BY <1>2, <1>4, <1>11 DEF Expansion
<1>12. CASE x = "default"
  BY <1>2, <1>4, <1>12 DEF Expansion
<1>13. CASE x \notin Optional
  BY <1>2, <1>13 DEF Expansion, Optional
<1> QED
  BY <1>5, <1>6, <1>7, <1>8, <1>9, <1>10, <1>11, <1>12, <1>13 DEF Optional

(***************************************************************************)
(* The depths fit what is to be parsed, and each body open or to be opened *)
(* has its keyword in the text: read, or the token ahead.                  *)
(***************************************************************************)
Opened(t, p) == \A k \in 1 .. Len(t) : t[k] \in Openers => k = 1 /\ p = t[k]

Extra(t) == IF Len(t) >= 1 /\ t[1] \in Openers THEN 1 ELSE 0

Kept(t, d, p, q) ==
  /\ Opened(t, p)
  /\ \E w \in Nat : Nest(t, d, w) /\ w <= q + Extra(t)

(* Between two statements.                                                 *)
LEMMA KeptAtTop ==
  ASSUME NEW p, NEW q \in Nat
  PROVE  /\ Kept(<<>>, Outermost, p, q)
         /\ \A d : Kept(<<>>, d, p, q) => d = Outermost
         /\ \A r \in Seq(Plain) : Kept(r, Outermost, p, q)
<1>1. Len(<<>>) = 0 /\ <<>> \in Seq(Symbol)
  OBVIOUS
<1>2. Kept(<<>>, Outermost, p, q)
  <2>1. Opened(<<>>, p) /\ Extra(<<>>) = 0
    BY <1>1 DEF Opened, Extra
  <2> QED
    BY <2>1, NestEmpty DEF Kept
<1>3. ASSUME NEW r \in Seq(Plain)
      PROVE  Kept(r, Outermost, p, q)
  <2>1. r \in Seq(Symbol \ Scoped) /\ r \in Seq(Symbol) /\ \A k \in 1 .. Len(r) : r[k] \notin Openers
    BY DEF Plain
  <2>2. Nest(r, Outermost, 0)
    <3>1. Nest(r \o <<>>, Outermost, 0)
      BY <1>1, <2>1, NestEmpty, NestPlain
    <3>2. r \o <<>> = r
      BY <2>1, ConcatEmptySeq
    <3> QED
      BY <3>1, <3>2
  <2>3. Extra(r) \in {0, 1} /\ Opened(r, p)
    BY <2>1 DEF Extra, Opened
  <2> QED
    BY <2>2, <2>3 DEF Kept
<1> QED
  BY <1>2, <1>3, NestEmpty DEF Kept

(* Behind the first place nothing opens.                                   *)
LEMMA TailOpens ==
  ASSUME NEW t \in Seq(Symbol), t # <<>>, NEW p, Opened(t, p)
  PROVE  /\ Tail(t) \in Seq(Symbol) /\ Head(t) = t[1] /\ Len(t) >= 1 /\ Head(t) \in Symbol
         /\ \A k \in 1 .. Len(Tail(t)) : Tail(t)[k] \notin Openers
         /\ Extra(t) = IF Head(t) \in Openers THEN 1 ELSE 0
<1>1. Len(t) \in Nat \ {0} /\ Head(t) = t[1]
  BY EmptySeq
<1>2. /\ Tail(t) \in Seq(Symbol) /\ Len(Tail(t)) = Len(t) - 1
      /\ \A k \in 1 .. Len(Tail(t)) : Tail(t)[k] = t[k + 1]
  BY HeadTailProperties
<1>3. \A k \in 1 .. Len(t) - 1 : t[k + 1] \notin Openers
  BY <1>1 DEF Opened
<1> QED
  BY <1>1, <1>2, <1>3 DEF Extra

(* What replaces the first place.                                          *)
LEMMA ReplacedOpens ==
  ASSUME NEW r \in Seq(Symbol), NEW u \in Seq(Symbol), NEW p,
         \A k \in 1 .. Len(u) : u[k] \notin Openers,
         \A k \in 1 .. Len(r) : r[k] \in Openers => k = 1 /\ p = r[k]
  PROVE  /\ Opened(r \o u, p) /\ r \o u \in Seq(Symbol)
         /\ Extra(r \o u) = IF Len(r) >= 1 /\ r[1] \in Openers THEN 1 ELSE 0
<1>1. PICK n, m \in Nat : n = Len(r) /\ m = Len(u)
  OBVIOUS
<1>2. PICK j : j = r \o u
  OBVIOUS
<1>3. /\ j \in Seq(Symbol) /\ Len(j) = n + m
      /\ \A k \in 1 .. n + m : j[k] = IF k <= n THEN r[k] ELSE u[k - n]
  BY <1>1, <1>2, ConcatProperties
<1>4. \A k \in 1 .. n + m : k \in 1 .. n \/ (~(k <= n) /\ k - n \in 1 .. m)
  BY <1>1
<1>5. Opened(j, p)
  BY <1>1, <1>3, <1>4 DEF Opened
<1>6. Extra(j) = IF n >= 1 /\ r[1] \in Openers THEN 1 ELSE 0
  <2>1. CASE n + m >= 1
    BY <1>1, <1>3, <1>4, <2>1 DEF Extra
  <2>2. CASE n + m = 0
    BY <1>1, <1>3, <2>2 DEF Extra
  <2> QED
    BY <1>1, <2>1, <2>2
<1> QED
  BY <1>1, <1>2, <1>3, <1>5, <1>6

(* What it says of the depths.                                             *)
LEMMA KeptBounds ==
  ASSUME NEW t \in Seq(Symbol), NEW d, NEW p, NEW q \in 0 .. MaxTokens,
         p # "eof" => q < MaxTokens, Kept(t, d, p, q)
  PROVE  d.fn \in 0 .. MaxTokens /\ d.loop \in 0 .. MaxTokens
<1>1. PICK w \in Nat : Nest(t, d, w) /\ w <= q + Extra(t)
  BY DEF Kept
<1>2. PICK g, h : Nests(t, g, h) /\ g[1] = d /\ h[1] = w
  BY <1>1 DEF Nest
<1>3. d.fn \in Nat /\ d.loop \in Nat /\ d.fn <= w /\ d.loop <= w
  <2>1. 1 \in 1 .. Len(t) + 1
    OBVIOUS
  <2> QED
    BY <1>2, <2>1 DEF Nests, DepthsRecord
<1>4. MaxTokens \in Nat
  BY ParserAssumption DEF ParserAssumption
<1>5. w <= MaxTokens
  <2>1. CASE Extra(t) = 0
    BY <1>1, <1>4, <2>1
  <2>2. CASE Extra(t) # 0
    <3>1. Extra(t) = 1 /\ p = t[1] /\ t[1] \in Openers
      BY <2>2 DEF Extra, Kept, Opened
    <3>2. p # "eof"
      BY <3>1, SymbolsAre
    <3> QED
      BY <1>1, <1>4, <3>1, <3>2
  <2> QED
    BY <2>1, <2>2
<1> QED
  BY <1>3, <1>4, <1>5

(* A symbol is replaced by others, none of which is or opens a body.       *)
LEMMA KeptReplace ==
  ASSUME NEW t \in Seq(Symbol), t # <<>>, NEW d, NEW p, NEW q \in Nat, NEW z, Kept(t, d, p, q),
         Head(t) \notin Scoped, Head(t) \notin Openers, NEW r \in Seq(Plain)
  PROVE  Kept(r \o Tail(t), d, z, q) /\ r \o Tail(t) \in Seq(Symbol)
<1>1. PICK w \in Nat : Nest(t, d, w) /\ w <= q + Extra(t)
  BY DEF Kept
<1>2. /\ Tail(t) \in Seq(Symbol) /\ \A k \in 1 .. Len(Tail(t)) : Tail(t)[k] \notin Openers
      /\ Extra(t) = 0
  BY TailOpens DEF Kept
<1>3. PICK e \in DepthsRecord, v \in Nat : /\ Nest(Tail(t), e, v)
                                           /\ d = Redo(e, Head(t)) /\ w = v + One(Head(t))
  BY <1>1, NestTail
<1>4. d = e /\ w = v
  BY <1>3 DEF Redo, One, Scoped
<1>5. r \in Seq(Symbol \ Scoped) /\ r \in Seq(Symbol) /\ \A k \in 1 .. Len(r) : r[k] \notin Openers
  BY DEF Plain
<1>6. Nest(r \o Tail(t), d, w)
  BY <1>2, <1>3, <1>4, <1>5, NestPlain
<1>7. /\ Opened(r \o Tail(t), z) /\ r \o Tail(t) \in Seq(Symbol)
      /\ Extra(r \o Tail(t)) \in {0, 1}
  BY <1>2, <1>5, ReplacedOpens
<1>8. w <= q + Extra(r \o Tail(t))
  BY <1>1, <1>2, <1>7
<1> QED
  BY <1>6, <1>7, <1>8 DEF Kept

(* A token is taken from the text.                                         *)
LEMMA KeptExpect ==
  ASSUME NEW t \in Seq(Symbol), t # <<>>, NEW d, NEW p, NEW q \in Nat, NEW z, Kept(t, d, p, q),
         Head(t) \notin Scoped
  PROVE  Kept(Tail(t), d, z, q + 1) /\ Tail(t) \in Seq(Symbol)
<1>1. PICK w \in Nat : Nest(t, d, w) /\ w <= q + Extra(t)
  BY DEF Kept
<1>2. /\ Tail(t) \in Seq(Symbol) /\ \A k \in 1 .. Len(Tail(t)) : Tail(t)[k] \notin Openers
      /\ Extra(t) \in {0, 1}
  BY TailOpens DEF Kept, Extra
<1>3. PICK e \in DepthsRecord, v \in Nat : /\ Nest(Tail(t), e, v)
                                           /\ d = Redo(e, Head(t)) /\ w = v + One(Head(t))
  BY <1>1, NestTail
<1>4. d = e /\ w = v
  BY <1>3 DEF Redo, One, Scoped
<1>5. Opened(Tail(t), z) /\ Extra(Tail(t)) \in {0, 1}
  BY <1>2 DEF Opened, Extra
<1>6. w <= q + 1 + Extra(Tail(t))
  BY <1>1, <1>2, <1>5
<1> QED
  BY <1>2, <1>3, <1>4, <1>5, <1>6 DEF Kept

(* A statement with a body begins: its keyword is ahead.                   *)
LEMMA KeptStart ==
  ASSUME NEW t \in Seq(Symbol), t # <<>>, NEW d, NEW p, NEW q \in Nat, Kept(t, d, p, q),
         Head(t) \notin Scoped, Head(t) \notin Openers,
         NEW x \in Openers, NEW m \in {"fn_body", "loop_body"}
  PROVE  Kept(<<x, "word", m>> \o Tail(t), d, x, q) /\ <<x, "word", m>> \o Tail(t) \in Seq(Symbol)
<1>1. PICK w \in Nat : Nest(t, d, w) /\ w <= q + Extra(t)
  BY DEF Kept
<1>2. /\ Tail(t) \in Seq(Symbol) /\ \A k \in 1 .. Len(Tail(t)) : Tail(t)[k] \notin Openers
      /\ Extra(t) = 0
  BY TailOpens DEF Kept
<1>3. PICK e \in DepthsRecord, v \in Nat : /\ Nest(Tail(t), e, v)
                                           /\ d = Redo(e, Head(t)) /\ w = v + One(Head(t))
  BY <1>1, NestTail
<1>4. d = e /\ w = v
  BY <1>3 DEF Redo, One, Scoped
<1>5. /\ m \in Symbol /\ m \in Scoped /\ x \in Symbol /\ x \notin Scoped
      /\ "word" \in Symbol /\ "word" \notin Scoped /\ m \notin Openers /\ "word" \notin Openers
  BY SymbolsAre DEF Scoped, Openers, Keyword, Plain
<1>6. Redo(d, m) = d /\ One(m) = 1
  BY <1>5 DEF Redo, One
<1>7. PICK r : r = <<m>> \o Tail(t)
  OBVIOUS
<1>8. Nest(r, d, w + 1) /\ r \in Seq(Symbol)
  <2>1. <<m>> \in Seq(Symbol)
    BY <1>5
  <2> QED
    BY <1>2, <1>3, <1>4, <1>5, <1>6, <1>7, <2>1, NestOne, ConcatProperties
<1>9. /\ <<x, "word">> \in Seq(Symbol \ Scoped) /\ <<x, "word">> \in Seq(Symbol)
      /\ <<m>> \in Seq(Symbol)
  BY <1>5
<1>10. <<x, "word">> \o r = <<x, "word", m>> \o Tail(t)
  <2>1. PICK f, l, u : f = <<x, "word">> /\ l = <<m>> /\ u = Tail(t)
    OBVIOUS
  <2>2. f \in Seq(Symbol) /\ l \in Seq(Symbol) /\ u \in Seq(Symbol)
    BY <1>2, <1>9, <2>1
  <2>3. (f \o l) \o u = f \o (l \o u)
    BY <2>2, ConcatAssociative
  <2>4. f \o l = <<x, "word", m>>
    <3>1. PICK y : y = <<x, "word", m>>
      OBVIOUS
    <3>2. y \in Seq(Symbol) /\ Len(y) = 3 /\ y[1] = x /\ y[2] = "word" /\ y[3] = m
      BY <1>5, <3>1
    <3>3. Len(f) = 2 /\ f[1] = x /\ f[2] = "word" /\ Len(l) = 1 /\ l[1] = m
      BY <2>1
    <3>4. f \o l \in Seq(Symbol) /\ Len(f \o l) = 3 /\ \A k \in 1 .. 3 : (f \o l)[k] = IF k <= 2 THEN f[k] ELSE l[k - 2]
      <4>1. /\ f \o l \in Seq(Symbol) /\ Len(f \o l) = Len(f) + Len(l)
            /\ \A k \in 1 .. Len(f) + Len(l) : (f \o l)[k] = IF k <= Len(f) THEN f[k] ELSE l[k - Len(f)]
        BY <2>2, ConcatProperties
      <4> QED
        BY <3>3, <4>1
    <3>5. \A k \in 1 .. 3 : k = 1 \/ k = 2 \/ k = 3
      OBVIOUS
    <3>6. \A k \in 1 .. 3 : (f \o l)[k] = y[k]
      BY <3>2, <3>3, <3>4, <3>5
    <3>7. f \o l = y
      BY <3>2, <3>4, <3>6, SeqEqual
    <3> QED
      BY <3>1, <3>7
  <2> QED
    BY <1>7, <2>1, <2>3, <2>4, Zenon
<1>11. Nest(<<x, "word">> \o r, d, w + 1)
  BY <1>8, <1>9, NestPlain
<1>12. PICK y : y = <<x, "word", m>>
  OBVIOUS
<1>13. /\ y \in Seq(Symbol) /\ Len(y) >= 1 /\ y[1] = x
       /\ \A k \in 1 .. Len(y) : y[k] \in Openers => k = 1 /\ x = y[k]
  <2>1. y \in Seq(Symbol) /\ Len(y) = 3 /\ y[1] = x /\ y[2] = "word" /\ y[3] = m
    BY <1>5, <1>12
  <2>2. \A k \in 1 .. 3 : k = 1 \/ k = 2 \/ k = 3
    OBVIOUS
  <2> QED
    BY <1>5, <2>1, <2>2
<1>14. Opened(y \o Tail(t), x) /\ y \o Tail(t) \in Seq(Symbol) /\ Extra(y \o Tail(t)) = 1
  <2>1. PICK u : u = Tail(t)
    OBVIOUS
  <2>2. u \in Seq(Symbol) /\ \A k \in 1 .. Len(u) : u[k] \notin Openers
    BY <1>2, <2>1
  <2>3. /\ Opened(y \o u, x) /\ y \o u \in Seq(Symbol)
        /\ Extra(y \o u) = IF Len(y) >= 1 /\ y[1] \in Openers THEN 1 ELSE 0
    BY <1>13, <2>2, ReplacedOpens
  <2> QED
    BY <1>13, <2>1, <2>3
<1>15. w + 1 <= q + 1 /\ w + 1 \in Nat
  BY <1>1, <1>2
<1> QED
  BY <1>10, <1>11, <1>12, <1>14, <1>15 DEF Kept

(* A body is entered.                                                      *)
LEMMA KeptBody ==
  ASSUME NEW t \in Seq(Symbol), t # <<>>, NEW d, NEW p, NEW q \in Nat, NEW z, Kept(t, d, p, q),
         Head(t) \in {"fn_body", "loop_body"}, NEW m \in {"leave_fn", "leave_loop"}
  PROVE  /\ Kept(Block \o <<m>> \o Tail(t), Redo(d, m), z, q)
         /\ Block \o <<m>> \o Tail(t) \in Seq(Symbol)
<1>1. PICK w \in Nat : Nest(t, d, w) /\ w <= q + Extra(t)
  BY DEF Kept
<1>2. Head(t) \in Scoped /\ Head(t) \notin Openers
  BY DEF Scoped, Openers
<1>3. /\ Tail(t) \in Seq(Symbol) /\ \A k \in 1 .. Len(Tail(t)) : Tail(t)[k] \notin Openers
      /\ Extra(t) = 0
  BY <1>2, TailOpens DEF Kept
<1>4. PICK e \in DepthsRecord, v \in Nat : /\ Nest(Tail(t), e, v)
                                           /\ d = Redo(e, Head(t)) /\ w = v + One(Head(t))
  BY <1>1, NestTail
<1>5. d = e /\ w = v + 1 /\ One(m) = 1
  BY <1>2, <1>4 DEF Redo, One, Scoped
<1>6. m \in Symbol /\ m \notin Openers
  BY SymbolsAre DEF Scoped, Openers
<1>7. PICK r : r = <<m>> \o Tail(t)
  OBVIOUS
<1>8. Nest(r, Redo(d, m), w) /\ r \in Seq(Symbol)
  <2>1. <<m>> \in Seq(Symbol)
    BY <1>6
  <2>2. Nest(r, Redo(e, m), v + One(m))
    BY <1>3, <1>4, <1>6, <1>7, NestOne
  <2> QED
    BY <1>3, <1>5, <1>7, <2>1, <2>2, ConcatProperties
<1>9. /\ Block \in Seq(Symbol \ Scoped) /\ Block \in Seq(Symbol) /\ <<m>> \in Seq(Symbol)
      /\ \A k \in 1 .. Len(Block) : Block[k] \notin Openers
  BY <1>6, PlainAre DEF Plain
<1>10. Block \o r = (Block \o <<m>>) \o Tail(t)
  BY <1>3, <1>7, <1>9, ConcatAssociative
<1>11. Nest(Block \o r, Redo(d, m), w)
  BY <1>8, <1>9, NestPlain
<1>12. \A k \in 1 .. Len(r) : r[k] \notin Openers
  <2>1. \A k \in 1 .. Len(<<m>>) : <<m>>[k] \notin Openers
    BY <1>6
  <2>2. Opened(r, "eof")
    BY <1>3, <1>7, <1>9, <2>1, ReplacedOpens
  <2>3. "eof" \notin Openers
    BY SymbolsAre
  <2> QED
    BY <2>2, <2>3 DEF Opened
<1>13. Opened(Block \o r, z) /\ Block \o r \in Seq(Symbol) /\ Extra(Block \o r) \in {0, 1}
  BY <1>8, <1>9, <1>12, ReplacedOpens
<1>14. w <= q + Extra(Block \o r)
  BY <1>1, <1>3, <1>13
<1> QED
  BY <1>10, <1>11, <1>13, <1>14 DEF Kept

(* A body is left.                                                         *)
LEMMA KeptLeave ==
  ASSUME NEW t \in Seq(Symbol), t # <<>>, NEW d, NEW p, NEW q \in Nat, NEW z, Kept(t, d, p, q),
         Head(t) \in {"leave_fn", "leave_loop"}
  PROVE  Kept(Tail(t), Undo(d, Head(t)), z, q) /\ Tail(t) \in Seq(Symbol)
<1>1. PICK w \in Nat : Nest(t, d, w) /\ w <= q + Extra(t)
  BY DEF Kept
<1>2. Head(t) \in Scoped /\ Head(t) \notin Openers
  BY DEF Scoped, Openers
<1>3. /\ Tail(t) \in Seq(Symbol) /\ \A k \in 1 .. Len(Tail(t)) : Tail(t)[k] \notin Openers
      /\ Extra(t) = 0
  BY <1>2, TailOpens DEF Kept
<1>4. PICK e \in DepthsRecord, v \in Nat : /\ Nest(Tail(t), e, v) /\ w = v + One(Head(t))
                                           /\ Undo(d, Head(t)) = e
  BY <1>1, NestTail
<1>5. w = v + 1
  BY <1>2, <1>4 DEF One
<1>6. Opened(Tail(t), z) /\ Extra(Tail(t)) \in {0, 1}
  BY <1>3 DEF Opened, Extra
<1>7. v <= q + Extra(Tail(t))
  BY <1>1, <1>3, <1>5, <1>6
<1> QED
  BY <1>3, <1>4, <1>6, <1>7 DEF Kept

(***************************************************************************)
(* The inductive invariant.                                                *)
(***************************************************************************)
\* The text and the place in it.
AtText ==
  /\ recovering \in BOOLEAN
  /\ read \in Seq(Token)
  /\ peek \in Token \cup {"eof"}
  /\ pos \in 0 .. MaxTokens
  /\ peek # "eof" => pos < MaxTokens

ParserInv ==
  /\ TypeOK
  /\ AtText
  /\ Kept(todo, Depths, peek, pos)
  /\ phase \in {"imports", "body"} \/ todo = <<>>

(* The steps in the text.                                                  *)
LEMMA Moves ==
  ASSUME AtText
  PROVE  /\ Stay => AtText' /\ pos' = pos /\ peek' = peek
         /\ Advance => /\ AtText'
                       /\ peek # "eof" => pos' = pos + 1
                       /\ peek = "eof" => pos' = pos /\ peek' = peek
<1>1. ASSUME Stay PROVE AtText' /\ pos' = pos /\ peek' = peek
  BY <1>1 DEF Stay, AtText
<1>2. ASSUME Advance, peek = "eof" PROVE AtText' /\ pos' = pos /\ peek' = peek
  BY <1>1, <1>2 DEF Advance
<1>3. ASSUME Advance, peek # "eof" PROVE AtText' /\ pos' = pos + 1
  <2>1. /\ pos' = pos + 1 /\ peek' \in Upcoming(pos + 1) /\ recovering' = recovering
        /\ read' = IF recovering THEN read ELSE Append(read, peek)
    BY <1>3 DEF Advance
  <2>2. MaxTokens \in Nat /\ pos \in 0 .. MaxTokens - 1 /\ peek \in Token
    BY <1>3, ParserAssumption DEF AtText, ParserAssumption
  <2>3. peek' \in Token \cup {"eof"} /\ (peek' # "eof" => pos + 1 < MaxTokens)
    BY <2>1 DEF Upcoming
  <2>4. read' \in Seq(Token)
    BY <2>1, <2>2 DEF AtText
  <2> QED
    BY <2>1, <2>2, <2>3, <2>4 DEF AtText
<1> QED
  BY <1>1, <1>2, <1>3

(* What makes the invariant, when it holds of todo and the depths.         *)
LEMMA Assembled ==
  ASSUME AtText', todo' \in Seq(Symbol), Kept(todo', Depths', peek', pos'),
         saved' \in Seq(0 .. MaxTokens), pos_before' \in 0 .. MaxTokens + 1,
         phase' \in {"imports", "sync_imports", "body", "caught", "sync_body", "done"},
         errors' \in BOOLEAN, phase' \in {"imports", "body"} \/ todo' = <<>>
  PROVE  ParserInv'
<1>1. pos' \in 0 .. MaxTokens /\ (peek' # "eof" => pos' < MaxTokens)
  BY DEF AtText
<1>2. Depths'.fn \in 0 .. MaxTokens /\ Depths'.loop \in 0 .. MaxTokens
  BY <1>1, KeptBounds
<1>3. fn_depth' \in 0 .. MaxTokens /\ loop_depth' \in 0 .. MaxTokens
  BY <1>2 DEF Depths
<1>4. TypeOK'
  BY <1>3 DEF TypeOK, AtText
<1> QED
  BY <1>4 DEF ParserInv

(* What the invariant says.                                                *)
LEMMA Known ==
  ASSUME ParserInv
  PROVE  /\ AtText /\ todo \in Seq(Symbol) /\ Kept(todo, Depths, peek, pos)
         /\ saved \in Seq(0 .. MaxTokens) /\ pos_before \in 0 .. MaxTokens + 1
         /\ phase \in {"imports", "sync_imports", "body", "caught", "sync_body", "done"}
         /\ errors \in BOOLEAN /\ (phase \in {"imports", "body"} \/ todo = <<>>)
         /\ fn_depth \in 0 .. MaxTokens /\ loop_depth \in 0 .. MaxTokens
         /\ pos \in Nat /\ pos + 1 \in 0 .. MaxTokens + 1 /\ MaxTokens \in Nat
<1>1. MaxTokens \in Nat
  BY ParserAssumption DEF ParserAssumption
<1> QED
  BY <1>1 DEF ParserInv, TypeOK, AtText

(* An error, wherever it is.                                               *)
LEMMA FailKeeps ==
  ASSUME ParserInv, Fail
  PROVE  ParserInv'
<1>1. /\ errors' = TRUE /\ SetDepths(Unwound) /\ todo' = <<>> /\ Stay /\ pos_before' = pos_before
      /\ phase' \in {"sync_imports", "caught", "done"}
  BY DEF Fail
<1>2. Unwound = Outermost
  <2>1. \E w : Nest(todo, Depths, w)
    BY Known DEF Kept
  <2> QED
    BY <2>1, Known, UnwindsAll
<1>3. fn_depth' = 0 /\ loop_depth' = 0 /\ saved' = <<>>
  BY <1>1, <1>2 DEF SetDepths, Outermost
<1>4. Depths' = Outermost
  BY <1>3 DEF Depths, Outermost
<1>5. AtText' /\ pos' = pos /\ pos' \in Nat
  BY <1>1, Known, Moves
<1>6. Kept(todo', Depths', peek', pos')
  BY <1>1, <1>4, <1>5, KeptAtTop
<1>7. todo' \in Seq(Symbol) /\ saved' \in Seq(0 .. MaxTokens)
  BY <1>1, <1>3
<1> QED
  BY <1>1, <1>5, <1>6, <1>7, Known, Assembled

(* The depths stay as they are.                                            *)
LEMMA SameDepths ==
  ASSUME UNCHANGED depths
  PROVE  Depths' = Depths /\ saved' = saved
BY DEF depths, Depths

(* Between statements there is nothing to parse, and no depth.             *)
LEMMA AtTopKeeps ==
  ASSUME ParserInv, todo = <<>>, Stay \/ Advance, todo' \in Seq(Plain),
         UNCHANGED depths, pos_before' \in {pos_before, pos + 1}, errors' \in BOOLEAN,
         phase' \in {"imports", "body"}
           \/ (phase' \in {"sync_imports", "sync_body", "done"} /\ todo' = <<>>)
  PROVE  ParserInv'
<1>1. Depths = Outermost
  BY Known, KeptAtTop
<1>2. Depths' = Outermost /\ saved' = saved
  BY <1>1, SameDepths
<1>3. AtText' /\ pos' \in Nat
  <2>1. AtText'
    BY Known, Moves
  <2> QED
    BY <2>1 DEF AtText
<1>4. Kept(todo', Depths', peek', pos')
  BY <1>2, <1>3, KeptAtTop
<1>5. todo' \in Seq(Symbol)
  BY DEF Plain
<1>6. pos_before' \in 0 .. MaxTokens + 1 /\ saved' \in Seq(0 .. MaxTokens)
  BY <1>2, Known
<1> QED
  BY <1>3, <1>4, <1>5, <1>6, Assembled

(* The steps at the top level.                                             *)
LEMMA TopKeeps ==
  ASSUME ParserInv, Import \/ EndOfImports \/ StrayImport \/ NextStatement \/ EndOfText
  PROVE  ParserInv'
<1>1. <<>> \in Seq(Plain) /\ <<"stmt">> \in Seq(Plain) /\ <<"import", "word", "semi">> \in Seq(Plain)
  BY SymbolsAre DEF Keyword, Openers
<1>2. todo = <<>> /\ (Stay \/ Advance) /\ UNCHANGED depths
  BY DEF Import, EndOfImports, StrayImport, NextStatement, EndOfText, AtTop
<1>3. todo' \in Seq(Plain) /\ pos_before' \in {pos_before, pos + 1}
  BY <1>1, <1>2 DEF Import, EndOfImports, StrayImport, NextStatement, EndOfText
<1>4. errors' \in BOOLEAN
  BY Known DEF Import, EndOfImports, StrayImport, NextStatement, EndOfText
<1>5. phase' \in {"imports", "body"} \/ (phase' = "done" /\ todo' = <<>>)
  BY <1>2 DEF Import, EndOfImports, StrayImport, NextStatement, EndOfText, AtTop
<1> QED
  BY <1>2, <1>3, <1>4, <1>5, AtTopKeeps

(* The handler of errors, and what it does until it resumes.               *)
LEMMA RecoveryKeeps ==
  ASSUME ParserInv, Caught \/ Synchronize
  PROVE  ParserInv'
<1>1. phase \in {"caught", "sync_imports", "sync_body"} /\ todo = <<>> /\ todo' = todo
  BY Known DEF Caught, Synchronize
<1>2. <<>> \in Seq(Plain)
  OBVIOUS
<1>3. UNCHANGED depths
  <2>1. CASE Synchronize
    BY <2>1 DEF Synchronize
  <2>2. CASE Caught
    <3>1. Depths = Outermost
      BY <1>1, Known, KeptAtTop
    <3>2. fn_depth = 0 /\ loop_depth = 0
      BY <3>1 DEF Depths, Outermost
    <3> QED
      BY <2>2, <3>2 DEF Caught, depths
  <2> QED
    BY <2>1, <2>2
<1>4. Stay \/ Advance
  BY DEF Caught, Synchronize
<1>5. /\ pos_before' = pos_before /\ errors' = errors
      /\ phase' \in {"imports", "body", "sync_imports", "sync_body"}
  BY DEF Caught, Synchronize, Resume
<1> QED
  BY <1>1, <1>2, <1>3, <1>4, <1>5, Known, AtTopKeeps

(* A statement begins.                                                     *)
LEMMA StatementKeeps ==
  ASSUME ParserInv, Statement, ~Fail
  PROVE  ParserInv'
<1>1. /\ todo # <<>> /\ Head(todo) = "stmt" /\ peek \in Keyword
      /\ todo' = Production[peek] \o Tail(todo)
      /\ Stay /\ UNCHANGED <<pos_before, phase, errors>> /\ UNCHANGED depths
  BY SymbolsAre DEF Statement, Parsing, Allowed, Replace, Quiet
<1>2. AtText' /\ pos' = pos /\ peek' = peek
  BY <1>1, Known, Moves
<1>3. Depths' = Depths /\ saved' = saved
  BY <1>1, SameDepths
<1>4. Head(todo) \notin Scoped /\ Head(todo) \notin Openers
  BY <1>1 DEF Scoped, Openers
<1>5. Kept(todo', Depths', peek', pos') /\ todo' \in Seq(Symbol)
  <2>1. CASE peek \notin Openers
    <3>1. Production[peek] \in Seq(Plain)
      BY <1>1, <2>1, ProductionIs
    <3> QED
      BY <1>1, <1>2, <1>3, <1>4, <3>1, Known, KeptReplace
  <2>2. CASE peek \in Openers
    <3>1. PICK m \in {"fn_body", "loop_body"} : Production[peek] = <<peek, "word", m>>
      BY <1>1, <2>2, ProductionIs
    <3> QED
      BY <1>1, <1>2, <1>3, <1>4, <2>2, <3>1, Known, KeptStart
  <2> QED
    BY <2>1, <2>2
<1>6. phase' \in {"imports", "body"}
  BY <1>1, Known
<1> QED
  BY <1>1, <1>2, <1>3, <1>5, <1>6, Known, Assembled

(* A token is taken.                                                       *)
LEMMA ExpectKeeps ==
  ASSUME ParserInv, Expect, ~Fail
  PROVE  ParserInv'
<1>1. /\ todo # <<>> /\ Head(todo) \in Token /\ peek = Head(todo)
      /\ todo' = <<>> \o Tail(todo)
      /\ Advance /\ UNCHANGED <<pos_before, phase, errors>> /\ UNCHANGED depths
  BY DEF Expect, Parsing, Replace
<1>2. AtText' /\ pos' = pos + 1
  BY <1>1, SymbolsAre, Known, Moves
<1>3. Depths' = Depths /\ saved' = saved
  BY <1>1, SameDepths
<1>4. Head(todo) \notin Scoped
  BY <1>1, SymbolsAre
<1>5. todo' = Tail(todo)
  BY <1>1, Known, HeadTailProperties, ConcatEmptySeq
<1>6. Kept(todo', Depths', peek', pos') /\ todo' \in Seq(Symbol)
  BY <1>1, <1>2, <1>3, <1>4, <1>5, Known, KeptExpect
<1>7. phase' \in {"imports", "body"}
  BY <1>1, Known
<1> QED
  BY <1>1, <1>2, <1>3, <1>6, <1>7, Known, Assembled

(* An optional part.                                                       *)
LEMMA ExpandKeeps ==
  ASSUME ParserInv, Expand
  PROVE  ParserInv'
<1>1. /\ todo # <<>> /\ Head(todo) \in Optional
      /\ todo' = Expansion(Head(todo)) \o Tail(todo)
      /\ Stay /\ UNCHANGED <<pos_before, phase, errors>> /\ UNCHANGED depths
  BY DEF Expand, Parsing, Replace, Quiet
<1>2. AtText' /\ pos' = pos /\ peek' = peek
  BY <1>1, Known, Moves
<1>3. Depths' = Depths /\ saved' = saved
  BY <1>1, SameDepths
<1>4. Head(todo) \notin Scoped /\ Head(todo) \notin Openers
  BY <1>1, SymbolsAre DEF Plain
<1>5. Kept(todo', Depths', peek', pos') /\ todo' \in Seq(Symbol)
  <2>1. Expansion(Head(todo)) \in Seq(Plain)
    BY ExpansionIs
  <2> QED
    BY <1>1, <1>2, <1>3, <1>4, <2>1, Known, KeptReplace
<1>6. phase' \in {"imports", "body"}
  BY <1>1, Known
<1> QED
  BY <1>1, <1>2, <1>3, <1>5, <1>6, Known, Assembled

(* A body is entered.                                                      *)
LEMMA BodyKeeps ==
  ASSUME ParserInv, FnBody \/ LoopBody
  PROVE  ParserInv'
<1>1. PICK m \in {"leave_fn", "leave_loop"} :
        /\ todo # <<>> /\ Head(todo) \in {"fn_body", "loop_body"}
        /\ todo' = Block \o <<m>> \o Tail(todo)
        /\ Stay /\ UNCHANGED <<pos_before, phase, errors>>
        /\ \/ /\ m = "leave_fn"
              /\ fn_depth' = fn_depth + 1 /\ loop_depth' = 0 /\ saved' = <<loop_depth>> \o saved
           \/ /\ m = "leave_loop"
              /\ fn_depth' = fn_depth /\ loop_depth' = loop_depth + 1 /\ saved' = saved
  BY DEF FnBody, LoopBody, Parsing, Replace, Quiet, SetDepths
<1>2. AtText' /\ pos' = pos /\ peek' = peek
  BY <1>1, Known, Moves
<1>3. Depths' = Redo(Depths, m)
  BY <1>1 DEF Depths, Redo
<1>4. Kept(todo', Depths', peek', pos') /\ todo' \in Seq(Symbol)
  BY <1>1, <1>2, <1>3, Known, KeptBody
<1>5. saved' \in Seq(0 .. MaxTokens)
  <2>1. <<loop_depth>> \in Seq(0 .. MaxTokens)
    BY Known
  <2>2. <<loop_depth>> \o saved \in Seq(0 .. MaxTokens)
    BY <2>1, Known, ConcatProperties
  <2> QED
    BY <1>1, <2>2, Known
<1>6. phase' \in {"imports", "body"}
  BY <1>1, Known
<1> QED
  BY <1>1, <1>2, <1>4, <1>5, <1>6, Known, Assembled

(* A body is left.                                                         *)
LEMMA LeaveKeeps ==
  ASSUME ParserInv, LeaveBody
  PROVE  ParserInv'
<1>1. /\ todo # <<>> /\ Head(todo) \in {"leave_fn", "leave_loop"}
      /\ todo' = <<>> \o Tail(todo)
      /\ Stay /\ UNCHANGED <<pos_before, phase, errors>>
      /\ SetDepths(Undo(Depths, Head(todo)))
  BY DEF LeaveBody, Parsing, Replace, Quiet
<1>2. AtText' /\ pos' = pos /\ peek' = peek
  BY <1>1, Known, Moves
<1>3. todo' = Tail(todo)
  BY <1>1, Known, HeadTailProperties, ConcatEmptySeq
<1>4. PICK e \in DepthsRecord : e = Undo(Depths, Head(todo)) /\ Depths = Redo(e, Head(todo))
  <2>1. PICK w : Nest(todo, Depths, w)
    BY Known DEF Kept
  <2> QED
    BY <1>1, <2>1, Known, NestTail
<1>5. fn_depth' = e.fn /\ loop_depth' = e.loop /\ saved' = e.saved
  BY <1>1, <1>4 DEF SetDepths
<1>6. Depths' = e
  BY <1>5 DEF Depths, DepthsRecord
<1>7. Kept(todo', Depths', peek', pos') /\ todo' \in Seq(Symbol)
  BY <1>1, <1>2, <1>3, <1>4, <1>6, Known, KeptLeave
<1>8. saved' \in Seq(0 .. MaxTokens)
  <2>1. CASE Head(todo) = "leave_loop"
    BY <1>5, <1>4, <2>1, Known DEF Undo, Depths
  <2>2. CASE Head(todo) = "leave_fn"
    <3>1. saved' = Tail(saved)
      BY <1>4, <1>5, <2>2 DEF Undo, Depths
    <3>2. saved # <<>>
      <4>1. Depths.saved = <<e.loop>> \o e.saved /\ Depths.saved = saved
        BY <1>4, <2>2 DEF Redo, Depths
      <4>2. <<e.loop>> \in Seq(Nat) /\ Len(<<e.loop>>) = 1 /\ e.saved \in Seq(Nat)
        BY DEF DepthsRecord
      <4>3. Len(<<e.loop>> \o e.saved) = 1 + Len(e.saved) /\ Len(e.saved) \in Nat
        BY <4>2, ConcatProperties
      <4> QED
        BY <4>1, <4>3
    <3> QED
      BY <3>1, <3>2, Known, HeadTailProperties
  <2> QED
    BY <1>1, <2>1, <2>2
<1>9. phase' \in {"imports", "body"}
  BY <1>1, Known
<1> QED
  BY <1>1, <1>2, <1>7, <1>8, <1>9, Known, Assembled

(* The invariant holds.                                                    *)
LEMMA ParserInvariance == Spec => []ParserInv
<1>1. Init => ParserInv
  <2> SUFFICES ASSUME Init PROVE ParserInv
    OBVIOUS
  <2>1. MaxTokens \in Nat
    BY ParserAssumption DEF ParserAssumption
  <2>2. AtText
    BY <2>1 DEF Init, AtText, Upcoming
  <2>3. todo = <<>> /\ Depths = Outermost
    BY DEF Init, Depths, Outermost
  <2>4. Kept(todo, Depths, peek, pos)
    BY <2>2, <2>3, KeptAtTop DEF AtText
  <2>5. /\ todo \in Seq(Symbol) /\ saved \in Seq(0 .. MaxTokens)
        /\ fn_depth \in 0 .. MaxTokens /\ loop_depth \in 0 .. MaxTokens
        /\ pos_before \in 0 .. MaxTokens + 1 /\ errors \in BOOLEAN /\ phase = "imports"
    <3>1. /\ todo = <<>> /\ saved = <<>> /\ fn_depth = 0 /\ loop_depth = 0 /\ pos_before = 0
          /\ errors = FALSE /\ phase = "imports"
      BY DEF Init
    <3>2. \A S : <<>> \in Seq(S)
      OBVIOUS
    <3>3. 0 \in 0 .. MaxTokens /\ 0 \in 0 .. MaxTokens + 1
      BY <2>1
    <3> QED
      BY <3>1, <3>2, <3>3
  <2>6. TypeOK
    BY <2>2, <2>5 DEF TypeOK, AtText
  <2> QED
    BY <2>2, <2>4, <2>5, <2>6 DEF ParserInv
<1>2. ParserInv /\ [Next]_vars => ParserInv'
  <2> SUFFICES ASSUME ParserInv, [Next]_vars PROVE ParserInv'
    OBVIOUS
  <2>1. CASE UNCHANGED vars
    <3>1. /\ recovering' = recovering /\ read' = read /\ peek' = peek /\ pos' = pos
          /\ todo' = todo /\ pos_before' = pos_before /\ phase' = phase /\ errors' = errors
          /\ UNCHANGED depths
      BY <2>1 DEF vars
    <3>2. Depths' = Depths /\ saved' = saved
      BY <3>1, SameDepths
    <3>3. AtText'
      BY <3>1, Known DEF AtText
    <3> QED
      BY <3>1, <3>2, <3>3, Known, Assembled
  <2>2. CASE Fail
    BY <2>2, FailKeeps
  <2> QED
    BY <2>1, <2>2, TopKeeps, RecoveryKeeps, StatementKeeps, ExpectKeeps, ExpandKeeps, BodyKeeps,
       LeaveKeeps DEF Next
<1> QED
  BY <1>1, <1>2, PTL DEF Spec

\* Whatever the text and wherever it has errors: fn_depth is the number of
\* functions around the statement being parsed and loop_depth that of the
\* loops around it in the innermost one, so return_stmt, break_stmt and
\* continue_stmt of parser.rs refuse exactly what stands outside; and a
\* statement's error has unwound both before the handler resets them.
THEOREM DepthsMatch == Spec => []DepthsMatchNesting
<1>1. ASSUME ParserInv PROVE DepthsMatchNesting
  <2>1. PICK w : Nest(todo, Depths, w)
    BY <1>1, Known DEF Kept
  <2>2. /\ fn_depth = Cardinality(FunctionsOpen) /\ loop_depth = Cardinality(LoopsOpen)
        /\ Len(saved) = fn_depth
    BY <1>1, <2>1, Known, CountsAre
  <2>3. ErrorUnwinds
    <3> SUFFICES ASSUME phase = "caught" PROVE fn_depth = 0 /\ loop_depth = 0
      BY DEF ErrorUnwinds
    <3>1. Depths = Outermost
      BY <1>1, <2>1, Known, NestEmpty
    <3> QED
      BY <3>1 DEF Depths, Outermost
  <2> QED
    BY <1>1, <2>2, <2>3 DEF DepthsMatchNesting, ParserInv
<1> QED
  BY <1>1, ParserInvariance, PTL

(***************************************************************************)
(* Recovery moves on.                                                      *)
(***************************************************************************)
\* Between the start of a statement and its first token nothing but that
\* token is wanted; and it is there.
MoveInv ==
  /\ phase \in {"imports", "sync_imports"} => pos_before = 0
  /\ pos_before <= pos + 1
  /\ pos_before = pos + 1 => peek # "eof"
  /\ phase = "body" /\ pos_before = pos + 1 => todo # <<>> /\ Head(todo) \in {"stmt", peek}

(* A token read is enough.                                                 *)
LEMMA MovedOn ==
  ASSUME AtText, pos_before \in Nat, pos_before <= pos + 1, pos' = pos + 1,
         pos_before' = pos_before,
         phase' \in {"imports", "sync_imports"} => pos_before = 0
  PROVE  MoveInv'
<1>1. pos \in Nat
  BY DEF AtText
<1> QED
  BY <1>1 DEF MoveInv

(* Every step moves on, or is one of those before the first token.         *)
LEMMA MoveStep ==
  ASSUME ParserInv, MoveInv, Next
  PROVE  MoveInv'
<1>1. AtText /\ pos \in Nat /\ pos_before \in Nat /\ MaxTokens \in Nat
  BY Known
<1>2. CASE Fail
  <2>1. /\ pos' = pos /\ peek' = peek /\ pos_before' = pos_before
        /\ phase' # "body" /\ phase' # "imports"
        /\ phase' = "sync_imports" => phase = "imports"
    BY <1>1, <1>2, Moves DEF Fail
  <2> QED
    BY <2>1 DEF MoveInv
<1>3. CASE (Import \/ EndOfImports \/ EndOfText)
  <2>1. /\ pos' = pos /\ peek' = peek /\ pos_before' = pos_before
        /\ phase' = "imports" => phase = "imports"
        /\ phase' # "sync_imports"
        /\ phase' = "body" => phase = "imports"
    BY <1>1, <1>3, Moves DEF Import, EndOfImports, EndOfText, AtTop
  <2> QED
    BY <1>1, <2>1 DEF MoveInv
<1>4. CASE StrayImport
  <2>1. /\ phase = "body" /\ todo = <<>> /\ todo' = todo /\ pos_before' = pos_before
        /\ phase' \in {"body", "done"}
    BY <1>4 DEF StrayImport, AtTop
  <2>2. pos_before <= pos
    BY <1>1, <2>1 DEF MoveInv
  <2>3. pos' = pos \/ pos' = pos + 1
    BY <1>1, <1>4, Moves DEF StrayImport
  <2> QED
    BY <1>1, <2>1, <2>2, <2>3 DEF MoveInv
<1>5. CASE NextStatement
  <2>1. /\ todo' = <<"stmt">> /\ pos_before' = pos + 1 /\ peek # "eof"
        /\ pos' = pos /\ peek' = peek /\ phase' = "body"
    BY <1>1, <1>5, Moves DEF NextStatement, AtTop
  <2>2. <<"stmt">> # <<>> /\ Head(<<"stmt">>) = "stmt"
    OBVIOUS
  <2> QED
    BY <1>1, <2>1, <2>2 DEF MoveInv
<1>6. CASE Statement /\ ~Fail
  <2>1. /\ todo # <<>> /\ peek \in Keyword /\ todo' = Production[peek] \o Tail(todo)
        /\ Stay /\ UNCHANGED <<pos_before, phase>>
    BY <1>6, SymbolsAre DEF Statement, Parsing, Allowed, Replace, Quiet
  <2>2. pos' = pos /\ peek' = peek
    BY <1>1, <2>1, Moves
  <2>3. todo' # <<>> /\ Head(todo') = peek
    <3>1. Tail(todo) \in Seq(Symbol)
      BY <2>1, Known, HeadTailProperties
    <3>2. Production[peek] \in Seq(Symbol) /\ Len(Production[peek]) >= 1 /\ Production[peek][1] = peek
      BY <2>1, ProductionIs
    <3>3. /\ todo' \in Seq(Symbol) /\ Len(todo') = Len(Production[peek]) + Len(Tail(todo))
          /\ todo'[1] = peek
      BY <2>1, <3>1, <3>2, FrontIs
    <3>4. PICK u : u = todo'
      OBVIOUS
    <3>5. u \in Seq(Symbol) /\ Len(u) # 0 /\ u[1] = peek
      BY <3>1, <3>2, <3>3, <3>4
    <3> QED
      BY <3>4, <3>5
  <2> QED
    BY <2>1, <2>2, <2>3 DEF MoveInv
<1>7. CASE Expect /\ ~Fail
  <2>1. pos' = pos + 1
    BY <1>1, <1>7, SymbolsAre, Moves DEF Expect, Parsing
  <2>2. pos_before' = pos_before /\ phase' = phase
    BY <1>7 DEF Expect
  <2> QED
    BY <1>1, <2>1, <2>2, MovedOn DEF MoveInv
<1>8. CASE Expand \/ FnBody \/ LoopBody \/ LeaveBody
  <2>1. /\ todo # <<>> /\ Head(todo) \in Optional \cup Scoped
        /\ Stay /\ UNCHANGED <<pos_before, phase>>
    BY <1>8 DEF Expand, FnBody, LoopBody, LeaveBody, Parsing, Quiet, Scoped
  <2>2. pos' = pos /\ peek' = peek
    BY <1>1, <2>1, Moves
  <2>3. Head(todo) # "stmt" /\ Head(todo) # peek
    <3>1. peek \in Token \cup {"eof"}
      BY <1>1 DEF AtText
    <3> QED
      BY <2>1, <3>1, SymbolsAre DEF Optional, Scoped, Keyword
  <2> QED
    BY <2>1, <2>2, <2>3 DEF MoveInv
<1>9. CASE Caught
  <2>1. pos' = pos /\ peek' = peek /\ pos_before' = pos_before /\ phase' = "sync_body"
    BY <1>1, <1>9, Moves DEF Caught
  <2> QED
    BY <2>1 DEF MoveInv
<1>10. CASE Synchronize
  <2>1. /\ phase \in {"sync_imports", "sync_body"} /\ pos_before' = pos_before
        /\ phase' \in {phase, Resume(phase)}
        /\ phase' \in {"imports", "sync_imports"} => phase = "sync_imports"
    BY <1>10 DEF Synchronize, Resume
  <2>2. CASE pos' = pos + 1
    BY <1>1, <2>1, <2>2, MovedOn DEF MoveInv
  <2>3. CASE pos' # pos + 1
    <3>1. /\ Stay /\ phase' = Resume(phase) /\ peek \in Boundary \cup {"eof"}
          /\ ~(phase = "sync_body" /\ Stuck)
      <4>1. ~(Advance /\ peek # "eof")
        BY <1>1, <2>3, Moves
      <4>2. Stuck => peek # "eof"
        BY <1>1 DEF Stuck, MoveInv
      <4> QED
        BY <1>10, <4>1, <4>2 DEF Synchronize
    <3>2. pos' = pos /\ peek' = peek
      BY <1>1, <3>1, Moves
    <3>3. phase' = "body" => pos_before # pos + 1
      BY <2>1, <3>1 DEF Stuck, Resume
    <3> QED
      BY <2>1, <3>2, <3>3 DEF MoveInv
  <2> QED
    BY <2>2, <2>3
<1> QED
  BY <1>2, <1>3, <1>4, <1>5, <1>6, <1>7, <1>8, <1>9, <1>10 DEF Next

\* parse_recovering tries each statement further on than the one before, on
\* every text and whatever fails: the forced step at the end of its loop is
\* taken exactly when neither the statement nor synchronize read a token.
THEOREM RecoveryMovesOn == Spec => []Progress
<1>1. Init => MoveInv
  BY DEF Init, MoveInv
<1>2. ParserInv /\ MoveInv /\ [Next]_vars => MoveInv'
  <2> SUFFICES ASSUME ParserInv, MoveInv, [Next]_vars PROVE MoveInv'
    OBVIOUS
  <2>1. CASE UNCHANGED vars
    BY <2>1 DEF vars, MoveInv
  <2> QED
    BY <2>1, MoveStep
<1>3. ParserInv /\ MoveInv => Progress
  <2> SUFFICES ASSUME ParserInv, MoveInv, AtTop("body") PROVE pos >= pos_before
    BY DEF Progress
  <2>1. pos \in Nat /\ pos_before \in Nat
    BY Known
  <2> QED
    BY <2>1 DEF MoveInv, AtTop
<1> QED
  BY <1>1, <1>2, <1>3, ParserInvariance, PTL DEF Spec
=============================================================================
