----------------------------- MODULE VerbNumbers -----------------------------
(***************************************************************************)
(* Arithmetic and comparison of src/codegen.rs on tagged values: ints of   *)
(* Width bits, floats with a significand of Precision bits, and values of  *)
(* any other type.  Two ints stay ints; an int beside a float is promoted  *)
(* (to_f64), which rounds it.                                              *)
(*                                                                         *)
(* Floats are abstracted to the numbers an int can be promoted to, two     *)
(* infinities beyond all of them, and NaN (a number of its own here, that  *)
(* is never compared as one); the result of float arithmetic is any float. *)
(***************************************************************************)
EXTENDS Integers, FiniteSets

CONSTANTS
  Width,       \* 64 in the code
  Precision,   \* 53 in the code
  Other        \* values that are not numbers

NumbersAssumption ==
  /\ Width \in Nat \ {0, 1}
  /\ Precision \in Nat \ {0}
  /\ Precision < Width - 1

ASSUME NumbersAssumption

VARIABLES
  a, b,    \* the operands
  op,      \* the helper called, "none" before
  res      \* what it returned, or the abort

numVars == <<a, b, op, res>>

MinInt == -(2 ^ (Width - 1))
MaxInt == 2 ^ (Width - 1) - 1
IntSet == MinInt .. MaxInt

\* The bits of x as an int.
Wrap(x) == ((x - MinInt) % 2 ^ Width) + MinInt

Abs(x) == IF x < 0 THEN -x ELSE x
Sign(x) == IF x < 0 THEN -1 ELSE 1

\* The bits of m beyond the first Precision.
Exponent(m) ==
  CHOOSE k \in 0 .. Width :
    /\ m < 2 ^ (Precision + k)
    /\ \A j \in 0 .. k - 1 : m >= 2 ^ (Precision + j)

\* The multiple of u nearest to m, of two the even one.
Nearest(m, u) ==
  LET q == m \div u
      r == m % u
      up == 2 * r > u \/ (2 * r = u /\ q % 2 = 1)
  IN  u * (IF up THEN q + 1 ELSE q)

\* sitofp: the nearest number with Precision bits, ties to even.
RoundToF64(x) == Sign(x) * Nearest(Abs(x), 2 ^ Exponent(Abs(x)))

Infinity == 2 ^ (Width + 1)
FloatSet == {RoundToF64(x) : x \in IntSet} \cup {Infinity, -Infinity}

IntV(x)  == [tag |-> "int", p |-> x]
Float(x) == [tag |-> "float", p |-> x]
NaN      == Float(2 * Infinity)

Values ==
  [tag : {"int"}, p : IntSet] \cup [tag : {"float"}, p : FloatSet]
    \cup {NaN} \cup [tag : {"other"}, p : Other]

Numeric(v) == v.tag \in {"int", "float"}
BothInt(x, y) == x.tag = "int" /\ y.tag = "int"

ToF64(v) == IF v.tag = "int" THEN Float(RoundToF64(v.p)) ELSE v

Bool(x) == [tag |-> "bool", p |-> IF x THEN 1 ELSE 0]
Abort   == [tag |-> "abort", p |-> 0]

(***************************************************************************)
(* verb_add, verb_sub, verb_mul, verb_div, verb_mod, verb_neg: the values  *)
(* a helper may return.                                                    *)
(***************************************************************************)
\* sdiv and srem round the quotient towards zero.
Quotient(x, y)  == Sign(x) * Sign(y) * (Abs(x) \div Abs(y))
Remainder(x, y) == x - y * Quotient(x, y)

\* Mutated: the remainder has the sign of the divisor.
FlooredRemainder(x, y) == Sign(y) * ((Sign(y) * x) % Abs(y))

Checked(x) == IF x \in IntSet THEN {IntV(x)} ELSE {Abort}

\* MinInt by -1 has no defined outcome: the build may trap or return
\* anything.
Undefined == {Abort} \cup [tag : {"int"}, p : IntSet]

Srem(x, y) == Remainder(x, y)

IntOp(o, x, y) ==
  CASE o = "add" -> Checked(x + y)
    [] o = "sub" -> Checked(x - y)
    [] o = "times" -> Checked(x * y)
    [] o = "div" -> IF y = 0 THEN {Abort}
                    ELSE IF x = MinInt /\ y = -1 THEN Undefined
                    ELSE {IntV(Quotient(x, y))}
    [] o = "mod" -> IF y = 0 THEN {Abort}
                    ELSE IF x = MinInt /\ y = -1 THEN Undefined
                    ELSE {IntV(Srem(x, y))}

AnyFloat == [tag : {"float"}, p : FloatSet] \cup {NaN}

\* ONE, ordered and not equal, is false of NaN as of zero.
FloatOp(o, x, y) ==
  IF o \in {"div", "mod"} /\ (y = NaN \/ y = Float(0))
  THEN {Abort} ELSE AnyFloat

Arith == {"add", "sub", "times", "div", "mod"}

ArithFn(o, x, y) ==
  IF BothInt(x, y) THEN IntOp(o, x.p, y.p)
  ELSE IF Numeric(x) /\ Numeric(y) THEN FloatOp(o, ToF64(x), ToF64(y))
  ELSE {Abort}

\* The int is negated without a check: MinInt is its own negation.
NegFn(x) ==
  CASE x.tag = "int" -> {IntV(Wrap(-x.p))}
    [] x = NaN -> {NaN}
    [] x.tag = "float" /\ x # NaN -> {Float(-x.p)}
    [] x.tag = "other" -> {Abort}

(***************************************************************************)
(* verb_lt, verb_gt, verb_le, verb_ge, verb_eq.                            *)
(***************************************************************************)
Order == {"trails", "beats", "atmost", "atleast"}

Holds(o, x, y) ==
  CASE o = "trails" -> x < y
    [] o = "beats" -> x > y
    [] o = "atmost" -> x <= y
    [] o = "atleast" -> x >= y

\* An ordered comparison: false when either is NaN.
FloatHolds(o, x, y) == x # NaN /\ y # NaN /\ Holds(o, x.p, y.p)

CmpFn(o, x, y) ==
  IF BothInt(x, y) THEN Bool(Holds(o, x.p, y.p))
  ELSE IF Numeric(x) /\ Numeric(y) THEN Bool(FloatHolds(o, ToF64(x), ToF64(y)))
  ELSE Abort

OeqFloat(x, y) == x # NaN /\ y # NaN /\ x.p = y.p

\* Mutated: two values with the same payload are equal whatever their tags.
EqBits(x, y) == Bool(x.p = y.p)

\* Equal tags compare payloads, floats as floats; of different tags only
\* numbers can be equal.
EqFn(x, y) ==
  IF x.tag = y.tag
  THEN Bool(IF x.tag = "float" THEN OeqFloat(x, y) ELSE x.p = y.p)
  ELSE Bool(Numeric(x) /\ Numeric(y) /\ OeqFloat(ToF64(x), ToF64(y)))

NumInit ==
  /\ a \in Values
  /\ b \in Values
  /\ op = "none"
  /\ res = Bool(FALSE)

Call(o, r) ==
  /\ op = "none"
  /\ op' = o
  /\ res' = r
  /\ UNCHANGED <<a, b>>

NumNext ==
  \/ \E o \in Arith : \E r \in ArithFn(o, a, b) : Call(o, r)
  \/ \E r \in NegFn(a) : Call("neg", r)
  \/ \E o \in Order : Call(o, CmpFn(o, a, b))
  \/ Call("equals", EqFn(a, b))

NumTypeOK ==
  /\ a \in Values /\ b \in Values
  /\ op \in Arith \cup Order \cup {"none", "neg", "equals"}
  /\ res.tag \in {"int", "float", "bool", "abort"}
  /\ res.tag = "int" => res.p \in IntSet
  /\ res.tag = "float" => res \in AnyFloat
  /\ op \in Order \cup {"equals"} => res.tag \in {"bool", "abort"}

(***************************************************************************)
(* What the helpers promise of each other.                                 *)
(***************************************************************************)
IsTrue(r) == r = Bool(TRUE)
Is(o, x, y) == IsTrue(CmpFn(o, x, y))
Eq(x, y) == IsTrue(EqFn(x, y))

Once == op = "none"

\* The number a value stands for.
Exact(v) == v.p

\* trails, equals and beats exclude each other and one of them holds of any
\* two numbers but NaN, ints and floats mixed as the program likes; atmost
\* and atleast are their unions; nothing holds of NaN.  Promotion may make
\* two numbers equal that are not, but never swaps them.
Trichotomy ==
  Once /\ Numeric(a) /\ Numeric(b) =>
    LET lt == Is("trails", a, b)  eq == Eq(a, b)  gt == Is("beats", a, b)
    IN  /\ Cardinality({x \in {1, 2, 3} : <<lt, eq, gt>>[x]}) =
             (IF NaN \in {a, b} THEN 0 ELSE 1)
        /\ Is("atmost", a, b) = (lt \/ eq)
        /\ Is("atleast", a, b) = (gt \/ eq)
        /\ gt = Is("trails", b, a)
        /\ eq = Eq(b, a)
        /\ lt => Exact(a) < Exact(b)
        /\ BothInt(a, b) => (lt <=> Exact(a) < Exact(b))

\* The int helpers agree with each other wherever they return: quotient
\* times divisor add remainder is the dividend, the remainder is smaller than
\* the divisor and has the dividend's sign; subtracting is adding the
\* negation; negating twice is nothing.  No helper returns what is no int.
IntLaws ==
  /\ NumTypeOK
  /\ Once /\ BothInt(a, b) =>
       LET x == a.p  y == b.p
           Two(o, p, q) == {r \in IntOp(o, p, q) : r.tag = "int"}
           neg(p) == CHOOSE r \in NegFn(IntV(p)) : TRUE
       IN  /\ y # 0 /\ ~(x = MinInt /\ y = -1) =>
                \A q \in Two("div", x, y), r \in Two("mod", x, y) :
                  /\ \E t \in Two("times", q.p, y) : Two("add", t.p, r.p) = {a}
                  /\ Abs(r.p) < Abs(y)
                  /\ r.p = 0 \/ Sign(r.p) = Sign(x)
           /\ \A d \in Two("sub", x, y), e \in Two("add", x, neg(y).p) : d = e
           /\ neg(neg(x).p) = a
=============================================================================
