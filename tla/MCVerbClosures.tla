--------------------------- MODULE MCVerbClosures ---------------------------
EXTENDS VerbClosures

CONSTANTS b1, b2, b3, b4, b5, b6, b7

Order == <<b1, b2, b3, b4, b5, b6, b7>>

\* Blocks are interchangeable: only the lowest free one is handed out.
LowestFree ==
  \A i, j \in DOMAIN Order :
    (/\ j < i /\ Order[i] \in Block /\ Order[j] \in Block
     /\ kind[Order[i]] = "free" /\ kind'[Order[i]] # "free")
      => kind[Order[j]] # "free"

With(param, uses, temps, open, n) ==
  [param |-> [f \in Fn |-> param], uses |-> uses, temps |-> temps,
   calls |-> open, statements |-> n]

\* A function defines, captures in and returns another one, which its caller
\* keeps, calls and drops.
Escape == With(NoName, {}, 2, 1, 6)

\* Functions as arguments, calls in arguments, recursion, failing checks.
Arguments == With("x", {"error"}, 3, 2, 4)

\* Names reassigned, the results of calls called.
Rebinding == With(NoName, {"str", "reassign", "calltemp"}, 3, 1, 4)

Passing == {Escape, Arguments, Rebinding}

CallsResult == {With(NoName, {"calltemp"}, 3, 1, 5)}
=============================================================================
