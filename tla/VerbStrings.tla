----------------------------- MODULE VerbStrings -----------------------------
(***************************************************************************)
(* The string helpers of src/codegen.rs that compute positions: str_len,   *)
(* str_index, str_slice and the two passes of str_split, over strings as   *)
(* sequences of bytes (the NUL that ends each is past the last).  What the *)
(* helpers allocate, and its reference counts, is VerbProgram's subject.   *)
(***************************************************************************)
EXTENDS Integers, SequencesExt

CONSTANTS
  Byte,       \* the bytes strings are made of
  MaxLen,     \* bound on the length of the string
  MaxSep      \* bound on the length of the separator or substring

StringsAssumption == MaxLen \in Nat /\ MaxSep \in Nat

ASSUME StringsAssumption

VARIABLES
  s, sep,     \* the arguments
  pc,         \* the block of verb_str_split
  cur,        \* curp: offset in s
  count,      \* countp: pieces counted by the first pass
  i,          \* ip: pieces stored by the second
  elems       \* the element buffer: 16 bytes per counted piece

strVars == <<s, sep, pc, cur, count, i, elems>>

Strings(n) == UNION {[1 .. k -> Byte] : k \in 0 .. n}

Absent == -1

\* Bytes [from, to) of t; what is past its last byte reads as the NUL.
Bytes(t, from, to) ==
  [k \in 1 .. to - from |-> IF from + k \in DOMAIN t THEN t[from + k] ELSE 0]

\* strstr(t + from, sub): the offset in t of the first hit, or null.
Strstr(t, from, sub) ==
  LET hits == {k \in from .. Len(t) - Len(sub) : Bytes(t, k, k + Len(sub)) = sub}
  IN  IF hits = {} THEN Absent ELSE CHOOSE k \in hits : \A h \in hits : k <= h

StrIndex(t, sub) == Strstr(t, 0, sub)

OutOfBounds(t, start, end) == start < 0 \/ end < start \/ end > Len(t)

\* The string str_slice returns; none when it aborts.
StrSlice(t, start, end) ==
  IF OutOfBounds(t, start, end) THEN {} ELSE {Bytes(t, start, end)}

StrTypeOK ==
  /\ s \in Strings(MaxLen)
  /\ sep \in Strings(MaxSep)
  /\ pc \in {"entry", "count", "fill", "done"}
  /\ cur \in Nat
  /\ count \in Nat
  /\ i \in Nat
  /\ elems \in Seq(Strings(MaxLen))

StrInit ==
  /\ s \in Strings(MaxLen)
  /\ sep \in Strings(MaxSep)
  /\ pc = "entry"
  /\ cur = 0
  /\ count = 0
  /\ i = 0
  /\ elems = <<>>

SepEmpty == sep = <<>>

\* An empty separator: one piece, a copy of s.
Single ==
  /\ pc = "entry"
  /\ SepEmpty
  /\ elems' = <<s>>
  /\ count' = 1
  /\ i' = 1
  /\ pc' = "done"
  /\ UNCHANGED <<s, sep, cur>>

CountInit ==
  /\ pc = "entry"
  /\ ~SepEmpty
  /\ count' = 1
  /\ pc' = "count"
  /\ UNCHANGED <<s, sep, cur, i, elems>>

\* Where the first pass goes on after a hit.
AfterHit(hit) == hit + Len(sep)

Hit == Strstr(s, cur, sep)

CountHit ==
  /\ pc = "count"
  /\ Hit # Absent
  /\ count' = count + 1
  /\ cur' = AfterHit(Hit)
  /\ UNCHANGED <<s, sep, pc, i, elems>>

\* The buffer is allocated for the pieces counted, and filled from the start.
CountDone ==
  /\ pc = "count"
  /\ Hit = Absent
  /\ cur' = 0
  /\ pc' = "fill"
  /\ UNCHANGED <<s, sep, count, i, elems>>

\* Mutated: a last piece without bytes is not stored.
LastPieceIfAny ==
  /\ pc = "fill"
  /\ Hit = Absent
  /\ IF cur < Len(s)
     THEN elems' = Append(elems, Bytes(s, cur, Len(s))) /\ i' = i + 1
     ELSE UNCHANGED <<elems, i>>
  /\ pc' = "done"
  /\ UNCHANGED <<s, sep, cur, count>>

FillPiece ==
  /\ pc = "fill"
  /\ Hit # Absent
  /\ elems' = Append(elems, Bytes(s, cur, Hit))
  /\ i' = i + 1
  /\ cur' = Hit + Len(sep)
  /\ UNCHANGED <<s, sep, pc, count>>

FillLast ==
  /\ pc = "fill"
  /\ Hit = Absent
  /\ elems' = Append(elems, Bytes(s, cur, Len(s)))
  /\ i' = i + 1
  /\ pc' = "done"
  /\ UNCHANGED <<s, sep, cur, count>>

StrNext == Single \/ CountInit \/ CountHit \/ CountDone \/ FillPiece \/ FillLast

(***************************************************************************)
(* What the helpers promise.                                               *)
(***************************************************************************)

Join(pieces) ==
  LET joined[k \in 1 .. Len(pieces)] ==
        IF k = 1 THEN pieces[k] ELSE joined[k - 1] \o sep \o pieces[k]
  IN  joined[Len(pieces)]

\* The pieces joined by the separator are the string again, and each piece
\* ends at the first separator after its start: no other split has both.
SplitExact ==
  pc = "done" =>
    /\ elems # <<>>
    /\ Join(elems) = s
    /\ sep # <<>> =>
         /\ \A k \in 1 .. Len(elems) - 1 : StrIndex(elems[k] \o sep, sep) = Len(elems[k])
         /\ StrIndex(elems[Len(elems)], sep) = Absent
    /\ sep = <<>> => Len(elems) = 1

\* str_slice at the position str_index gives is the substring, without an
\* abort, and str_slice gives it at no position before, nor anywhere when
\* str_index is -1; a slice past the NUL aborts.
IndexSlices ==
  LET k == StrIndex(s, sep)
      at(j) == StrSlice(s, j, j + Len(sep))
  IN  /\ k # Absent => at(k) = {sep}
      /\ \A j \in -1 .. MaxLen : (k = Absent \/ j < k) => sep \notin at(j)
      /\ sep # <<>> => StrSlice(s, Len(s), Len(s) + Len(sep)) = {}

\* The second pass of str_split stores as many pieces as the first one made
\* room for, each within s; str_split, str_index and str_slice agree on
\* where the separators are.
StringsAgree ==
  /\ StrTypeOK
  /\ i <= count /\ count <= Len(s) + 1 /\ cur <= Len(s)
  /\ pc = "done" => i = count
  /\ SplitExact
  /\ IndexSlices
=============================================================================
