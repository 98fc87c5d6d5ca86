---------------------------- MODULE VerbVariants ----------------------------
(***************************************************************************)
(* Tagged unions of src/codegen.rs: what `choice` declares, how a value    *)
(* carries its variant, and what `match`, is_err, err_kind and err_msg     *)
(* decide from it.  The compiler keeps one table of variants for all the   *)
(* choices; a value has a descriptor, its variant_id and its field count,  *)
(* and the generated code compares the variant_id alone.                   *)
(*                                                                         *)
(* A match is compiled where it stands in the text and runs later, on any  *)
(* value: it keeps the table's entries of that moment (code).  Reference   *)
(* counts of scrutinee and fields are in VerbProgram.                      *)
(***************************************************************************)
EXTENDS Naturals, SequencesExt

CONSTANTS
  Decls,      \* the choices of the program in the order of the text
  MaxArms,    \* bound on the arms of a match
  None        \* no variant, no value, no match

\* <<name, fields>> pairs; the built-in Result comes first.
Builtin == [choice |-> "Result", variants |-> <<<<"Ok", 1>>, <<"Err", 2>>>>]

AllChoices  == <<Builtin>> \o Decls
Choice   == {AllChoices[i].choice : i \in DOMAIN AllChoices}
Pairs(i) == ToSet(AllChoices[i].variants)
Variant  == UNION {{p[1] : p \in Pairs(i)} : i \in DOMAIN AllChoices}
Field    == 0 .. 2

\* Every choice and every variant has a name of its own.
VariantsAssumption ==
  /\ MaxArms \in Nat
  /\ Decls \in Seq(ToSet(Decls))
  /\ \A i \in DOMAIN AllChoices : AllChoices[i].variants \in Seq(Pairs(i))
  /\ \A i \in DOMAIN AllChoices : \A p \in Pairs(i) : p[2] \in Field
  /\ \A i, j \in DOMAIN AllChoices :
       i # j => /\ AllChoices[i].choice # AllChoices[j].choice
                /\ {p[1] : p \in Pairs(i)} \cap {p[1] : p \in Pairs(j)} = {}

ASSUME VariantsAssumption

VARIABLES
  declared,   \* how many of AllChoices the compiler has passed
  variants,   \* its table: the variant of a name
  value,      \* the value the next operation is applied to
  failed,     \* whether it is what a std io call that failed became
  code,       \* the compiled match: arms, otherwise
  at,         \* the arm under test, 0 when no match runs
  outcome     \* what the last operation decided

variantVars == <<declared, variants, value, failed, code, at, outcome>>

Info == [choice : Choice, name : Variant, id : Nat, n : Field]
Enum == [tag : {"enum"}, v : Info]
Nil  == [tag |-> "nil"]
Str  == [tag |-> "str"]

Nothing == [op |-> "none"]
Aborted   == [op |-> "abort"]

Decided ==
  {Nothing, Aborted}
    \cup [op : {"match"}, arm : 0 .. MaxArms, reads : Field]
    \cup [op : {"is_err"}, res : BOOLEAN]
    \cup [op : {"err_field"}, reads : Field]

VariantTypeOK ==
  /\ declared \in DOMAIN AllChoices
  /\ \A v \in Variant : variants[v] \in Info \cup {None}
  /\ value \in Enum \cup {Nil, Str}
  /\ failed \in {"yes", "no", "other"}
  /\ code # None => /\ code.arms \in Seq(Info)
                    /\ Len(code.arms) <= MaxArms
                    /\ code.otherwise \in BOOLEAN
  /\ at \in 0 .. MaxArms
  /\ outcome \in Decided

\* variant_id of the k-th variant.
Id(k) == k - 1

\* The variants of the i-th choice, numbered in the order of the text.
Numbered(i) ==
  [v \in {p[1] : p \in Pairs(i)} |->
     LET k == CHOOSE k \in DOMAIN AllChoices[i].variants : AllChoices[i].variants[k][1] = v
     IN  [choice |-> AllChoices[i].choice, name |-> v,
          id |-> Id(k), n |-> AllChoices[i].variants[k][2]]]

\* gen_choice: variants.insert of each.
Register(table, i) ==
  [v \in Variant |-> IF v \in DOMAIN Numbered(i) THEN Numbered(i)[v] ELSE table[v]]

VariantInit ==
  /\ declared = 1
  /\ variants = Register([v \in Variant |-> None], 1)
  /\ value = Nil
  /\ failed = "other"
  /\ code = None
  /\ at = 0
  /\ outcome = Nothing

Between == at = 0 /\ outcome # Aborted

GenChoice ==
  /\ Between
  /\ declared < Len(AllChoices)
  /\ declared' = declared + 1
  /\ variants' = Register(variants, declared + 1)
  /\ UNCHANGED <<value, failed, code, at, outcome>>

BuildVariant(v) ==
  /\ Between
  /\ variants[v] # None
  /\ value' = [tag |-> "enum", v |-> variants[v]]
  /\ failed' = "other"
  /\ outcome' = Nothing
  /\ UNCHANGED <<declared, variants, code, at>>

\* A value of another type: any but an enum.
OtherValue ==
  /\ Between
  /\ value' \in {Nil, Str}
  /\ failed' = "other"
  /\ outcome' = Nothing
  /\ UNCHANGED <<declared, variants, code, at>>

\* lift_nil_to_err: a nil becomes Err("io", message).
LiftNilToErr(r) ==
  IF r = Nil THEN [tag |-> "enum", v |-> variants["Err"]] ELSE r

StdIoCall ==
  /\ Between
  /\ \E r \in {Nil, Str} :
       /\ value' = LiftNilToErr(r)
       /\ failed' = IF r = Nil THEN "yes" ELSE "no"
  /\ outcome' = Nothing
  /\ UNCHANGED <<declared, variants, code, at>>

\* gen_match compiles the arms; an unknown variant is a compile error, and
\* so is a pattern whose bindings are not as many as the variant's fields.
CompileMatch(names, otherwise) ==
  /\ Between
  /\ \A i \in DOMAIN names : variants[names[i]] # None
  /\ code' = [arms |-> [i \in DOMAIN names |-> variants[names[i]]],
              otherwise |-> otherwise]
  /\ outcome' = Nothing
  /\ UNCHANGED <<declared, variants, value, failed, at>>

NoMatch ==
  /\ outcome' = IF code.otherwise THEN [op |-> "match", arm |-> 0, reads |-> 0]
                ELSE Aborted
  /\ at' = 0

\* The test of the tag.
Dispatch ==
  /\ Between
  /\ code # None
  /\ IF value.tag = "enum" /\ code.arms # <<>>
     THEN at' = 1 /\ outcome' = Nothing
     ELSE NoMatch
  /\ UNCHANGED <<declared, variants, value, failed, code>>

MoreArms == at < Len(code.arms)

\* Mutated: an arm is taken although the variant differs.
SameCount(arm) == arm.n = value.v.n

\* The comparison of an arm.
Matches(arm) == arm.id = value.v.id

TestArm ==
  /\ at # 0
  /\ IF Matches(code.arms[at])
     THEN /\ outcome' = [op |-> "match", arm |-> at, reads |-> code.arms[at].n]
          /\ at' = 0
     ELSE IF MoreArms THEN at' = at + 1 /\ UNCHANGED outcome
     ELSE NoMatch
  /\ UNCHANGED <<declared, variants, value, failed, code>>

\* What is_err and the err_ builtins ask of a value.
LooksLikeErr == value.tag = "enum" /\ value.v.id = variants["Err"].id

IsErr ==
  /\ Between
  /\ outcome' = [op |-> "is_err", res |-> LooksLikeErr]
  /\ UNCHANGED <<declared, variants, value, failed, code, at>>

\* err_kind and err_msg load field 0 or 1; of another value they are nil.
ErrField(idx) ==
  /\ Between
  /\ outcome' = [op |-> "err_field", reads |-> IF LooksLikeErr THEN idx + 1 ELSE 0]
  /\ UNCHANGED <<declared, variants, value, failed, code, at>>

Arms == {s \in UNION {[1 .. n -> Variant] : n \in 0 .. MaxArms} : IsInjective(s)}

\* The process may abort at a match without a matching arm.
VariantNext ==
  \/ GenChoice
  \/ \E v \in Variant : BuildVariant(v)
  \/ OtherValue
  \/ StdIoCall
  \/ \E names \in Arms, otherwise \in BOOLEAN : CompileMatch(names, otherwise)
  \/ Dispatch
  \/ TestArm
  \/ IsErr
  \/ \E idx \in 0 .. 1 : ErrField(idx)

(***************************************************************************)
(* What variants promise.                                                  *)
(***************************************************************************)
ArmOf(names, v) == SelectInSeq(names, LAMBDA a : a = v)

MatchDecided == outcome.op = "match"

ArmNames == [i \in DOMAIN code.arms |-> code.arms[i].name]

\* When the arms of a match are variants of the value's own choice, the arm
\* that runs is the one written for the value's variant, however the choices
\* were declared before and after the match was compiled, and it loads no
\* field the value does not have.
DispatchInChoice ==
  /\ VariantTypeOK
  /\ /\ MatchDecided
     /\ value.tag = "enum"
     /\ \A i \in DOMAIN code.arms : code.arms[i].choice = value.v.choice
     => /\ outcome.arm = ArmOf(ArmNames, value.v.name)
        /\ outcome.reads <= value.v.n

\* The comment of gen_match: an enum whose variant no arm covers falls to
\* otherwise or aborts.
UncoveredFallsThrough ==
  MatchDecided /\ value.tag = "enum" /\ ArmOf(ArmNames, value.v.name) = 0
    => outcome.arm = 0
=============================================================================
