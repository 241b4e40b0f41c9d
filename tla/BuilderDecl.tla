----------------------------- MODULE BuilderDecl -----------------------------
(***************************************************************************)
(* One struct handed to `#[derive(Builder)]` (builder.rs), as the code     *)
(* that it emits sees it: the named fields in declaration order, which of  *)
(* them carry #[optional], and whether #[gen_build_impl] is present.  The  *)
(* emitted builder and its build are modelled in BuilderRuntime (the code) *)
(* and BuilderSpec (what it promises); both extend this module.            *)
(***************************************************************************)
EXTENDS Naturals, Sequences

CONSTANTS
  FieldSeq,   \* the struct's named fields, in declaration order
  Optional,   \* the fields that carry #[optional]
  Values,     \* the values a setter may be given
  DefaultOf,  \* T::default() of each field's type
  GenBuild,   \* TRUE iff the struct carries #[gen_build_impl]
  Handles,    \* the builder values that may exist at once
  None        \* Option::None, and "no result yet"

FieldNames == {FieldSeq[i] : i \in DOMAIN FieldSeq}
N == Len(FieldSeq)

ASSUME FieldSeqAssumption ==
  /\ FieldSeq \in Seq(STRING)
  /\ \A i, j \in 1..Len(FieldSeq) : FieldSeq[i] = FieldSeq[j] => i = j

ASSUME ConstAssumption ==
  /\ Optional \subseteq FieldNames
  /\ None \notin Values
  /\ DefaultOf \in [FieldNames -> Values]
  /\ GenBuild \in BOOLEAN

(* Option<T> of a field of the builder. *)
Boxed == Values \cup {None}

(* Result<Struct, BuilderError>: Ok carries the assembled struct. *)
Results ==
  [kind : {"Ok"}, value : [FieldNames -> Values]] \cup
  [kind : {"MissingField"}, field : FieldNames]

(* The Default derive of the builder: every Option field is None. *)
EmptyBox == [f \in FieldNames |-> None]

-----------------------------------------------------------------------------
(***************************************************************************)
(* What build promises (spec.md 4.4 and 8): the result is Ok iff every     *)
(* required field is Some; an unset #[optional] field takes its type's     *)
(* default; otherwise the error names the first absent required field in   *)
(* declaration order.                                                      *)
(***************************************************************************)
Resolve(b, f) == IF b[f] = None THEN DefaultOf[f] ELSE b[f]

MissingIndices(b) ==
  {i \in 1..N : FieldSeq[i] \notin Optional /\ b[FieldSeq[i]] = None}

FirstIndex(S) == CHOOSE i \in S : \A j \in S : i <= j

Expected(b) ==
  IF MissingIndices(b) = {}
    THEN [kind |-> "Ok", value |-> [f \in FieldNames |-> Resolve(b, f)]]
    ELSE [kind |-> "MissingField",
          field |-> FieldSeq[FirstIndex(MissingIndices(b))]]

=============================================================================
