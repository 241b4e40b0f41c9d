------------------------- MODULE BuilderGen_refinement -------------------------
(***************************************************************************)
(* Proof that the step-by-step expansion of BuilderGen implements the      *)
(* one-step expansion of BuilderGenSpec under the mapping GenResult, for   *)
(* every declaration syn can hand the derive.                              *)
(*                                                                         *)
(* Only DeriveBuilder changes GenResult; every other step is a stutter of  *)
(* the abstract specification.  That DeriveBuilder hands on exactly        *)
(* ExpectedOutcome(input) is the inductive invariant OutInv: each loop has *)
(* passed only fields at which it does not stop, so the field a loop stops *)
(* at is the first failing one, and a later phase is reached only when     *)
(* every earlier phase found no failure.  It rests on GenInv (the ranges   *)
(* of pc and i, outcome running inside the loops) and on NameInv (the      *)
(* builder name did not panic once the setter loop runs).                  *)
(***************************************************************************)
EXTENDS BuilderGen_proofs

(* The fields at which each loop stops, and the outcome the declaration    *)
(* determines.                                                             *)
GF == GetterFails(input)

SF == SetterFails(input)

Expected == ExpectedOutcome(input)

(* The inductive invariant: what each phase knows of the failures. *)
OutInv ==
  /\ pc = "struct_impl" => i = 1
  /\ pc \in {"getters", "setters", "build_impl", "lets"} => input.data # "enum"
  /\ pc = "getters" => \A k \in 1..(i - 1) : k \notin GF
  /\ pc \in {"setters", "build_impl", "lets"} => GF = {}
  /\ pc = "setters" => \A k \in 1..(i - 1) : k \notin SF
  /\ pc \in {"build_impl", "lets"} => SF = {}
  /\ pc \in {"finish", "end"} => outcome = Expected

-----------------------------------------------------------------------------
(* A field index below every failing one is the first failure. *)
LEMMA FirstOfIs ==
  ASSUME NEW S \in SUBSET Int, NEW p \in S, \A j \in S : p <= j
  PROVE  FirstOf(S) = p
<1> DEFINE k == CHOOSE m \in S : \A j \in S : m <= j
<1>1. \E m \in S : \A j \in S : m <= j
  OBVIOUS
<1>2. k \in S /\ \A j \in S : k <= j
  BY <1>1
<1>3. k <= p /\ p <= k /\ k \in Int
  BY <1>2
<1>4. k = p
  BY <1>3
<1> QED
  BY <1>4 DEF FirstOf

(* getter_return either builds a type or fails. *)
LEMMA GetterOkBool ==
  ASSUME NEW ty
  PROVE  getter_return(ty).ok \in BOOLEAN
BY DEF getter_return

(* The failure sets are sets of field indices. *)
LEMMA FailsIndices ==
  /\ GF \subseteq 1..Len(Fields)
  /\ SF \subseteq 1..Len(Fields)
BY DEF GF, SF, GetterFails, SetterFails, Fields

(* An expansion starts before any phase. *)
LEMMA InitOutInv == Init => OutInv
BY DEF Init, OutInv

(* Each action preserves OutInv. *)
LEMMA OutStep ==
  ASSUME GenInv, NameInv, OutInv, [Next]_vars
  PROVE  OutInv'
<1>0. /\ input' = input
      /\ input \in Decls
      /\ Len(Fields) \in Nat
      /\ pc \in Phases
      /\ i \in 1..(Len(Fields) + 1)
  BY FieldsType DEF GenInv, Next, vars, GetStructFields, GetterSkip, GetterField,
     BuilderName, SetterField, SettersDone, BuildImpl, LetStmt, LetsDone, DeriveBuilder
<1>1. GF' = GF /\ SF' = SF /\ Expected' = Expected /\ Fields' = Fields
  BY <1>0 DEF GF, SF, Expected, Fields
<1>2. CASE GetStructFields
  <2>1. CASE input.data = "enum"
    <3>1. Expected = [kind |-> "error", err |-> "not_struct"]
      BY <2>1 DEF Expected, ExpectedOutcome
    <3> QED
      BY <1>1, <1>2, <2>1, <3>1 DEF GetStructFields, Stop, OutInv
  <2>2. CASE input.data # "enum"
    BY <1>0, <1>1, <1>2, <2>2 DEF GetStructFields, OutInv
  <2> QED
    BY <2>1, <2>2
<1>3. CASE GetterSkip
  <2>1. pc = "getters" /\ i \in 1..Len(Fields) /\ ~has_getter_attr(Fields[i])
    BY <1>0, <1>3 DEF GetterSkip
  <2>2. i \notin GF
    BY <2>1 DEF GF, GetterFails, Fields
  <2> QED
    BY <1>0, <1>1, <1>3, <2>1, <2>2 DEF GetterSkip, OutInv
<1>4. CASE GetterField
  <2> DEFINE f == Fields[i]
             r == getter_return(f.ty)
  <2>1. /\ pc = "getters" /\ i \in 1..Len(Fields) /\ has_getter_attr(f)
        /\ input.data # "enum"
        /\ \A k \in 1..(i - 1) : k \notin GF
    BY <1>0, <1>4 DEF GetterField, OutInv
  <2>2. r.ok \in BOOLEAN
    BY GetterOkBool
  <2>3. CASE f.ident = NoIdent \/ r.ok = FALSE
    <3>1. i \in GF
      BY <2>1, <2>3 DEF GF, GetterFails, Fields
    <3>2. \A j \in GF : i <= j
      BY <2>1, FailsIndices
    <3>3. FirstOf(GF) = i
      BY <3>1, <3>2, FailsIndices, FirstOfIs
    <3>4. Expected = IF f.ident = NoIdent THEN [kind |-> "panic"]
                     ELSE [kind |-> "error", err |-> "no_generic"]
      BY <2>1, <3>1, <3>3 DEF Expected, ExpectedOutcome, GF, Fields
    <3>5. pc' = "finish" /\ outcome' = Expected
      BY <1>4, <2>2, <2>3, <3>4 DEF GetterField, Stop
    <3> QED
      BY <1>1, <3>5 DEF OutInv
  <2>4. CASE f.ident # NoIdent /\ r.ok = TRUE
    <3>1. i \notin GF
      BY <2>1, <2>4 DEF GF, GetterFails, Fields
    <3>2. pc' = "getters" /\ i' = i + 1
      BY <1>4, <2>4 DEF GetterField
    <3> QED
      BY <1>0, <1>1, <2>1, <3>1, <3>2 DEF OutInv
  <2> QED
    BY <2>2, <2>3, <2>4
<1>5. CASE BuilderName
  <2>1. /\ pc = "getters" /\ i = Len(Fields) + 1 /\ input.data # "enum"
        /\ \A k \in 1..(i - 1) : k \notin GF
    BY <1>5 DEF BuilderName, OutInv
  <2>2. GF = {}
    BY <1>0, <2>1, FailsIndices
  <2>3. CASE GenName.kind = "panic"
    <3>1. Expected = [kind |-> "panic"]
      BY <2>1, <2>2, <2>3 DEF Expected, ExpectedOutcome, GenName, GF, SF
    <3> QED
      BY <1>1, <1>5, <2>3, <3>1 DEF BuilderName, Stop, OutInv, GenName
  <2>4. CASE GenName.kind # "panic"
    BY <1>1, <1>5, <2>1, <2>2, <2>4 DEF BuilderName, OutInv, GenName
  <2> QED
    BY <2>3, <2>4
<1>6. CASE SetterField
  <2> DEFINE f == Fields[i]
  <2>1. /\ pc = "setters" /\ i \in 1..Len(Fields) /\ input.data # "enum" /\ GF = {}
        /\ \A k \in 1..(i - 1) : k \notin SF
        /\ GenName.kind # "panic"
    BY <1>0, <1>6 DEF SetterField, OutInv, NameInv
  <2>2. CASE f.ident = NoIdent \/ ("with_" \o f.ident) \notin IdentStrings
    <3>1. i \in SF
      BY <2>1, <2>2 DEF SF, SetterFails, Fields
    <3>2. Expected = [kind |-> "panic"]
      BY <2>1, <3>1 DEF Expected, ExpectedOutcome, GenName, GF, SF
    <3> QED
      BY <1>1, <1>6, <2>2, <3>2 DEF SetterField, Stop, OutInv
  <2>3. CASE ~(f.ident = NoIdent \/ ("with_" \o f.ident) \notin IdentStrings)
    <3>1. i \notin SF
      BY <2>1, <2>3 DEF SF, SetterFails, Fields
    <3>2. pc' = "setters" /\ i' = i + 1
      BY <1>6, <2>3 DEF SetterField
    <3> QED
      BY <1>0, <1>1, <2>1, <3>1, <3>2 DEF OutInv
  <2> QED
    BY <2>2, <2>3
<1>7. CASE SettersDone
  <2>1. /\ pc = "setters" /\ i = Len(Fields) + 1 /\ input.data # "enum" /\ GF = {}
        /\ \A k \in 1..(i - 1) : k \notin SF
        /\ GenName.kind # "panic"
    BY <1>7 DEF SettersDone, OutInv, NameInv
  <2>2. SF = {}
    BY <1>0, <2>1, FailsIndices
  <2>3. Expected = [kind |-> "code"]
    BY <2>1, <2>2 DEF Expected, ExpectedOutcome, GenName, GF, SF
  <2> QED
    BY <1>1, <1>7, <2>1, <2>2, <2>3 DEF SettersDone, OutInv
<1>8. CASE BuildImpl
  BY <1>1, <1>8 DEF BuildImpl, OutInv
<1>9. CASE LetStmt
  BY <1>1, <1>9 DEF LetStmt, OutInv
<1>10. CASE LetsDone
  <2>1. /\ pc = "lets" /\ input.data # "enum" /\ GF = {} /\ SF = {}
        /\ GenName.kind # "panic"
    BY <1>10 DEF LetsDone, OutInv, NameInv
  <2>2. Expected = [kind |-> "code"]
    BY <2>1 DEF Expected, ExpectedOutcome, GenName, GF, SF
  <2> QED
    BY <1>1, <1>10, <2>2 DEF LetsDone, OutInv
<1>11. CASE DeriveBuilder
  BY <1>1, <1>11 DEF DeriveBuilder, OutInv
<1>12. CASE UNCHANGED vars
  BY <1>1, <1>12 DEF vars, OutInv
<1> QED
  BY <1>2, <1>3, <1>4, <1>5, <1>6, <1>7, <1>8, <1>9, <1>10, <1>11, <1>12 DEF Next

(* OutInv holds in every state of every expansion. *)
THEOREM OutInvHolds == Spec => []OutInv
<1>1. GenInv /\ NameInv /\ OutInv /\ [Next]_vars => OutInv'
  BY OutStep
<1> QED
  BY <1>1, InitOutInv, GenInvHolds, NameInvHolds, PTL DEF Spec

-----------------------------------------------------------------------------
(* An expansion that has not started has no result. *)
LEMMA InitRefines == Init => GenAbs!Init
BY DEF Init, GenAbs!Init, GenResult, GenAbs!Pending

(* Only derive_builder hands on a result, and it is the one the           *)
(* declaration determines; every other step leaves GenResult alone.        *)
LEMMA RefineStep ==
  ASSUME GenInv, OutInv, [Next]_vars
  PROVE  [GenAbs!Expand]_<<input, GenResult>>
<1>1. CASE DeriveBuilder
  <2>1. /\ pc = "finish" /\ pc' = "end" /\ outcome' = outcome /\ input' = input
    BY <1>1 DEF DeriveBuilder
  <2>2. outcome = ExpectedOutcome(input)
    BY <2>1 DEF OutInv, Expected
  <2>3. GenResult = GenAbs!Pending /\ GenResult' = ExpectedOutcome(input)
    BY <2>1, <2>2 DEF GenResult, GenAbs!Pending
  <2> QED
    BY <2>1, <2>3 DEF GenAbs!Expand
<1>2. CASE UNCHANGED vars
  BY <1>2 DEF vars, GenResult
<1>3. CASE \/ GetStructFields \/ GetterSkip \/ GetterField \/ BuilderName
           \/ SetterField \/ SettersDone \/ BuildImpl \/ LetStmt \/ LetsDone
  <2>1. pc # "end" /\ pc' # "end" /\ input' = input
    BY <1>3 DEF GetStructFields, GetterSkip, GetterField, BuilderName, SetterField,
       SettersDone, BuildImpl, LetStmt, LetsDone, Stop
  <2> QED
    BY <2>1 DEF GenResult
<1> QED
  BY <1>1, <1>2, <1>3 DEF Next

(* The loops of generate_builder_macro implement the one-step expansion:  *)
(* every expansion hands derive_builder exactly the outcome that the       *)
(* declaration determines (not a struct, the first failing #[getter]       *)
(* field, a panicking builder name, a bad setter name, or else code), and  *)
(* nothing before that, for every declaration.                             *)
THEOREM GenRefinementHolds == Spec => GenRefinement
<1>1. GenInv /\ OutInv /\ [Next]_vars => [GenAbs!Expand]_<<input, GenResult>>
  BY RefineStep
<1> QED
  BY <1>1, InitRefines, GenInvHolds, OutInvHolds, PTL DEF Spec, GenRefinement, GenAbs!Spec

=============================================================================
