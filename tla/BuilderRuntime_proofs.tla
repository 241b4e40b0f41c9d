------------------------- MODULE BuilderRuntime_proofs -------------------------
(***************************************************************************)
(* Proofs about BuilderRuntime for every struct: any field list, any set   *)
(* of #[optional] fields, any values and any number of builders.           *)
(***************************************************************************)
EXTENDS BuilderRuntime, TLAPS

(***************************************************************************)
(* The invariant of a build in progress (builder.rs 102-124): after the    *)
(* `let` statements of fields 1..pos-1 ran without returning, each of      *)
(* those fields that is required was Some, and each of their locals holds  *)
(* the field's value or its default; no later local is bound yet.  Only   *)
(* a struct with #[gen_build_impl] has a build to be in.                   *)
(***************************************************************************)
BuildingInv ==
  \A h \in Handles : status[h] = "building" =>
    /\ GenBuild
    /\ \A i \in 1..(pos[h] - 1) :
         FieldSeq[i] \notin Optional => box[h][FieldSeq[i]] # None
    /\ \A i \in 1..N :
         local[h][FieldSeq[i]] =
           IF i < pos[h] THEN Resolve(box[h], FieldSeq[i]) ELSE None

(* The inductive strengthening of TypeOK and BuildOutcome. *)
IInv == TypeOK /\ BuildingInv /\ BuildOutcome

-----------------------------------------------------------------------------
(* What FieldSeqAssumption gives: the fields are 1..N, distinct. *)
LEMMA FieldFacts ==
  /\ N \in Nat
  /\ DOMAIN FieldSeq = 1..N
  /\ \A i \in 1..N : FieldSeq[i] \in FieldNames
  /\ \A f \in FieldNames : \E i \in 1..N : FieldSeq[i] = f
  /\ \A i, j \in 1..N : FieldSeq[i] = FieldSeq[j] => i = j
BY FieldSeqAssumption DEF N, FieldNames

(* FirstIndex picks the least element of a set of naturals. *)
LEMMA FirstIndexIs ==
  ASSUME NEW S, S \subseteq Nat, NEW p \in S, \A j \in S : p <= j
  PROVE  FirstIndex(S) = p
<1>1. \E i \in S : \A j \in S : i <= j
  OBVIOUS
<1>2. FirstIndex(S) \in S /\ \A j \in S : FirstIndex(S) <= j
  BY <1>1 DEF FirstIndex
<1> DEFINE c == FirstIndex(S)
<1>3. c \in Nat /\ c <= p /\ p <= c
  BY <1>2
<1>4. QED
  BY <1>3

(* Every initial state satisfies the inductive invariant. *)
LEMMA InitIInv == Init => IInv
<1> SUFFICES ASSUME Init PROVE IInv
  OBVIOUS
<1>1. TypeOK
  BY FieldFacts, ConstAssumption DEF Init, TypeOK, EmptyBox, Boxed
<1>2. BuildingInv /\ BuildOutcome
  BY DEF Init, BuildingInv, BuildOutcome
<1>3. QED
  BY <1>1, <1>2 DEF IInv

(* The builder actions outside build touch no build in progress and no    *)
(* finished build: New and CloneBuilder fill a free handle, With changes  *)
(* a live one, Drop empties a live or a built one.                        *)
LEMMA NewStep ==
  ASSUME IInv, NEW h \in Handles, New(h)
  PROVE  IInv'
<1>1. TypeOK'
  BY ConstAssumption DEF IInv, TypeOK, New, EmptyBox, Boxed
<1>2. BuildingInv'
  BY DEF IInv, TypeOK, BuildingInv, New
<1>3. BuildOutcome'
  BY DEF IInv, TypeOK, BuildOutcome, New
<1>4. QED
  BY <1>1, <1>2, <1>3 DEF IInv

LEMMA WithStep ==
  ASSUME IInv, NEW h \in Handles, NEW f \in FieldNames, NEW v \in Values,
         With(h, f, v)
  PROVE  IInv'
<1>1. TypeOK'
  BY DEF IInv, TypeOK, With, Boxed
<1>2. BuildingInv'
  BY DEF IInv, TypeOK, BuildingInv, With
<1>3. BuildOutcome'
  BY DEF IInv, TypeOK, BuildOutcome, With
<1>4. QED
  BY <1>1, <1>2, <1>3 DEF IInv

LEMMA CloneStep ==
  ASSUME IInv, NEW h \in Handles, NEW c \in Handles, CloneBuilder(h, c)
  PROVE  IInv'
<1>1. TypeOK'
  BY DEF IInv, TypeOK, CloneBuilder
<1>2. BuildingInv'
  BY DEF IInv, TypeOK, BuildingInv, CloneBuilder
<1>3. BuildOutcome'
  BY DEF IInv, TypeOK, BuildOutcome, CloneBuilder
<1>4. QED
  BY <1>1, <1>2, <1>3 DEF IInv

LEMMA DropStep ==
  ASSUME IInv, NEW h \in Handles, Drop(h)
  PROVE  IInv'
<1>1. TypeOK'
  BY FieldFacts DEF IInv, TypeOK, Drop, EmptyBox, Boxed
<1>2. BuildingInv'
  BY DEF IInv, TypeOK, BuildingInv, Drop
<1>3. BuildOutcome'
  BY DEF IInv, TypeOK, BuildOutcome, Drop
<1>4. QED
  BY <1>1, <1>2, <1>3 DEF IInv

(* Entering build: no `let` has run and no local is bound. *)
LEMMA BuildStart ==
  ASSUME IInv, NEW h \in Handles, Build(h)
  PROVE  IInv'
<1>1. TypeOK'
  BY FieldFacts DEF IInv, TypeOK, Build, EmptyBox, Boxed
<1>2. BuildingInv'
  BY FieldFacts DEF IInv, TypeOK, BuildingInv, Build, EmptyBox
<1>3. BuildOutcome'
  BY DEF IInv, TypeOK, BuildOutcome, Build
<1>4. QED
  BY <1>1, <1>2, <1>3 DEF IInv

(* A `let` of an #[optional] field binds its value or its default. *)
LEMMA LetOptionalStep ==
  ASSUME IInv, NEW h \in Handles, LetOptional(h)
  PROVE  IInv'
<1> DEFINE p == pos[h]
           f == FieldSeq[p]
<1>1. /\ status[h] = "building"
      /\ p \in 1..N /\ f \in FieldNames /\ f \in Optional
      /\ pos' = [pos EXCEPT ![h] = p + 1]
      /\ local' = [local EXCEPT ![h][f] = Resolve(box[h], f)]
      /\ UNCHANGED <<status, box, result>>
  BY FieldFacts DEF IInv, TypeOK, LetOptional, Resolve
<1>2. TypeOK'
  <2>1. Resolve(box[h], f) \in Values
    BY <1>1, ConstAssumption DEF IInv, TypeOK, Resolve, Boxed
  <2>2. local[h] \in [FieldNames -> Boxed]
    BY DEF IInv, TypeOK
  <2>3. local' \in [Handles -> [FieldNames -> Boxed]]
    BY <1>1, <2>1, <2>2 DEF IInv, TypeOK, Boxed
  <2>4. pos' \in [Handles -> 1..(N + 1)]
    BY <1>1, FieldFacts DEF IInv, TypeOK
  <2>5. QED
    BY <1>1, <2>3, <2>4 DEF IInv, TypeOK
<1>3. BuildingInv'
  <2> SUFFICES ASSUME NEW k \in Handles, status'[k] = "building"
               PROVE  /\ GenBuild
                      /\ \A i \in 1..(pos'[k] - 1) :
                            FieldSeq[i] \notin Optional => box'[k][FieldSeq[i]] # None
                      /\ \A i \in 1..N :
                            local'[k][FieldSeq[i]] =
                              IF i < pos'[k] THEN Resolve(box'[k], FieldSeq[i]) ELSE None
    BY DEF BuildingInv
  <2>1. CASE k # h
    BY <1>1, <2>1 DEF IInv, TypeOK, BuildingInv
  <2>2. CASE k = h
    <3>1. \A i \in 1..p : FieldSeq[i] \notin Optional => box[h][FieldSeq[i]] # None
      BY <1>1 DEF IInv, BuildingInv
    <3>2. ASSUME NEW i \in 1..N
          PROVE  local'[h][FieldSeq[i]] =
                   IF i < p + 1 THEN Resolve(box[h], FieldSeq[i]) ELSE None
      <4>1. CASE i = p
        BY <1>1, <4>1, FieldFacts DEF IInv, TypeOK
      <4>2. CASE i # p
        <5>1. FieldSeq[i] # f
          BY <1>1, <4>2, FieldFacts
        <5>2. local'[h][FieldSeq[i]] = local[h][FieldSeq[i]]
          BY <1>1, <5>1, FieldFacts DEF IInv, TypeOK
        <5>3. QED
          BY <1>1, <4>2, <5>2 DEF IInv, BuildingInv
      <4>3. QED
        BY <4>1, <4>2
    <3>3. QED
      BY <1>1, <2>2, <3>1, <3>2 DEF IInv, TypeOK, BuildingInv
  <2>3. QED
    BY <2>1, <2>2
<1>4. BuildOutcome'
  BY <1>1 DEF IInv, BuildOutcome
<1>5. QED
  BY <1>2, <1>3, <1>4 DEF IInv

(* A `let` of a required field that is Some binds its value. *)
LEMMA LetRequiredStep ==
  ASSUME IInv, NEW h \in Handles, LetRequired(h)
  PROVE  IInv'
<1> DEFINE p == pos[h]
           f == FieldSeq[p]
<1>1. /\ status[h] = "building"
      /\ p \in 1..N /\ f \in FieldNames /\ f \notin Optional
      /\ box[h][f] # None
      /\ pos' = [pos EXCEPT ![h] = p + 1]
      /\ local' = [local EXCEPT ![h][f] = Resolve(box[h], f)]
      /\ UNCHANGED <<status, box, result>>
  BY FieldFacts DEF IInv, TypeOK, LetRequired, Resolve
<1>2. TypeOK'
  <2>1. Resolve(box[h], f) \in Values
    BY <1>1, ConstAssumption DEF IInv, TypeOK, Resolve, Boxed
  <2>2. local[h] \in [FieldNames -> Boxed]
    BY DEF IInv, TypeOK
  <2>3. local' \in [Handles -> [FieldNames -> Boxed]]
    BY <1>1, <2>1, <2>2 DEF IInv, TypeOK, Boxed
  <2>4. pos' \in [Handles -> 1..(N + 1)]
    BY <1>1, FieldFacts DEF IInv, TypeOK
  <2>5. QED
    BY <1>1, <2>3, <2>4 DEF IInv, TypeOK
<1>3. BuildingInv'
  <2> SUFFICES ASSUME NEW k \in Handles, status'[k] = "building"
               PROVE  /\ GenBuild
                      /\ \A i \in 1..(pos'[k] - 1) :
                            FieldSeq[i] \notin Optional => box'[k][FieldSeq[i]] # None
                      /\ \A i \in 1..N :
                            local'[k][FieldSeq[i]] =
                              IF i < pos'[k] THEN Resolve(box'[k], FieldSeq[i]) ELSE None
    BY DEF BuildingInv
  <2>1. CASE k # h
    BY <1>1, <2>1 DEF IInv, TypeOK, BuildingInv
  <2>2. CASE k = h
    <3>1. \A i \in 1..p : FieldSeq[i] \notin Optional => box[h][FieldSeq[i]] # None
      BY <1>1 DEF IInv, BuildingInv
    <3>2. ASSUME NEW i \in 1..N
          PROVE  local'[h][FieldSeq[i]] =
                   IF i < p + 1 THEN Resolve(box[h], FieldSeq[i]) ELSE None
      <4>1. CASE i = p
        BY <1>1, <4>1, FieldFacts DEF IInv, TypeOK
      <4>2. CASE i # p
        <5>1. FieldSeq[i] # f
          BY <1>1, <4>2, FieldFacts
        <5>2. local'[h][FieldSeq[i]] = local[h][FieldSeq[i]]
          BY <1>1, <5>1, FieldFacts DEF IInv, TypeOK
        <5>3. QED
          BY <1>1, <4>2, <5>2 DEF IInv, BuildingInv
      <4>3. QED
        BY <4>1, <4>2
    <3>3. QED
      BY <1>1, <2>2, <3>1, <3>2 DEF IInv, TypeOK, BuildingInv
  <2>3. QED
    BY <2>1, <2>2
<1>4. BuildOutcome'
  BY <1>1 DEF IInv, BuildOutcome
<1>5. QED
  BY <1>2, <1>3, <1>4 DEF IInv

(* The early return of a `let`: the field it names is the first missing   *)
(* one, since every required field before it was Some.                    *)
LEMMA MissingFieldStep ==
  ASSUME IInv, NEW h \in Handles, MissingFieldReturn(h)
  PROVE  IInv'
<1> DEFINE p == pos[h]
           f == FieldSeq[p]
           M == MissingIndices(box[h])
<1>1. /\ status[h] = "building"
      /\ p \in 1..N /\ f \in FieldNames /\ f \notin Optional
      /\ box[h][f] = None
      /\ status' = [status EXCEPT ![h] = "built"]
      /\ result' = [result EXCEPT ![h] = [kind |-> "MissingField", field |-> f]]
      /\ UNCHANGED <<box, pos, local>>
  BY FieldFacts DEF IInv, TypeOK, MissingFieldReturn
<1>2. Expected(box[h]) = [kind |-> "MissingField", field |-> f]
  <2>1. p \in M /\ M \subseteq Nat
    BY <1>1 DEF MissingIndices
  <2>2. \A j \in M : p <= j
    BY <1>1 DEF IInv, BuildingInv, MissingIndices
  <2>3. FirstIndex(M) = p
    BY <2>1, <2>2, FirstIndexIs
  <2>4. QED
    BY <2>1, <2>3 DEF Expected
<1>3. TypeOK'
  BY <1>1 DEF IInv, TypeOK, Results
<1>4. BuildingInv'
  BY <1>1 DEF IInv, TypeOK, BuildingInv
<1>5. BuildOutcome'
  BY <1>1, <1>2 DEF IInv, TypeOK, BuildOutcome
<1>6. QED
  BY <1>3, <1>4, <1>5 DEF IInv

(* The final `Ok(..)`: no required field was missing and every local is   *)
(* bound to the field's value or its default.                             *)
LEMMA BuildOkStep ==
  ASSUME IInv, NEW h \in Handles, BuildOk(h)
  PROVE  IInv'
<1> DEFINE R == [f \in FieldNames |-> Resolve(box[h], f)]
<1>1. /\ status[h] = "building"
      /\ pos[h] = N + 1
      /\ status' = [status EXCEPT ![h] = "built"]
      /\ result' = [result EXCEPT ![h] = [kind |-> "Ok", value |-> local[h]]]
      /\ UNCHANGED <<box, pos, local>>
  BY DEF BuildOk
<1>2. local[h] = R
  <2>1. local[h] \in [FieldNames -> Boxed]
    BY DEF IInv, TypeOK
  <2>2. ASSUME NEW f \in FieldNames PROVE local[h][f] = Resolve(box[h], f)
    <3>1. PICK i \in 1..N : FieldSeq[i] = f
      BY FieldFacts
    <3>2. QED
      BY <1>1, <3>1, FieldFacts DEF IInv, BuildingInv
  <2>3. QED
    BY <2>1, <2>2
<1>3. MissingIndices(box[h]) = {}
  BY <1>1, FieldFacts DEF IInv, BuildingInv, MissingIndices
<1>4. Expected(box[h]) = [kind |-> "Ok", value |-> local[h]]
  BY <1>2, <1>3 DEF Expected
<1>5. R \in [FieldNames -> Values]
  BY ConstAssumption DEF IInv, TypeOK, Resolve, Boxed
<1>6. TypeOK'
  BY <1>1, <1>2, <1>5 DEF IInv, TypeOK, Results
<1>7. BuildingInv'
  BY <1>1 DEF IInv, TypeOK, BuildingInv
<1>8. BuildOutcome'
  BY <1>1, <1>4 DEF IInv, TypeOK, BuildOutcome
<1>9. QED
  BY <1>6, <1>7, <1>8 DEF IInv


-----------------------------------------------------------------------------
(* IInv is an invariant of the emitted builder code, for every struct. *)
THEOREM IInvHolds == Spec => []IInv
<1>1. Init => IInv
  BY InitIInv
<1>2. IInv /\ [Next]_vars => IInv'
  <2> SUFFICES ASSUME IInv, [Next]_vars PROVE IInv'
    OBVIOUS
  <2>1. CASE UNCHANGED vars
    BY <2>1 DEF vars, IInv, TypeOK, BuildingInv, BuildOutcome
  <2>2. ASSUME NEW h \in Handles,
               \/ New(h)
               \/ \E f \in FieldNames, v \in Values : With(h, f, v)
               \/ \E c \in Handles : CloneBuilder(h, c)
               \/ Build(h)
               \/ BuildStep(h)
               \/ Drop(h)
        PROVE  IInv'
    BY <2>2, NewStep, WithStep, CloneStep, BuildStart, LetOptionalStep,
       LetRequiredStep, MissingFieldStep, BuildOkStep, DropStep DEF BuildStep
  <2>3. QED
    BY <2>1, <2>2 DEF Next
<1>3. QED
  BY <1>1, <1>2, PTL DEF Spec

(* Type correctness of the builder's state: every builder field is None   *)
(* or a value, and every result of build is Ok(struct) or MissingField.   *)
THEOREM TypeCorrect == Spec => []TypeOK
BY IInvHolds, PTL DEF IInv

(* For every struct, every finished call of the generated build returned  *)
(* what spec.md 4.4 prescribes: Ok with set values and defaults for unset *)
(* #[optional] fields, or MissingField naming the first absent required   *)
(* field in declaration order.                                            *)
THEOREM BuildOutcomeHolds == Spec => []BuildOutcome
BY IInvHolds, PTL DEF IInv


-----------------------------------------------------------------------------
(* BuilderSpec's copies of the BuilderDecl operators are the operators of *)
(* BuilderRuntime: both modules extend BuilderDecl over the same constants. *)
LEMMA AbsDecl ==
  /\ Abs!FieldNames = FieldNames
  /\ Abs!EmptyBox = EmptyBox
  /\ \A b : Abs!Expected(b) = Expected(b)
BY DEF Abs!FieldNames, FieldNames, Abs!EmptyBox, EmptyBox, Abs!Expected,
       Expected, Abs!MissingIndices, MissingIndices, Abs!FirstIndex,
       FirstIndex, Abs!Resolve, Resolve, Abs!N, N

(* A build in progress is a live builder to BuilderSpec. *)
LEMMA AbsStatusType ==
  ASSUME TypeOK
  PROVE  AbsStatus \in [Handles -> {"free", "live", "built"}]
BY DEF TypeOK, AbsStatus

(* The step that returns from build is BuilderSpec's atomic Build. *)
LEMMA FinishIsAbsBuild ==
  ASSUME IInv, NEW h \in Handles, MissingFieldReturn(h) \/ BuildOk(h)
  PROVE  Abs!Build(h)
<1>1. IInv'
  BY MissingFieldStep, BuildOkStep
<1>2. /\ status[h] = "building" /\ GenBuild
      /\ status' = [status EXCEPT ![h] = "built"]
      /\ \E r : result' = [result EXCEPT ![h] = r]
      /\ UNCHANGED box
  BY DEF IInv, BuildingInv, MissingFieldReturn, BuildOk
<1>3. result'[h] = Expected(box[h])
  BY <1>1, <1>2 DEF IInv, TypeOK, BuildOutcome
<1>4. result' = [result EXCEPT ![h] = Expected(box[h])]
  BY <1>2, <1>3 DEF IInv, TypeOK
<1>5. AbsStatus[h] = "live" /\ AbsStatus' = [AbsStatus EXCEPT ![h] = "built"]
  BY <1>2 DEF IInv, TypeOK, AbsStatus
<1>6. QED
  BY <1>2, <1>4, <1>5, AbsDecl DEF Abs!Build

(* Every step of the code is a step of BuilderSpec or a stutter of it. *)
LEMMA StepRefines ==
  ASSUME IInv, [Next]_vars
  PROVE  [Abs!Next]_Abs!vars
<1>1. CASE UNCHANGED vars
  BY <1>1 DEF vars, Abs!vars, AbsStatus
<1>2. ASSUME NEW h \in Handles, New(h) PROVE Abs!New(h)
  BY <1>2, AbsDecl DEF IInv, TypeOK, New, Abs!New, AbsStatus
<1>3. ASSUME NEW h \in Handles, NEW f \in FieldNames, NEW v \in Values,
             With(h, f, v)
      PROVE  Abs!With(h, f, v)
  BY <1>3 DEF IInv, TypeOK, With, Abs!With, AbsStatus
<1>4. ASSUME NEW h \in Handles, NEW c \in Handles, CloneBuilder(h, c)
      PROVE  Abs!CloneBuilder(h, c)
  BY <1>4 DEF IInv, TypeOK, CloneBuilder, Abs!CloneBuilder, AbsStatus
<1>5. ASSUME NEW h \in Handles, Build(h) \/ LetOptional(h) \/ LetRequired(h)
      PROVE  UNCHANGED Abs!vars
  BY <1>5 DEF IInv, TypeOK, Build, LetOptional, LetRequired, Abs!vars,
              AbsStatus
<1>6. ASSUME NEW h \in Handles, Drop(h) PROVE Abs!Drop(h)
  BY <1>6, AbsDecl DEF IInv, TypeOK, Drop, Abs!Drop, AbsStatus
<1>7. QED
  BY <1>1, <1>2, <1>3, <1>4, <1>5, <1>6, FinishIsAbsBuild, AbsDecl
     DEF Next, BuildStep, Abs!Next

(* The emitted builder implements BuilderSpec for every struct: the       *)
(* let-by-let build is, step for step, the atomic validating constructor. *)
THEOREM Implements == Spec => Refinement
<1>1. Init => Abs!Init
  BY AbsDecl DEF Init, Abs!Init, AbsStatus
<1>2. IInv /\ [Next]_vars => [Abs!Next]_Abs!vars
  BY StepRefines
<1>3. QED
  BY <1>1, <1>2, IInvHolds, PTL DEF Spec, Refinement, Abs!Spec

=============================================================================
