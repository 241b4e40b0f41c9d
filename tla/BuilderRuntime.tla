---------------------------- MODULE BuilderRuntime ----------------------------
(***************************************************************************)
(* The run-time behaviour of the code that `#[derive(Builder)]` emits for  *)
(* one struct (src/transact_derive/src/builder.rs):                        *)
(*                                                                         *)
(*   #[derive(Default, Clone)] pub struct <Name>Builder {                  *)
(*       f: Option<T>, ... }                          (lines 66-68, 77-81) *)
(*   pub fn new() -> Self { <Name>Builder::default() }      (lines 84-86)  *)
(*   pub fn with_f(mut self, value: T) -> Self                             *)
(*       { self.f = Some(value); self }                     (lines 59-64)  *)
(*   impl Build for <Name>Builder { fn build(self) -> Result<..> {         *)
(*       let f = self.f.unwrap_or_default();             (#[optional])     *)
(*       let g = self.g.ok_or_else(|| MissingField("g"))?;  (otherwise)    *)
(*       ...  Ok(<Name> { f, g, ... }) } }                 (lines 95-131)  *)
(*                                                                         *)
(* A handle is one builder value of the program.  A setter consumes the    *)
(* builder and returns it, so the handle carries on; `build(self)` moves   *)
(* the builder into the function, which runs one `let` per field in        *)
(* declaration order and either returns early with MissingField or         *)
(* assembles the struct from the bound locals.                             *)
(***************************************************************************)
EXTENDS BuilderDecl

VARIABLES
  status,   \* "free" (no value), "live", "building" (inside build) or "built"
  box,      \* the builder's Option fields
  pos,      \* index of the next `let` statement of a build in progress
  local,    \* the locals bound by the `let` statements run so far
  result    \* what build returned, None before it returned

vars == <<status, box, pos, local, result>>

TypeOK ==
  /\ status \in [Handles -> {"free", "live", "building", "built"}]
  /\ box \in [Handles -> [FieldNames -> Boxed]]
  /\ pos \in [Handles -> 1..(N + 1)]
  /\ local \in [Handles -> [FieldNames -> Boxed]]
  /\ result \in [Handles -> Results \cup {None}]

Init ==
  /\ status = [h \in Handles |-> "free"]
  /\ box = [h \in Handles |-> EmptyBox]
  /\ pos = [h \in Handles |-> 1]
  /\ local = [h \in Handles |-> EmptyBox]
  /\ result = [h \in Handles |-> None]

-----------------------------------------------------------------------------
(* `<Name>Builder::new()`, i.e. `<Name>Builder::default()`. *)
New(h) ==
  /\ status[h] = "free"
  /\ status' = [status EXCEPT ![h] = "live"]
  /\ box' = [box EXCEPT ![h] = EmptyBox]
  /\ UNCHANGED <<pos, local, result>>

(* `with_f(mut self, value)`: sets f to Some(value) and returns self.      *)
With(h, f, v) ==
  /\ status[h] = "live"
  /\ box' = [box EXCEPT ![h][f] = v]
  /\ UNCHANGED <<status, pos, local, result>>

(* `builder.clone()` from #[derive(Clone)]: a second builder, field-wise   *)
(* a copy of the first.                                                    *)
CloneBuilder(h, c) ==
  /\ status[h] = "live"
  /\ status[c] = "free"
  /\ status' = [status EXCEPT ![c] = "live"]
  /\ box' = [box EXCEPT ![c] = box[h]]
  /\ UNCHANGED <<pos, local, result>>

(* Mutant: the first `let` is looked up at index 0. *)
BuildFromZero(h) ==
  /\ GenBuild
  /\ status[h] = "live"
  /\ status' = [status EXCEPT ![h] = "building"]
  /\ pos' = [pos EXCEPT ![h] = 0]
  /\ local' = [local EXCEPT ![h] = EmptyBox]
  /\ UNCHANGED <<box, result>>

(* `builder.build()`: only emitted under #[gen_build_impl]; moves the      *)
(* builder into the function before its first `let`.                       *)
Build(h) ==
  /\ GenBuild
  /\ status[h] = "live"
  /\ status' = [status EXCEPT ![h] = "building"]
  /\ pos' = [pos EXCEPT ![h] = 1]
  /\ local' = [local EXCEPT ![h] = EmptyBox]
  /\ UNCHANGED <<box, result>>

(* `let f = self.f.unwrap_or_default();` for an #[optional] field. *)
LetOptional(h) ==
  LET f == FieldSeq[pos[h]] IN
  /\ status[h] = "building"
  /\ pos[h] <= N
  /\ f \in Optional
  /\ local' = [local EXCEPT ![h][f] =
                 IF box[h][f] = None THEN DefaultOf[f] ELSE box[h][f]]
  /\ pos' = [pos EXCEPT ![h] = pos[h] + 1]
  /\ UNCHANGED <<status, box, result>>

(* `let f = self.f.ok_or_else(..)?;` for a required field that is Some. *)
LetRequired(h) ==
  LET f == FieldSeq[pos[h]] IN
  /\ status[h] = "building"
  /\ pos[h] <= N
  /\ f \notin Optional
  /\ box[h][f] # None
  /\ local' = [local EXCEPT ![h][f] = box[h][f]]
  /\ pos' = [pos EXCEPT ![h] = pos[h] + 1]
  /\ UNCHANGED <<status, box, result>>

(* Mutant: the early return is also taken for an absent #[optional]     *)
(* field (the has_optional_attr test dropped from the error branch).     *)
MissingFieldReturnAnyField(h) ==
  LET f == FieldSeq[pos[h]] IN
  /\ status[h] = "building"
  /\ pos[h] <= N
  /\ box[h][f] = None
  /\ status' = [status EXCEPT ![h] = "built"]
  /\ result' = [result EXCEPT ![h] = [kind |-> "MissingField", field |-> f]]
  /\ UNCHANGED <<box, pos, local>>

(* The same `let` when the field is None: `?` returns                      *)
(* Err(BuilderError::MissingField("f")) at once.                           *)
MissingFieldReturn(h) ==
  LET f == FieldSeq[pos[h]] IN
  /\ status[h] = "building"
  /\ pos[h] <= N
  /\ f \notin Optional
  /\ box[h][f] = None
  /\ status' = [status EXCEPT ![h] = "built"]
  /\ result' = [result EXCEPT ![h] = [kind |-> "MissingField", field |-> f]]
  /\ UNCHANGED <<box, pos, local>>

(* `Ok(<Name> { f, g, ... })` after the last `let`. *)
BuildOk(h) ==
  /\ status[h] = "building"
  /\ pos[h] = N + 1
  /\ status' = [status EXCEPT ![h] = "built"]
  /\ result' = [result EXCEPT ![h] = [kind |-> "Ok", value |-> local[h]]]
  /\ UNCHANGED <<box, pos, local>>

(* The program drops a builder or the Result of its build; the handle can  *)
(* hold a new builder afterwards.                                          *)
Drop(h) ==
  /\ status[h] \in {"live", "built"}
  /\ status' = [status EXCEPT ![h] = "free"]
  /\ box' = [box EXCEPT ![h] = EmptyBox]
  /\ pos' = [pos EXCEPT ![h] = 1]
  /\ local' = [local EXCEPT ![h] = EmptyBox]
  /\ result' = [result EXCEPT ![h] = None]

(* The steps of one call of build, run to completion by the thread that   *)
(* called it.                                                              *)
BuildStep(h) ==
  \/ LetOptional(h)
  \/ LetRequired(h)
  \/ MissingFieldReturn(h)
  \/ BuildOk(h)

Next ==
  \E h \in Handles :
    \/ New(h)
    \/ \E f \in FieldNames, v \in Values : With(h, f, v)
    \/ \E c \in Handles : CloneBuilder(h, c)
    \/ Build(h)
    \/ BuildStep(h)
    \/ Drop(h)

Spec == Init /\ [][Next]_vars

-----------------------------------------------------------------------------
(* Safety of the generated build (builder.rs 102-129): every finished      *)
(* build returned exactly the result the spec prescribes for the builder   *)
(* it consumed: fail-fast on the first missing field in declared order,    *)
(* defaults only for #[optional] fields, set values carried over as set.   *)
BuildOutcome ==
  \A h \in Handles : status[h] = "built" => result[h] = Expected(box[h])


(***************************************************************************)
(* Refinement: a build in progress is, to BuilderSpec, a builder that is   *)
(* still live; its `let` steps are stutters and the step that returns is   *)
(* BuilderSpec's atomic Build.                                             *)
(***************************************************************************)
AbsStatus == [h \in Handles |-> IF status[h] = "building" THEN "live" ELSE status[h]]

Abs == INSTANCE BuilderSpec WITH status <- AbsStatus

(* The emitted builder, setters and build implement the abstract builder:  *)
(* each step of the code is a step of BuilderSpec or leaves it unchanged.  *)
Refinement == Abs!Spec

=============================================================================
