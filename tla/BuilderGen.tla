------------------------------ MODULE BuilderGen ------------------------------
(***************************************************************************)
(* One expansion of `#[derive(Builder)]`: derive_builder (lib.rs 101-110)  *)
(* calls generate_builder_macro (builder.rs 24-32), which runs             *)
(*   generate_struct_impl   - get_struct_fields, then generate_getters     *)
(*                            over the #[getter] fields,                   *)
(*   generate_builder_struct - the builder name, then one Option field     *)
(*                            and one `with_<f>` setter per field, then,   *)
(*                            under #[gen_build_impl], generate_build_impl *)
(*                            with one `let` per field,                    *)
(* in this order; the first Err ends the expansion with a compile_error!,  *)
(* and an unwrap of a missing field ident or an Ident::new of a string     *)
(* that is not an identifier panics the macro.  Each loop iteration of the *)
(* code is a step here.                                                    *)
(***************************************************************************)
EXTENDS Directives, TypeShape

CONSTANTS
  Decls,     \* the DeriveInputs the expansion may be given
  NoIdent    \* field.ident of a tuple-struct field: None

(* A DeriveInput: data is Data::Struct with named, unnamed or unit fields, *)
(* or Data::Enum / Data::Union.                                            *)
DataKinds == {"named", "tuple", "unit", "enum"}

(* A field of the input: its ident (None for a tuple field), type and     *)
(* attributes.                                                             *)
FieldRecs == [ident : STRING \cup {NoIdent}, ty : TypeValues, attrs : Seq(Attrs)]

(* What syn hands the derive: a named item with its attributes and fields. *)
(* format_ident!("{}Builder", ident) of its name is a string again (true   *)
(* of every TLA+ string; stated because the provers do not know that \o    *)
(* of two strings is one).                                                 *)
ASSUME DeclsAssumption ==
  \A d \in Decls :
    /\ d.ident \in STRING
    /\ d.ident \o "Builder" \in STRING
    /\ d.data \in DataKinds
    /\ d.attrs \in Seq(Attrs)
    /\ d.fields \in Seq(FieldRecs)

VARIABLES
  input,     \* the DeriveInput
  pc,        \* the point the expansion has reached
  i,         \* index of the field the current loop is at
  getters,   \* the getters emitted so far: name and return type
  boxes,     \* the builder's Option fields emitted so far: name and type
  setters,   \* the setter names emitted so far
  bname,     \* the builder name, once computed
  lets,      \* the `let` statements of build emitted so far
  buildImpl, \* TRUE once `impl Build for <builder>` is emitted
  outcome    \* running, or how the expansion ended

vars == <<input, pc, i, getters, boxes, setters, bname, lets, buildImpl, outcome>>

Fields == input.fields

Phases == {"struct_impl", "getters", "setters", "build_impl", "lets",
           "finish", "end"}

(* The error a generation-time Err carries. *)
ErrorKinds == {"not_struct", "no_generic"}

(* Still running, Ok(tokens), a panic, or an Err that derive_builder      *)
(* turns into `compile_error!` tokens.                                     *)
Outcomes == [kind : {"running", "code", "panic"}] \cup
            [kind : {"error"}, err : ErrorKinds]

(* The field types of the declarations, and the getter return types. *)
DeclTypes == UNION {{d.fields[k].ty : k \in DOMAIN d.fields} : d \in Decls}

GetterRets ==
  [kind : {"str"}] \cup [kind : {"slice"}, elem : STRING] \cup
  [kind : {"ref"}, ty : DeclTypes]

GenTypeOK ==
  /\ input \in Decls
  /\ pc \in Phases
  /\ i \in 1..(Len(Fields) + 1)
  /\ getters \in Seq([name : STRING, ret : GetterRets])
  /\ boxes \in Seq([name : STRING, ty : DeclTypes])
  /\ setters \in Seq(STRING)
  /\ bname \in STRING \cup {NoIdent}
  /\ lets \in Seq([name : STRING, optional : BOOLEAN])
  /\ buildImpl \in BOOLEAN
  /\ outcome \in Outcomes

Init ==
  /\ input \in Decls
  /\ pc = "struct_impl"
  /\ i = 1
  /\ getters = <<>>
  /\ boxes = <<>>
  /\ setters = <<>>
  /\ bname = NoIdent
  /\ lets = <<>>
  /\ buildImpl = FALSE
  /\ outcome = [kind |-> "running"]

(* The expansion stops: `?` propagated an Err, or the macro panicked. *)
Stop(o) ==
  /\ pc' = "finish"
  /\ outcome' = o

-----------------------------------------------------------------------------
(* generate_struct_impl's get_struct_fields: Err unless Data::Struct. *)
GetStructFields ==
  /\ pc = "struct_impl"
  /\ IF input.data = "enum"
       THEN Stop([kind |-> "error", err |-> "not_struct"])
       ELSE pc' = "getters" /\ UNCHANGED outcome
  /\ UNCHANGED <<input, i, getters, boxes, setters, bname, lets, buildImpl>>

(* generate_getters, a field without #[getter]: filtered out. *)
GetterSkip ==
  /\ pc = "getters"
  /\ i <= Len(Fields)
  /\ ~has_getter_attr(Fields[i])
  /\ i' = i + 1
  /\ UNCHANGED <<input, pc, getters, boxes, setters, bname, lets, buildImpl, outcome>>

(* Mutant: the getter is emitted for a field whatever its ident, as if   *)
(* `if let Some(name) = field.ident` had replaced the unwrap.             *)
GetterFieldNoUnwrap ==
  LET f == Fields[i]
      r == getter_return(f.ty)
  IN
  /\ pc = "getters"
  /\ i <= Len(Fields)
  /\ has_getter_attr(f)
  /\ \/ /\ ~r.ok
        /\ Stop([kind |-> "error", err |-> "no_generic"])
        /\ UNCHANGED getters
     \/ /\ r.ok
        /\ getters' = Append(getters, [name |-> f.ident, ret |-> r.ret])
        /\ UNCHANGED <<pc, outcome>>
  /\ i' = i + 1
  /\ UNCHANGED <<input, boxes, setters, bname, lets, buildImpl>>

(* generate_getters, a #[getter] field: `field.ident.clone().unwrap()`     *)
(* panics on a tuple field; otherwise the getter is emitted, or the Err    *)
(* of extract_type_from_generic ends the expansion.                        *)
GetterField ==
  LET f == Fields[i]
      r == getter_return(f.ty)
  IN
  /\ pc = "getters"
  /\ i <= Len(Fields)
  /\ has_getter_attr(f)
  /\ \/ /\ f.ident = NoIdent
        /\ Stop([kind |-> "panic"])
        /\ UNCHANGED getters
     \/ /\ f.ident # NoIdent
        /\ ~r.ok
        /\ Stop([kind |-> "error", err |-> "no_generic"])
        /\ UNCHANGED getters
     \/ /\ f.ident # NoIdent
        /\ r.ok
        /\ getters' = Append(getters, [name |-> f.ident, ret |-> r.ret])
        /\ UNCHANGED <<pc, outcome>>
  /\ i' = i + 1
  /\ UNCHANGED <<input, boxes, setters, bname, lets, buildImpl>>

(* generate_struct_impl returns; generate_builder_struct computes the      *)
(* builder name (generate_builder_name may panic in Ident::new).           *)
BuilderName ==
  LET n == generate_builder_name(input.ident, input.attrs) IN
  /\ pc = "getters"
  /\ i = Len(Fields) + 1
  /\ IF n.kind = "panic"
       THEN Stop([kind |-> "panic"]) /\ UNCHANGED bname
       ELSE bname' = n.name /\ pc' = "setters" /\ UNCHANGED outcome
  /\ i' = 1
  /\ UNCHANGED <<input, getters, boxes, setters, lets, buildImpl>>

(* Mutant: the setter loop iterates the #[getter] fields only (the filter *)
(* of generate_getters copied into generate_builder_struct).              *)
SetterFieldGettersOnly ==
  LET f == Fields[i] IN
  /\ pc = "setters"
  /\ i <= Len(Fields)
  /\ IF ~has_getter_attr(f)
       THEN UNCHANGED <<pc, outcome, setters, boxes>>
       ELSE IF f.ident = NoIdent \/ ("with_" \o f.ident) \notin IdentStrings
       THEN Stop([kind |-> "panic"]) /\ UNCHANGED <<setters, boxes>>
       ELSE /\ setters' = Append(setters, "with_" \o f.ident)
            /\ boxes' = Append(boxes, [name |-> f.ident, ty |-> f.ty])
            /\ UNCHANGED <<pc, outcome>>
  /\ i' = i + 1
  /\ UNCHANGED <<input, getters, bname, lets, buildImpl>>

(* generate_builder_struct, one field: the unwrap of its ident, then       *)
(* Ident::new(&format!("with_{}", ident)), then the setter and the         *)
(* `f: Option<T>` field are pushed.                                        *)
SetterField ==
  LET f == Fields[i] IN
  /\ pc = "setters"
  /\ i <= Len(Fields)
  /\ IF f.ident = NoIdent \/ ("with_" \o f.ident) \notin IdentStrings
       THEN Stop([kind |-> "panic"]) /\ UNCHANGED <<setters, boxes>>
       ELSE /\ setters' = Append(setters, "with_" \o f.ident)
            /\ boxes' = Append(boxes, [name |-> f.ident, ty |-> f.ty])
            /\ UNCHANGED <<pc, outcome>>
  /\ i' = i + 1
  /\ UNCHANGED <<input, getters, bname, lets, buildImpl>>

(* After the loop: the build impl only under #[gen_build_impl]. *)
SettersDone ==
  /\ pc = "setters"
  /\ i = Len(Fields) + 1
  /\ pc' = IF has_gen_build_fn_attr(input.attrs) THEN "build_impl" ELSE "finish"
  /\ outcome' = IF has_gen_build_fn_attr(input.attrs) THEN outcome ELSE [kind |-> "code"]
  /\ UNCHANGED <<input, i, getters, boxes, setters, bname, lets, buildImpl>>

(* generate_build_impl: the builder name and the fields once more; both    *)
(* succeeded in generate_builder_struct, so neither fails now.             *)
BuildImpl ==
  /\ pc = "build_impl"
  /\ pc' = "lets"
  /\ i' = 1
  /\ bname' = generate_builder_name(input.ident, input.attrs).name
  /\ buildImpl' = TRUE
  /\ UNCHANGED <<input, getters, boxes, setters, lets, outcome>>

(* Mutant: the `let` of a field is chosen by has_getter_attr. *)
LetStmtGetterFlag ==
  /\ pc = "lets"
  /\ i <= Len(Fields)
  /\ lets' = Append(lets, [name |-> Fields[i].ident,
                           optional |-> has_getter_attr(Fields[i])])
  /\ i' = i + 1
  /\ UNCHANGED <<input, pc, getters, boxes, setters, bname, buildImpl, outcome>>

(* generate_build_impl, one field: unwrap_or_default() under #[optional],  *)
(* ok_or_else(MissingField)? otherwise.                                    *)
LetStmt ==
  /\ pc = "lets"
  /\ i <= Len(Fields)
  /\ lets' = Append(lets, [name |-> Fields[i].ident,
                           optional |-> has_optional_attr(Fields[i])])
  /\ i' = i + 1
  /\ UNCHANGED <<input, pc, getters, boxes, setters, bname, buildImpl, outcome>>

(* The loop of generate_build_impl is done: Ok(impl Build ...). *)
LetsDone ==
  /\ pc = "lets"
  /\ i = Len(Fields) + 1
  /\ pc' = "finish"
  /\ outcome' = [kind |-> "code"]
  /\ UNCHANGED <<input, i, getters, boxes, setters, bname, lets, buildImpl>>

(* derive_builder: Ok tokens become the expansion, an Err becomes          *)
(* `compile_error!` tokens (err.to_compile_error()); after a panic rustc   *)
(* reports that the derive panicked.                                       *)
DeriveBuilder ==
  /\ pc = "finish"
  /\ pc' = "end"
  /\ UNCHANGED <<input, i, getters, boxes, setters, bname, lets, buildImpl, outcome>>

Next ==
  \/ GetStructFields
  \/ GetterSkip
  \/ GetterField
  \/ BuilderName
  \/ SetterField
  \/ SettersDone
  \/ BuildImpl
  \/ LetStmt
  \/ LetsDone
  \/ DeriveBuilder

Spec == Init /\ [][Next]_vars

-----------------------------------------------------------------------------
(***************************************************************************)
(* What the spec prescribes, written from spec.md 3-4 and 8 over the type  *)
(* descriptors: the text type is String and the sequence type Vec<T>,      *)
(* named by the last segment of the path (std::vec::Vec<T> is Vec<T>).     *)
(***************************************************************************)
LastSegment(ty) == ty.segs[Len(ty.segs)]

IsTextType(ty) ==
  ty.kind = "path" /\ ty.segs # <<>> /\ LastSegment(ty).ident = "String"

IsSeqType(ty) ==
  ty.kind = "path" /\ ty.segs # <<>> /\ LastSegment(ty).ident = "Vec"

(* Exactly one generic slot, and it holds a type. *)
SeqParamOK(ty) ==
  LET a == LastSegment(ty).args IN
  a.form = "angle" /\ Len(a.list) = 1 /\ a.list[1].kind = "type"

Exposed == SelectSeq(Fields, has_getter_attr)

(* The expansion produced code. *)
Emitted == pc = "end" /\ outcome.kind = "code"

(* Companion type of generate_builder_struct (spec.md 4.3 items 2 and 4,   *)
(* 8 first item): when code is emitted, the builder has exactly one        *)
(* Option field per struct field and one with_<field> setter per field,    *)
(* in declaration order and with the declared types.                       *)
CompanionMirrorsFields ==
  Emitted =>
    /\ Len(boxes) = Len(Fields)
    /\ Len(setters) = Len(Fields)
    /\ \A k \in 1..Len(Fields) :
         /\ boxes[k] = [name |-> Fields[k].ident, ty |-> Fields[k].ty]
         /\ setters[k] = "with_" \o Fields[k].ident

(* Accessors of generate_getters (spec.md 4.2): when code is emitted,      *)
(* there is one getter per #[getter] field, in order and named after it,   *)
(* it returns &str exactly for a text field and a plain reference exactly  *)
(* for a field that is neither text nor a sequence.                        *)
AccessorsMatchExposed ==
  Emitted =>
    /\ Len(getters) = Len(Exposed)
    /\ \A k \in 1..Len(Exposed) :
         /\ getters[k].name = Exposed[k].ident
         /\ (getters[k].ret.kind = "str") = IsTextType(Exposed[k].ty)
         /\ (getters[k].ret = [kind |-> "ref", ty |-> Exposed[k].ty])
              = (~IsTextType(Exposed[k].ty) /\ ~IsSeqType(Exposed[k].ty))

(* Construction validator of generate_build_impl (spec.md 4.4, 8 scenario  *)
(* 4): `impl Build` is emitted exactly under #[gen_build_impl], and then   *)
(* with one `let` per field in declaration order, unwrap_or_default        *)
(* exactly for the #[optional] fields.                                     *)
ValidatorIffDirective ==
  Emitted =>
    /\ buildImpl = has_gen_build_fn_attr(input.attrs)
    /\ lets = IF buildImpl
                THEN [k \in 1..Len(Fields) |->
                        [name |-> Fields[k].ident,
                         optional |-> has_optional_attr(Fields[k])]]
                ELSE <<>>

(* Builder name of generate_builder_name (spec.md 4.3 item 1, 8): when the *)
(* builder_name attributes are all `= "<name>"`, the builder is named      *)
(* verbatim after the first of them, and <Struct>Builder when there is     *)
(* none.                                                                   *)
BuilderNameRule ==
  LET custom == {k \in DOMAIN input.attrs : input.attrs[k].name = "builder_name"}
  IN  (Emitted /\ \A k \in custom : input.attrs[k].form = "nv_str") =>
        bname = IF custom = {}
                  THEN input.ident \o "Builder"
                  ELSE input.attrs[CHOOSE m \in custom : \A j \in custom : m <= j].lit

(***************************************************************************)
(* The outcome of the whole expansion as a function of the declaration:    *)
(* the first failure in the order generate_builder_macro meets them.       *)
(***************************************************************************)
(* The least element of a set of field indices: the loops run in          *)
(* declaration order.                                                      *)
FirstOf(S) == CHOOSE k \in S : \A j \in S : k <= j

(* The #[getter] fields at which generate_getters stops: the unwrap of a  *)
(* missing ident, or the Err of extract_type_from_generic.                 *)
GetterFails(d) ==
  {k \in 1..Len(d.fields) :
     /\ has_getter_attr(d.fields[k])
     /\ d.fields[k].ident = NoIdent \/ getter_return(d.fields[k].ty).ok = FALSE}

(* The fields at which the setter loop of generate_builder_struct panics. *)
SetterFails(d) ==
  {k \in 1..Len(d.fields) :
     d.fields[k].ident = NoIdent \/ ("with_" \o d.fields[k].ident) \notin IdentStrings}

(* generate_builder_macro on declaration d: get_struct_fields, then the    *)
(* first failing #[getter] field (a panic without an ident, else an Err),  *)
(* then generate_builder_name, then the setter names, else code.           *)
ExpectedOutcome(d) ==
  IF d.data = "enum" THEN [kind |-> "error", err |-> "not_struct"]
  ELSE IF GetterFails(d) # {}
    THEN IF d.fields[FirstOf(GetterFails(d))].ident = NoIdent
           THEN [kind |-> "panic"]
           ELSE [kind |-> "error", err |-> "no_generic"]
  ELSE IF generate_builder_name(d.ident, d.attrs).kind = "panic" THEN [kind |-> "panic"]
  ELSE IF SetterFails(d) # {} THEN [kind |-> "panic"]
  ELSE [kind |-> "code"]

(* The refinement mapping: the expansion has a result once derive_builder *)
(* has returned, and that result is how the generator ended.               *)
GenResult == IF pc = "end" THEN outcome ELSE [kind |-> "pending"]

GenAbs == INSTANCE BuilderGenSpec WITH result <- GenResult, Outcome <- ExpectedOutcome

(* The loops of generate_builder_macro implement the one-step expansion of *)
(* BuilderGenSpec: the expansion ends with exactly the outcome that the    *)
(* declaration determines, the first failure in the code's order (not a    *)
(* struct, then the first failing #[getter] field, then the builder name,  *)
(* then a setter name), and with code only when there is none.             *)
GenRefinement == GenAbs!Spec

-----------------------------------------------------------------------------
(* Generation-time errors are diagnostics (spec.md 7): no input makes the  *)
(* macro panic.  Checked against the unwraps of field.ident (builder.rs    *)
(* 51, 103, 149) and the Ident::new calls (55, 293).                       *)
NoPanic == pc = "end" => outcome.kind # "panic"

(* A custom-name directive without a string literal fails with            *)
(* MalformedDirectiveArgument (spec.md 4.1): an expansion that does not    *)
(* panic ends with an error.  Checked against extract_builder_name, which  *)
(* returns None for it (builder.rs 286-296).                               *)
MalformedNameRejected ==
  (pc = "end" /\ outcome.kind # "panic" /\ \E k \in DOMAIN input.attrs :
                   input.attrs[k].name = "builder_name" /\ input.attrs[k].form # "nv_str")
    => outcome.kind = "error"

(* The UnrecognizedGenericShape rule (spec.md 4.2): an expansion that ends *)
(* with code or with an error fails on the getters exactly when an         *)
(* exposed sequence field has not exactly one type parameter.  Checked     *)
(* against is_vec (any segment, builder.rs 209) and                        *)
(* extract_type_from_generic (first segment, first argument, 217, 235).    *)
SequenceAccessorRule ==
  (pc = "end" /\ outcome.kind \in {"code", "error"})
    => ((outcome = [kind |-> "error", err |-> "no_generic"])
          = \E k \in 1..Len(Exposed) : IsSeqType(Exposed[k].ty) /\ ~SeqParamOK(Exposed[k].ty))

=============================================================================
