--------------------------- MODULE BuilderGen_proofs ---------------------------
(***************************************************************************)
(* Proofs that every expansion of #[derive(Builder)] that emits code emits *)
(* the companion type (CompanionMirrorsFields), the build impl            *)
(* (ValidatorIffDirective) and the builder name (BuilderNameRule) the spec *)
(* prescribes, for every declaration syn can hand the derive.              *)
(*                                                                         *)
(* The loops of generate_builder_struct and generate_build_impl build the  *)
(* emitted sequences one field at a time; the inductive invariant GenInv   *)
(* says that, at each point of the expansion, they hold exactly the rows   *)
(* of the fields the loop has passed.                                      *)
(***************************************************************************)
EXTENDS BuilderGen, SequenceTheorems, WellFoundedInduction, TLAPS

(* The row each loop emits for field k. *)
BoxRow == [k \in 1..Len(Fields) |-> [name |-> Fields[k].ident, ty |-> Fields[k].ty]]

SetterRow == [k \in 1..Len(Fields) |-> "with_" \o Fields[k].ident]

LetRow == [k \in 1..Len(Fields) |->
             [name |-> Fields[k].ident, optional |-> has_optional_attr(Fields[k])]]

(* The first n rows of a row function. *)
UpTo(row, n) == [k \in 1..n |-> row[k]]

(* The phases before derive_builder sees the outcome. *)
Mid == {"struct_impl", "getters", "setters", "build_impl", "lets"}

(* The inductive invariant: what the loops have emitted at each phase. *)
GenInv ==
  /\ input \in Decls
  /\ pc \in Phases
  /\ i \in 1..(Len(Fields) + 1)
  /\ buildImpl \in BOOLEAN
  /\ pc \in Mid => outcome = [kind |-> "running"]
  /\ pc \in {"struct_impl", "getters"} => boxes = <<>> /\ setters = <<>>
  /\ pc = "setters" => boxes = UpTo(BoxRow, i - 1) /\ setters = UpTo(SetterRow, i - 1)
  /\ (pc \in {"build_impl", "lets"} \/ outcome.kind = "code") =>
        /\ boxes = UpTo(BoxRow, Len(Fields))
        /\ setters = UpTo(SetterRow, Len(Fields))
  /\ pc \in {"struct_impl", "getters", "setters", "build_impl"} =>
        lets = <<>> /\ buildImpl = FALSE
  /\ pc = "build_impl" => has_gen_build_fn_attr(input.attrs)
  /\ pc = "lets" =>
        /\ lets = UpTo(LetRow, i - 1)
        /\ buildImpl = TRUE
        /\ has_gen_build_fn_attr(input.attrs)
  /\ outcome.kind = "code" =>
        /\ buildImpl = has_gen_build_fn_attr(input.attrs)
        /\ lets = IF buildImpl = TRUE THEN UpTo(LetRow, Len(Fields)) ELSE <<>>

-----------------------------------------------------------------------------
(* The fields of the input are a sequence of field records. *)
LEMMA FieldsType ==
  ASSUME input \in Decls
  PROVE  /\ Fields \in Seq(FieldRecs)
         /\ Len(Fields) \in Nat
BY DeclsAssumption DEF Fields

(* No rows yet. *)
LEMMA UpToZero ==
  ASSUME NEW row
  PROVE  UpTo(row, 0) = <<>>
BY DEF UpTo

(* One more iteration of a loop appends the row of the next field. *)
LEMMA UpToAppend ==
  ASSUME NEW m \in Nat, NEW row, DOMAIN row = 1..m, NEW n \in 0..(m - 1)
  PROVE  Append(UpTo(row, n), row[n + 1]) = UpTo(row, n + 1)
<1> DEFINE S == {row[k] : k \in 1..m}
<1>1. UpTo(row, n) \in Seq(S)
  BY DEF UpTo
<1>2. row[n + 1] \in S
  OBVIOUS
<1>3. /\ Append(UpTo(row, n), row[n + 1]) \in Seq(S)
      /\ Len(Append(UpTo(row, n), row[n + 1])) = n + 1
      /\ \A k \in 1..n : Append(UpTo(row, n), row[n + 1])[k] = row[k]
      /\ Append(UpTo(row, n), row[n + 1])[n + 1] = row[n + 1]
  BY <1>1, <1>2, AppendProperties DEF UpTo
<1> QED
  BY <1>3 DEF UpTo

(* Every action leaves the input, hence the rows, as they are. *)
LEMMA RowsFixed ==
  ASSUME input' = input
  PROVE  /\ Fields' = Fields
         /\ BoxRow' = BoxRow
         /\ SetterRow' = SetterRow
         /\ LetRow' = LetRow
BY DEF Fields, BoxRow, SetterRow, LetRow

(* Each row function is defined on the field indices. *)
LEMMA RowDomains ==
  ASSUME input \in Decls
  PROVE  /\ DOMAIN BoxRow = 1..Len(Fields)
         /\ DOMAIN SetterRow = 1..Len(Fields)
         /\ DOMAIN LetRow = 1..Len(Fields)
BY DEF BoxRow, SetterRow, LetRow

(* An expansion starts with nothing emitted. *)
LEMMA InitGenInv == Init => GenInv
<1> SUFFICES ASSUME Init PROVE GenInv
  OBVIOUS
<1>1. input \in Decls /\ Len(Fields) \in Nat
  BY FieldsType DEF Init
<1>2. buildImpl = FALSE /\ buildImpl \in BOOLEAN
  BY DEF Init
<1>3. /\ pc = "struct_impl" /\ i = 1 /\ boxes = <<>> /\ setters = <<>> /\ lets = <<>>
      /\ outcome = [kind |-> "running"]
  BY DEF Init
<1> QED
  BY <1>1, <1>2, <1>3 DEF GenInv, Phases, Mid

(* Each action of the expansion preserves GenInv. *)
LEMMA GenStep ==
  ASSUME GenInv, [Next]_vars
  PROVE  GenInv'
<1> USE DEF GenInv
<1>0. /\ input' = input
      /\ Fields \in Seq(FieldRecs)
      /\ Len(Fields) \in Nat
      /\ DOMAIN BoxRow = 1..Len(Fields)
      /\ DOMAIN SetterRow = 1..Len(Fields)
      /\ DOMAIN LetRow = 1..Len(Fields)
      /\ has_gen_build_fn_attr(input.attrs) \in BOOLEAN
  BY FieldsType, RowDomains DEF has_gen_build_fn_attr, Next, vars, GetStructFields, GetterSkip, GetterField,
     BuilderName, SetterField, SettersDone, BuildImpl, LetStmt, LetsDone, DeriveBuilder
<1>1. /\ Fields' = Fields
      /\ BoxRow' = BoxRow
      /\ SetterRow' = SetterRow
      /\ LetRow' = LetRow
  BY <1>0, RowsFixed
<1>2. CASE GetStructFields
  BY <1>0, <1>1, <1>2 DEF GetStructFields, Stop, Phases, Mid
<1>3. CASE GetterSkip
  BY <1>0, <1>1, <1>3 DEF GetterSkip, Phases, Mid
<1>4. CASE GetterField
  BY <1>0, <1>1, <1>4 DEF GetterField, Stop, Phases, Mid
<1>5. CASE BuilderName
  BY <1>0, <1>1, <1>5, UpToZero DEF BuilderName, Stop, Phases, Mid
<1>6. CASE SetterField
  <2>1. CASE Fields[i].ident = NoIdent \/ ("with_" \o Fields[i].ident) \notin IdentStrings
    BY <1>0, <1>1, <1>6, <2>1 DEF SetterField, Stop, Phases, Mid
  <2>2. CASE ~(Fields[i].ident = NoIdent \/ ("with_" \o Fields[i].ident) \notin IdentStrings)
    <3>0. pc = "setters" /\ i \in 1..Len(Fields)
      BY <1>0, <1>6 DEF SetterField
    <3>1. /\ pc = "setters"
          /\ i \in 1..Len(Fields)
          /\ boxes' = Append(boxes, BoxRow[i])
          /\ setters' = Append(setters, SetterRow[i])
          /\ i' = i + 1
          /\ UNCHANGED <<pc, outcome, lets, buildImpl>>
      BY <3>0, <1>6, <2>2 DEF SetterField, BoxRow, SetterRow
    <3>2. /\ boxes' = UpTo(BoxRow, i)
          /\ setters' = UpTo(SetterRow, i)
      BY <1>0, <3>1, UpToAppend
    <3> QED
      BY <1>0, <1>1, <3>1, <3>2 DEF Phases, Mid
  <2> QED
    BY <2>1, <2>2
<1>7. CASE SettersDone
  <2>1. /\ pc = "setters"
        /\ i = Len(Fields) + 1
        /\ boxes = UpTo(BoxRow, Len(Fields))
        /\ setters = UpTo(SetterRow, Len(Fields))
        /\ lets = <<>>
        /\ buildImpl = FALSE
        /\ UNCHANGED <<i, boxes, setters, lets, buildImpl>>
    BY <1>7 DEF SettersDone
  <2>2. CASE has_gen_build_fn_attr(input.attrs)
    <3>1. pc' = "build_impl" /\ outcome' = outcome /\ outcome = [kind |-> "running"]
      BY <1>7, <2>1, <2>2 DEF SettersDone, Mid
    <3> QED
      BY <1>0, <1>1, <2>1, <2>2, <3>1 DEF Phases, Mid
  <2>3. CASE ~has_gen_build_fn_attr(input.attrs)
    <3>1. pc' = "finish" /\ outcome' = [kind |-> "code"]
      BY <1>7, <2>3 DEF SettersDone
    <3>2. /\ buildImpl' = has_gen_build_fn_attr(input'.attrs)
          /\ lets' = IF buildImpl' = TRUE THEN UpTo(LetRow', Len(Fields')) ELSE <<>>
      BY <1>0, <2>1, <2>3
    <3> QED
      BY <1>0, <1>1, <2>1, <3>1, <3>2 DEF Phases, Mid
  <2> QED
    BY <2>2, <2>3
<1>8. CASE BuildImpl
  <2>1. /\ pc = "build_impl"
        /\ has_gen_build_fn_attr(input.attrs)
        /\ boxes = UpTo(BoxRow, Len(Fields))
        /\ setters = UpTo(SetterRow, Len(Fields))
        /\ lets = <<>>
        /\ outcome = [kind |-> "running"]
        /\ pc' = "lets" /\ i' = 1 /\ buildImpl' = TRUE
        /\ UNCHANGED <<boxes, setters, lets, outcome>>
    BY <1>8 DEF BuildImpl, Mid
  <2>2. lets' = UpTo(LetRow, i' - 1)
    BY <2>1, UpToZero
  <2> QED
    BY <1>0, <1>1, <2>1, <2>2 DEF Phases, Mid
<1>9. CASE LetStmt
  <2>0. pc = "lets" /\ i \in 1..Len(Fields)
    BY <1>0, <1>9 DEF LetStmt
  <2>1. /\ pc = "lets"
        /\ i \in 1..Len(Fields)
        /\ lets' = Append(lets, LetRow[i])
        /\ i' = i + 1
        /\ UNCHANGED <<pc, outcome, boxes, setters, buildImpl>>
    BY <2>0, <1>9 DEF LetStmt, LetRow
  <2>2. lets' = UpTo(LetRow, i)
    <3>1. lets = UpTo(LetRow, i - 1)
      BY <2>1
    <3>2. Append(UpTo(LetRow, i - 1), LetRow[(i - 1) + 1]) = UpTo(LetRow, (i - 1) + 1)
      BY <1>0, <2>1, UpToAppend
    <3> QED
      BY <2>1, <3>1, <3>2
  <2>3. buildImpl' = TRUE /\ has_gen_build_fn_attr(input'.attrs)
    BY <1>0, <2>1
  <2>4. /\ pc' = "lets"
        /\ i' \in 1..(Len(Fields') + 1)
        /\ lets' = UpTo(LetRow', i' - 1)
        /\ outcome' = [kind |-> "running"]
        /\ boxes' = UpTo(BoxRow', Len(Fields'))
        /\ setters' = UpTo(SetterRow', Len(Fields'))
    BY <1>0, <1>1, <2>1, <2>2 DEF Mid
  <2> QED
    BY <1>0, <2>3, <2>4 DEF Phases, Mid
<1>10. CASE LetsDone
  <2>1. /\ pc = "lets"
        /\ i = Len(Fields) + 1
        /\ lets = UpTo(LetRow, Len(Fields))
        /\ buildImpl = TRUE
        /\ has_gen_build_fn_attr(input.attrs)
        /\ boxes = UpTo(BoxRow, Len(Fields))
        /\ setters = UpTo(SetterRow, Len(Fields))
        /\ pc' = "finish" /\ outcome' = [kind |-> "code"]
        /\ UNCHANGED <<i, boxes, setters, lets, buildImpl>>
    BY <1>10 DEF LetsDone
  <2> QED
    BY <1>0, <1>1, <2>1 DEF Phases, Mid
<1>11. CASE DeriveBuilder
  BY <1>0, <1>1, <1>11 DEF DeriveBuilder, Phases, Mid
<1>12. CASE UNCHANGED vars
  BY <1>0, <1>1, <1>12 DEF vars
<1> QED
  BY <1>2, <1>3, <1>4, <1>5, <1>6, <1>7, <1>8, <1>9, <1>10, <1>11, <1>12 DEF Next

(* GenInv holds in every state of every expansion. *)
THEOREM GenInvHolds == Spec => []GenInv
BY InitGenInv, GenStep, PTL DEF Spec

(* Once code is emitted, the setter loop has run over every field. *)
LEMMA InvImpliesCompanion == GenInv => CompanionMirrorsFields
<1> SUFFICES ASSUME GenInv, Emitted
             PROVE  /\ Len(boxes) = Len(Fields)
                    /\ Len(setters) = Len(Fields)
                    /\ \A k \in 1..Len(Fields) :
                         /\ boxes[k] = [name |-> Fields[k].ident, ty |-> Fields[k].ty]
                         /\ setters[k] = "with_" \o Fields[k].ident
  BY DEF CompanionMirrorsFields
<1>1. Len(Fields) \in Nat
  BY FieldsType DEF GenInv
<1>2. boxes = UpTo(BoxRow, Len(Fields)) /\ setters = UpTo(SetterRow, Len(Fields))
  BY DEF GenInv, Emitted
<1> QED
  BY <1>1, <1>2 DEF UpTo, BoxRow, SetterRow

(* Once code is emitted, the let loop ran over every field, or not at all. *)
LEMMA InvImpliesValidator == GenInv => ValidatorIffDirective
<1> SUFFICES ASSUME GenInv, Emitted
             PROVE  /\ buildImpl = has_gen_build_fn_attr(input.attrs)
                    /\ lets = IF buildImpl
                                THEN [k \in 1..Len(Fields) |->
                                        [name |-> Fields[k].ident,
                                         optional |-> has_optional_attr(Fields[k])]]
                                ELSE <<>>
  BY DEF ValidatorIffDirective
<1>1. /\ buildImpl \in BOOLEAN
      /\ buildImpl = has_gen_build_fn_attr(input.attrs)
      /\ lets = IF buildImpl = TRUE THEN UpTo(LetRow, Len(Fields)) ELSE <<>>
  BY DEF GenInv, Emitted
<1>2. UpTo(LetRow, Len(Fields)) =
        [k \in 1..Len(Fields) |->
           [name |-> Fields[k].ident, optional |-> has_optional_attr(Fields[k])]]
  BY DEF UpTo, LetRow
<1> QED
  BY <1>1, <1>2

(* The companion type of generate_builder_struct: whenever the expansion   *)
(* emits code, the builder has one Option field and one with_<f> setter    *)
(* per struct field, in declaration order, for every declaration.          *)
THEOREM CompanionHolds == Spec => []CompanionMirrorsFields
BY GenInvHolds, InvImpliesCompanion, PTL

(* The validator of generate_build_impl: whenever the expansion emits      *)
(* code, `impl Build` is there exactly under #[gen_build_impl], with one   *)
(* `let` per field in order and the #[optional] flags, for every           *)
(* declaration.                                                            *)
THEOREM ValidatorHolds == Spec => []ValidatorIffDirective
BY GenInvHolds, InvImpliesValidator, PTL

-----------------------------------------------------------------------------
(***************************************************************************)
(* The builder name.  generate_builder_struct computes it once and         *)
(* generate_build_impl once more, from the same attributes; NameInv says   *)
(* that from the setter loop on, and in an expansion that emits code,      *)
(* generate_builder_name did not panic and bname is the name it returns.   *)
(* It needs nothing of GenInv: the steps that leave the setter loop either *)
(* keep the name or stop with a panic or an error.                         *)
(***************************************************************************)
GenName == generate_builder_name(input.ident, input.attrs)

NameInv ==
  (pc \in {"setters", "build_impl", "lets"} \/
   (pc \in {"finish", "end"} /\ outcome.kind = "code"))
    => GenName.kind # "panic" /\ bname = GenName.name

(* A nonempty set of indices has a least element: the first matching      *)
(* attribute that the CHOOSE of generate_builder_name names exists.        *)
LEMMA MinExists ==
  ASSUME NEW S \in SUBSET Nat, S # {}
  PROVE  \E m \in S : \A j \in S : m <= j
<1>1. \E x \in S : \A y \in S : ~ (<<y, x>> \in OpToRel(<, Nat))
  BY NatLessThanWellFounded, WFMin
<1>2. PICK x \in S : \A y \in S : ~ (<<y, x>> \in OpToRel(<, Nat))
  BY <1>1
<1>3. \A y \in S : x <= y
  <2> SUFFICES ASSUME NEW y \in S, y < x PROVE FALSE
    OBVIOUS
  <2>1. <<y, x>> \in Nat \X Nat /\ <<y, x>>[1] < <<y, x>>[2]
    OBVIOUS
  <2>2. <<y, x>> \in OpToRel(<, Nat)
    BY <2>1 DEF OpToRel
  <2> QED
    BY <2>2, <1>2
<1> QED
  BY <1>3

(* When every builder_name attribute is `= "<s>"`, an attribute yields a   *)
(* name exactly when it is a builder_name, so the name that did not panic  *)
(* is the literal of the first of them, or <Struct>Builder.                *)
LEMMA NameOfDirectives ==
  ASSUME NEW ident, NEW attrs \in Seq(Attrs),
         \A k \in DOMAIN attrs : attrs[k].name = "builder_name" => attrs[k].form = "nv_str",
         generate_builder_name(ident, attrs).kind # "panic"
  PROVE  LET custom == {k \in DOMAIN attrs : attrs[k].name = "builder_name"}
         IN  generate_builder_name(ident, attrs).name =
               IF custom = {} THEN ident \o "Builder"
               ELSE attrs[CHOOSE m \in custom : \A j \in custom : m <= j].lit
<1> DEFINE custom == {k \in DOMAIN attrs : attrs[k].name = "builder_name"}
           hits == {k \in DOMAIN attrs : extract_builder_name(attrs[k]).kind # "none"}
           c == CHOOSE m \in custom : \A j \in custom : m <= j
<1>1. hits = custom
  BY DEF extract_builder_name
<1>2. generate_builder_name(ident, attrs) =
        IF hits = {} THEN [kind |-> "some", name |-> ident \o "Builder"]
        ELSE extract_builder_name(attrs[CHOOSE m \in hits : \A j \in hits : m <= j])
  BY DEF generate_builder_name
<1>5. generate_builder_name(ident, attrs) =
        IF custom = {} THEN [kind |-> "some", name |-> ident \o "Builder"]
        ELSE extract_builder_name(attrs[c])
  BY <1>1, <1>2, Zenon
<1>3. CASE custom = {}
  BY <1>5, <1>3
<1>4. CASE custom # {}
  <2>1. custom \in SUBSET Nat
    OBVIOUS
  <2>2. \E m \in custom : \A j \in custom : m <= j
    BY <2>1, <1>4, MinExists
  <2>3. c \in custom
    BY <2>2
  <2>4. attrs[c].name = "builder_name" /\ attrs[c].form = "nv_str"
    BY <2>3
  <2>5. extract_builder_name(attrs[c]).kind # "panic"
    BY <1>5, <1>4
  <2>6. extract_builder_name(attrs[c]).name = attrs[c].lit
    BY <2>4, <2>5 DEF extract_builder_name
  <2> QED
    BY <1>5, <1>4, <2>6
<1> QED
  BY <1>3, <1>4

(* No name is computed before the setter loop. *)
LEMMA InitNameInv == Init => NameInv
BY DEF Init, NameInv

(* Each action preserves NameInv. *)
LEMMA NameStep ==
  ASSUME NameInv, [Next]_vars
  PROVE  NameInv'
<1>0. input' = input
  BY DEF Next, vars, GetStructFields, GetterSkip, GetterField, BuilderName,
     SetterField, SettersDone, BuildImpl, LetStmt, LetsDone, DeriveBuilder
<1>1. GenName' = GenName
  BY <1>0 DEF GenName
<1>2. CASE GetStructFields
  BY <1>2 DEF GetStructFields, Stop, NameInv
<1>3. CASE GetterSkip
  BY <1>3 DEF GetterSkip, NameInv
<1>4. CASE GetterField
  BY <1>4 DEF GetterField, Stop, NameInv
<1>5. CASE BuilderName
  BY <1>1, <1>5 DEF BuilderName, Stop, NameInv, GenName
<1>6. CASE SetterField
  BY <1>1, <1>6 DEF SetterField, Stop, NameInv
<1>7. CASE SettersDone
  BY <1>1, <1>7 DEF SettersDone, NameInv
<1>8. CASE BuildImpl
  BY <1>1, <1>8 DEF BuildImpl, NameInv, GenName
<1>9. CASE LetStmt
  BY <1>1, <1>9 DEF LetStmt, NameInv
<1>10. CASE LetsDone
  BY <1>1, <1>10 DEF LetsDone, NameInv
<1>11. CASE DeriveBuilder
  BY <1>1, <1>11 DEF DeriveBuilder, NameInv
<1>12. CASE UNCHANGED vars
  BY <1>1, <1>12 DEF vars, NameInv
<1> QED
  BY <1>2, <1>3, <1>4, <1>5, <1>6, <1>7, <1>8, <1>9, <1>10, <1>11, <1>12 DEF Next

THEOREM NameInvHolds == Spec => []NameInv
BY InitNameInv, NameStep, PTL DEF Spec

(* Once code is emitted, bname is the name generate_builder_name returned. *)
LEMMA InvImpliesBuilderName == GenInv /\ NameInv => BuilderNameRule
<1> DEFINE custom == {k \in DOMAIN input.attrs : input.attrs[k].name = "builder_name"}
<1> SUFFICES ASSUME GenInv, NameInv, Emitted,
                    \A k \in custom : input.attrs[k].form = "nv_str"
             PROVE  bname = IF custom = {} THEN input.ident \o "Builder"
                            ELSE input.attrs[CHOOSE m \in custom : \A j \in custom : m <= j].lit
  BY DEF BuilderNameRule
<1>1. input.attrs \in Seq(Attrs)
  BY DeclsAssumption DEF GenInv
<1>2. GenName.kind # "panic" /\ bname = GenName.name
  BY DEF NameInv, Emitted
<1> QED
  BY <1>1, <1>2, NameOfDirectives DEF GenName

(* The builder name of generate_builder_name: whenever the expansion emits *)
(* code and its builder_name attributes are all `= "<name>"`, the builder  *)
(* is named after the first of them, or <Struct>Builder, for every         *)
(* declaration.                                                            *)
THEOREM BuilderNameHolds == Spec => []BuilderNameRule
BY GenInvHolds, NameInvHolds, InvImpliesBuilderName, PTL

-----------------------------------------------------------------------------
(***************************************************************************)
(* The type invariant GenTypeOK.  Besides GenInv and NameInv it needs      *)
(* IdentsInv: the setter loop stops with a panic at a field without an     *)
(* ident (builder.rs 51), so the fields it has passed, and all fields from *)
(* the build impl on, are named; the `let` of a field then binds a string. *)
(***************************************************************************)
IdentsInv ==
  /\ pc = "setters" => \A k \in 1..(i - 1) : Fields[k].ident # NoIdent
  /\ pc \in {"build_impl", "lets"} => \A k \in 1..Len(Fields) : Fields[k].ident # NoIdent

(* The return type of a getter that generate_getters emits: &str, &[T]    *)
(* with T the name of a type argument, or &<the field type>.               *)
LEMMA GetterReturnType ==
  ASSUME NEW ty \in TypeValues, getter_return(ty).ok = TRUE
  PROVE  getter_return(ty).ret \in
           [kind : {"str"}] \cup [kind : {"slice"}, elem : STRING] \cup
           [kind : {"ref"}, ty : {ty}]
<1>1. CASE is_string(ty)
  BY <1>1 DEF getter_return
<1>2. CASE ~is_string(ty) /\ ~is_vec(ty)
  BY <1>2 DEF getter_return
<1>3. CASE ~is_string(ty) /\ is_vec(ty)
  <2> DEFINE t == extract_type_from_generic(ty)
             args == ty.segs[1].args
  <2>1. getter_return(ty) = IF t.ok THEN [ok |-> TRUE, ret |-> [kind |-> "slice", elem |-> t.ty]]
                            ELSE [ok |-> FALSE]
    BY <1>3 DEF getter_return
  <2>2. t.ok = TRUE
    BY <2>1
  <2>3. ty.segs # <<>> /\ args.form = "angle" /\ args.list # <<>> /\ t.ty = args.list[1].name
    BY <2>2 DEF extract_type_from_generic
  <2>4. ty.segs \in Seq(Segments) /\ 1 \in DOMAIN ty.segs
    BY <2>3 DEF TypeValues
  <2>5. ty.segs[1] \in Segments
    BY <2>4
  <2>6. args \in PathArgs
    BY <2>5 DEF Segments
  <2>7. args.list \in Seq(GenericArgs) /\ 1 \in DOMAIN args.list
    BY <2>3, <2>6 DEF PathArgs
  <2>8. args.list[1] \in GenericArgs
    BY <2>7
  <2>9. t.ty \in STRING
    BY <2>3, <2>8 DEF GenericArgs
  <2> QED
    BY <2>1, <2>2, <2>9
<1> QED
  BY <1>1, <1>2, <1>3

(* The name generate_builder_name returns when it does not panic is a     *)
(* string: the literal of a builder_name attribute that is an identifier, *)
(* or <Struct>Builder.                                                     *)
LEMMA GenNameString ==
  ASSUME NEW ident, ident \o "Builder" \in STRING, NEW attrs \in Seq(Attrs),
         generate_builder_name(ident, attrs).kind # "panic"
  PROVE  generate_builder_name(ident, attrs).name \in STRING
<1> DEFINE hits == {k \in DOMAIN attrs : extract_builder_name(attrs[k]).kind # "none"}
           c == CHOOSE m \in hits : \A j \in hits : m <= j
<1>1. generate_builder_name(ident, attrs) =
        IF hits = {} THEN [kind |-> "some", name |-> ident \o "Builder"]
        ELSE extract_builder_name(attrs[c])
  BY DEF generate_builder_name
<1>2. CASE hits = {}
  BY <1>1, <1>2
<1>3. CASE hits # {}
  <2>0. hits \in SUBSET Nat
    OBVIOUS
  <2>1. \E m \in hits : \A j \in hits : m <= j
    BY <2>0, <1>3, MinExists
  <2>2. c \in hits
    BY <2>1
  <2>3. extract_builder_name(attrs[c]).kind \notin {"none", "panic"}
    BY <1>1, <1>3, <2>2
  <2>4. extract_builder_name(attrs[c]).name \in IdentStrings
    BY <2>3 DEF extract_builder_name
  <2> QED
    BY <1>1, <1>3, <2>4, IdentStringsAssumption
<1> QED
  BY <1>2, <1>3

(* The fields of the input and their types. *)
LEMMA FieldTypes ==
  ASSUME input \in Decls, NEW k \in 1..Len(Fields)
  PROVE  /\ Fields[k] \in FieldRecs
         /\ Fields[k].ident \in STRING \cup {NoIdent}
         /\ Fields[k].ty \in TypeValues
         /\ Fields[k].ty \in DeclTypes
<1>1. Fields \in Seq(FieldRecs)
  BY FieldsType
<1>2. Fields[k] \in FieldRecs
  BY <1>1
<1>3. Fields[k].ty \in DeclTypes
  BY DEF DeclTypes, Fields
<1> QED
  BY <1>2, <1>3 DEF FieldRecs

(* Appending an element of S keeps a sequence over S. *)
LEMMA AppendType ==
  ASSUME NEW S, NEW s \in Seq(S), NEW x \in S
  PROVE  Append(s, x) \in Seq(S)
BY AppendProperties

(* Each action preserves GenTypeOK and IdentsInv. *)
LEMMA TypeStep ==
  ASSUME GenTypeOK, IdentsInv, GenInv, NameInv, [Next]_vars
  PROVE  GenTypeOK' /\ IdentsInv'
<1>0. /\ input' = input
      /\ input \in Decls
      /\ Len(Fields) \in Nat
      /\ input.attrs \in Seq(Attrs)
      /\ input.ident \o "Builder" \in STRING
  BY FieldsType, DeclsAssumption DEF GenInv, Next, vars, GetStructFields, GetterSkip, GetterField,
     BuilderName, SetterField, SettersDone, BuildImpl, LetStmt, LetsDone, DeriveBuilder
<1>1. Fields' = Fields
  BY <1>0, RowsFixed
<1>2. /\ input' \in Decls /\ pc' \in Phases /\ i' \in 1..(Len(Fields) + 1)
      /\ buildImpl' \in BOOLEAN
  BY <1>1, GenStep DEF GenInv
<1> DEFINE GetterRec == [name : STRING, ret : GetterRets]
           BoxRec == [name : STRING, ty : DeclTypes]
           LetRec == [name : STRING, optional : BOOLEAN]
<1> SUFFICES /\ getters' \in Seq(GetterRec)
             /\ boxes' \in Seq(BoxRec)
             /\ setters' \in Seq(STRING)
             /\ bname' \in STRING \cup {NoIdent}
             /\ lets' \in Seq(LetRec)
             /\ outcome' \in Outcomes
             /\ IdentsInv'
  BY <1>1, <1>2 DEF GenTypeOK, GetterRec, BoxRec, LetRec
<1>3. CASE GetStructFields
  BY <1>3 DEF GetStructFields, Stop, GenTypeOK, Outcomes, ErrorKinds, IdentsInv
<1>4. CASE GetterSkip
  BY <1>4 DEF GetterSkip, GenTypeOK, IdentsInv
<1>5. CASE GetterField
  <2> DEFINE f == Fields[i]
             r == getter_return(f.ty)
  <2>1. pc = "getters" /\ i \in 1..Len(Fields) /\ pc' \in {"getters", "finish"}
    BY <1>5 DEF GetterField, Stop, GenInv
  <2>2. f.ident \in STRING \cup {NoIdent} /\ f.ty \in TypeValues /\ f.ty \in DeclTypes
    BY <1>0, <2>1, FieldTypes
  <2>3. /\ UNCHANGED <<boxes, setters, bname, lets>>
        /\ \/ getters' = getters /\ outcome' \in Outcomes
           \/ /\ f.ident # NoIdent /\ r.ok = TRUE /\ outcome' = outcome
              /\ getters' = Append(getters, [name |-> f.ident, ret |-> r.ret])
    BY <1>5 DEF GetterField, Stop, Outcomes, ErrorKinds
  <2>4. r.ok = TRUE => r.ret \in GetterRets
    <3> SUFFICES ASSUME r.ok = TRUE PROVE r.ret \in GetterRets
      OBVIOUS
    <3>1. r.ret \in [kind : {"str"}] \cup [kind : {"slice"}, elem : STRING] \cup
                    [kind : {"ref"}, ty : {f.ty}]
      BY <2>2, GetterReturnType
    <3> QED
      BY <3>1, <2>2 DEF GetterRets
  <2>5. getters' \in Seq(GetterRec)
    BY <2>2, <2>3, <2>4, AppendType DEF GenTypeOK
  <2> QED
    BY <2>1, <2>3, <2>5 DEF GenTypeOK, IdentsInv
<1>6. CASE BuilderName
  <2> DEFINE n == generate_builder_name(input.ident, input.attrs)
  <2>1. CASE n.kind = "panic"
    BY <1>6, <2>1 DEF BuilderName, Stop, GenTypeOK, IdentsInv, Outcomes
  <2>2. CASE n.kind # "panic"
    <3>1. n.name \in STRING
      BY <1>0, <2>2, GenNameString
    <3> QED
      BY <1>6, <2>2, <3>1 DEF BuilderName, GenTypeOK, IdentsInv
  <2> QED
    BY <2>1, <2>2
<1>7. CASE SetterField
  <2> DEFINE f == Fields[i]
  <2>1. pc = "setters" /\ i \in 1..Len(Fields)
    BY <1>7 DEF SetterField, GenInv
  <2>2. f.ident \in STRING \cup {NoIdent} /\ f.ty \in DeclTypes
    BY <1>0, <2>1, FieldTypes
  <2>3. CASE f.ident = NoIdent \/ ("with_" \o f.ident) \notin IdentStrings
    BY <1>7, <2>3 DEF SetterField, Stop, GenTypeOK, IdentsInv, Outcomes
  <2>4. CASE ~(f.ident = NoIdent \/ ("with_" \o f.ident) \notin IdentStrings)
    <3>1. /\ setters' = Append(setters, "with_" \o f.ident)
          /\ boxes' = Append(boxes, [name |-> f.ident, ty |-> f.ty])
          /\ UNCHANGED <<pc, outcome, getters, bname, lets>>
          /\ i' = i + 1
      BY <1>7, <2>4 DEF SetterField
    <3>2. ("with_" \o f.ident) \in STRING /\ f.ident \in STRING
      BY <2>2, <2>4, IdentStringsAssumption
    <3>3. setters' \in Seq(STRING) /\ boxes' \in Seq(BoxRec)
      BY <2>2, <3>1, <3>2, AppendType DEF GenTypeOK
    <3>4. IdentsInv'
      BY <1>1, <2>1, <2>4, <3>1 DEF IdentsInv
    <3> QED
      BY <3>1, <3>3, <3>4 DEF GenTypeOK
  <2> QED
    BY <2>3, <2>4
<1>8. CASE SettersDone
  BY <1>1, <1>8 DEF SettersDone, GenTypeOK, IdentsInv, Outcomes
<1>9. CASE BuildImpl
  <2>1. GenName.kind # "panic"
    BY <1>9 DEF BuildImpl, NameInv
  <2>2. GenName.name \in STRING
    BY <1>0, <2>1, GenNameString DEF GenName
  <2> QED
    BY <1>1, <1>9, <2>2 DEF BuildImpl, GenName, GenTypeOK, IdentsInv
<1>10. CASE LetStmt
  <2>1. pc = "lets" /\ i \in 1..Len(Fields)
    BY <1>10 DEF LetStmt, GenInv
  <2>2. Fields[i].ident \in STRING
    BY <1>0, <2>1, FieldTypes DEF IdentsInv
  <2>3. has_optional_attr(Fields[i]) \in BOOLEAN
    BY DEF has_optional_attr, has_helper_attribue
  <2>4. lets' \in Seq(LetRec)
    BY <1>10, <2>2, <2>3, AppendType DEF LetStmt, GenTypeOK
  <2> QED
    BY <1>1, <1>10, <2>4 DEF LetStmt, GenTypeOK, IdentsInv
<1>11. CASE LetsDone
  BY <1>11 DEF LetsDone, GenTypeOK, IdentsInv, Outcomes
<1>12. CASE DeriveBuilder
  BY <1>12 DEF DeriveBuilder, GenTypeOK, IdentsInv
<1>13. CASE UNCHANGED vars
  BY <1>1, <1>13 DEF vars, GenTypeOK, IdentsInv
<1> QED
  BY <1>3, <1>4, <1>5, <1>6, <1>7, <1>8, <1>9, <1>10, <1>11, <1>12, <1>13 DEF Next

(* An expansion starts with nothing emitted and no name. *)
LEMMA InitType == Init => GenTypeOK /\ IdentsInv
<1> SUFFICES ASSUME Init PROVE GenTypeOK /\ IdentsInv
  OBVIOUS
<1>1. input \in Decls /\ Len(Fields) \in Nat
  BY FieldsType DEF Init
<1>2. /\ pc = "struct_impl" /\ i = 1 /\ bname = NoIdent /\ buildImpl = FALSE
      /\ getters = <<>> /\ boxes = <<>> /\ setters = <<>> /\ lets = <<>>
      /\ outcome = [kind |-> "running"]
  BY DEF Init
<1>3. IdentsInv
  BY <1>2 DEF IdentsInv
<1>4. outcome \in Outcomes /\ pc \in Phases /\ i \in 1..(Len(Fields) + 1)
  BY <1>1, <1>2 DEF Outcomes, Phases
<1>5. /\ getters \in Seq([name : STRING, ret : GetterRets])
      /\ boxes \in Seq([name : STRING, ty : DeclTypes])
      /\ setters \in Seq(STRING)
      /\ lets \in Seq([name : STRING, optional : BOOLEAN])
  BY <1>2
<1> QED
  BY <1>1, <1>2, <1>3, <1>4, <1>5 DEF GenTypeOK

(* The type of an expansion of generate_builder_macro: the emitted        *)
(* getters, boxes, setters, lets and builder name have the shapes the      *)
(* code gives them, for every declaration; in particular a getter returns *)
(* &str, &[T] or &<field type>, and bname is a string once computed.       *)
THEOREM GenTypeCorrect == Spec => []GenTypeOK
<1>1. Spec => [](GenTypeOK /\ IdentsInv)
  <2>1. (GenTypeOK /\ IdentsInv) /\ GenInv /\ NameInv /\ [Next]_vars
          => (GenTypeOK /\ IdentsInv)'
    BY TypeStep
  <2> QED
    BY <2>1, InitType, GenInvHolds, NameInvHolds, PTL DEF Spec
<1> QED
  BY <1>1, PTL

=============================================================================
