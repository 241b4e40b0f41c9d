------------------------------ MODULE TypeShape ------------------------------
(***************************************************************************)
(* Type-shape introspection of builder.rs (lines 145-175, 199-258): how    *)
(* the getter generator tells String, Vec<T> and other field types apart   *)
(* and recovers T.                                                         *)
(*                                                                         *)
(* A field type is syn's Type: a Type::Path with its segments, each an     *)
(* identifier with its PathArguments (none, <..> or (..)), or any other    *)
(* kind of type (a reference, a tuple, an array).  A generic argument is   *)
(* a type, given by name, a lifetime or a const.                           *)
(***************************************************************************)
EXTENDS Naturals, Sequences

GenericArgs == [kind : {"type", "lifetime", "const"}, name : STRING]

PathArgs == [form : {"none", "angle", "paren"}, list : Seq(GenericArgs)]

Segments == [ident : STRING, args : PathArgs]

(* The type invariant of a field type. *)
IsTypeValue(ty) ==
  /\ ty.kind \in {"path", "other"}
  /\ ty.segs \in Seq(Segments)

(* The field types. *)
TypeValues == [kind : {"path", "other"}, segs : Seq(Segments)]

(* is_type: a Type::Path of which any segment is the identifier. *)
is_type(ident, ty) ==
  ty.kind = "path" /\ \E i \in DOMAIN ty.segs : ty.segs[i].ident = ident

is_string(ty) == is_type("String", ty)

is_vec(ty) == is_type("Vec", ty)

(* extract_type_from_generic: the first generic argument of the FIRST     *)
(* segment, which must be a type; every other case is the error "Type     *)
(* does not have generic".                                                 *)
extract_type_from_generic(ty) ==
  LET args == ty.segs[1].args IN
  IF /\ ty.kind = "path"
     /\ ty.segs # <<>>
     /\ args.form = "angle"
     /\ args.list # <<>>
     /\ args.list[1].kind = "type"
    THEN [ok |-> TRUE, ty |-> args.list[1].name]
    ELSE [ok |-> FALSE]

(* Mutant: the is_string test is dropped and String gets &String. *)
getter_return_no_str(ty) ==
  IF is_vec(ty)
    THEN LET t == extract_type_from_generic(ty) IN
         IF t.ok THEN [ok |-> TRUE, ret |-> [kind |-> "slice", elem |-> t.ty]]
                 ELSE [ok |-> FALSE]
    ELSE [ok |-> TRUE, ret |-> [kind |-> "ref", ty |-> ty]]

(* The return type generate_getters gives the getter of a field: &str,    *)
(* &[T], or &<type>; the error when T cannot be extracted.                *)
getter_return(ty) ==
  IF is_string(ty) THEN [ok |-> TRUE, ret |-> [kind |-> "str"]]
  ELSE IF is_vec(ty)
    THEN LET t == extract_type_from_generic(ty) IN
         IF t.ok THEN [ok |-> TRUE, ret |-> [kind |-> "slice", elem |-> t.ty]]
                 ELSE [ok |-> FALSE]
    ELSE [ok |-> TRUE, ret |-> [kind |-> "ref", ty |-> ty]]

=============================================================================
