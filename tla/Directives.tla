------------------------------ MODULE Directives ------------------------------
(***************************************************************************)
(* The directive parser of builder.rs: how the attributes of a struct and  *)
(* of its fields are read (lines 177-197 and 260-313).                     *)
(*                                                                         *)
(* An attribute is abstracted to the one segment of its path (derive       *)
(* helper attributes are single identifiers), the shape of what follows    *)
(* the path, and the string of a `= "..."` literal:                        *)
(*   "word"      #[getter]                                                 *)
(*   "list"      #[builder_name(Bar)]        parses as Meta::List          *)
(*   "list_bad"  #[getter(1 + 2)]            syn's parse_meta fails        *)
(*   "nv_str"    #[builder_name = "Bar"]     Meta::NameValue, Lit::Str     *)
(*   "nv_lit"    #[builder_name = 7]         Meta::NameValue, other Lit    *)
(* Ident::new panics on a string that is not an identifier; IdentStrings   *)
(* is the set of strings of the model that are identifiers.                *)
(***************************************************************************)
EXTENDS Naturals, Sequences

CONSTANT IdentStrings

(* The identifiers of the model are strings. *)
ASSUME IdentStringsAssumption == IdentStrings \subseteq STRING

AttrForms == {"word", "list", "list_bad", "nv_str", "nv_lit"}

Attrs == [name : STRING, form : AttrForms, lit : STRING]

(* attr.parse_meta() is Ok for every form but a list that is not a meta.  *)
parse_meta_ok(a) == a.form # "list_bad"

(* has_helper_attribue: some attribute parses as a Meta named ident.      *)
has_helper_attribue(attrs, ident) ==
  \E i \in DOMAIN attrs : parse_meta_ok(attrs[i]) /\ attrs[i].name = ident

has_getter_attr(field) == has_helper_attribue(field.attrs, "getter")

has_optional_attr(field) == has_helper_attribue(field.attrs, "optional")

(* has_gen_build_fn_attr: the first path segment is gen_build_impl,       *)
(* whatever follows it.  Its `return false` on a path without segments    *)
(* is never taken: an attribute path has at least one segment.            *)
has_gen_build_fn_attr(attrs) ==
  \E i \in DOMAIN attrs : attrs[i].name = "gen_build_impl"

(* extract_builder_name: Some(Ident) for #[builder_name = "<s>"], None    *)
(* for any other attribute; Ident::new(&s.value()) panics when s is not   *)
(* an identifier.                                                          *)
extract_builder_name(a) ==
  IF a.name = "builder_name" /\ a.form = "nv_str"
    THEN IF a.lit \in IdentStrings
           THEN [kind |-> "some", name |-> a.lit]
           ELSE [kind |-> "panic"]
    ELSE [kind |-> "none"]

(* Mutant: the last attribute that yields a name wins. *)
generate_builder_name_last(ident, attrs) ==
  LET hits == {i \in DOMAIN attrs : extract_builder_name(attrs[i]).kind # "none"}
  IN  IF hits = {}
        THEN [kind |-> "some", name |-> ident \o "Builder"]
        ELSE extract_builder_name(attrs[CHOOSE i \in hits : \A j \in hits : i >= j])

(* generate_builder_name: the first attribute that yields a name, else    *)
(* `<Struct>Builder`.                                                      *)
generate_builder_name(ident, attrs) ==
  LET hits == {i \in DOMAIN attrs : extract_builder_name(attrs[i]).kind # "none"}
  IN  IF hits = {}
        THEN [kind |-> "some", name |-> ident \o "Builder"]
        ELSE extract_builder_name(attrs[CHOOSE i \in hits : \A j \in hits : i <= j])

=============================================================================
