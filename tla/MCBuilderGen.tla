----------------------------- MODULE MCBuilderGen -----------------------------
(***************************************************************************)
(* The expansion of #[derive(Builder)] over a universe of declarations     *)
(* built from the shapes the code tells apart: the struct kinds, the       *)
(* attribute forms of every helper attribute, the type paths String,       *)
(* std::string::String, bool, Vec<String>, std::vec::Vec<u8>, Vec<u8, A>,  *)
(* a reference type, and field names including the raw identifier r#type. *)
(* Field lists have up to two fields, which is enough for every ordering   *)
(* question (a field before and after another); the tests' Agent has four  *)
(* fields, but the generator treats each one alike.                        *)
(***************************************************************************)
EXTENDS BuilderGen

CONSTANT NoIdentValue

NoArgs == [form |-> "none", list |-> <<>>]

Angle(names) == [form |-> "angle", list |-> [k \in DOMAIN names |-> [kind |-> "type", name |-> names[k]]]]

Seg(id) == [ident |-> id, args |-> NoArgs]

Path(segs) == [kind |-> "path", segs |-> segs]

TString    == Path(<<Seg("String")>>)
TStdString == Path(<<Seg("std"), Seg("string"), Seg("String")>>)
TBool      == Path(<<Seg("bool")>>)
TVecString == Path(<<[ident |-> "Vec", args |-> Angle(<<"String">>)]>>)
TStdVec    == Path(<<Seg("std"), Seg("vec"), [ident |-> "Vec", args |-> Angle(<<"u8">>)]>>)
TVecAlloc  == Path(<<[ident |-> "Vec", args |-> Angle(<<"u8", "A">>)]>>)
TRef       == [kind |-> "other", segs |-> <<>>]

MCTypes == {TString, TStdString, TBool, TVecString, TStdVec, TVecAlloc, TRef}

Attr(n, f, l) == [name |-> n, form |-> f, lit |-> l]

Getter    == Attr("getter", "word", "")
GetterBad == Attr("getter", "list_bad", "")
Optional  == Attr("optional", "word", "")
Gen       == Attr("gen_build_impl", "word", "")
BnOrg     == Attr("builder_name", "nv_str", "OrgBuilder")
BnProxy   == Attr("builder_name", "nv_str", "ProxyBuilder")
BnList    == Attr("builder_name", "list", "")
BnLit     == Attr("builder_name", "nv_lit", "")
BnBad     == Attr("builder_name", "nv_str", "Org Builder")
Doc       == Attr("doc", "nv_str", " docs")

StructAttrs ==
  {<<>>, <<Gen>>, <<Gen, BnOrg>>, <<BnOrg, BnProxy, Gen>>, <<BnList, Gen>>,
   <<BnLit>>, <<BnBad, Gen>>, <<Doc, Gen>>}

FieldAttrs == {<<>>, <<Getter>>, <<Getter, Optional>>, <<GetterBad>>, <<Optional>>}

FieldNamesU == {"public_key", "role", "r#type"}

NamedField == [ident : FieldNamesU, ty : MCTypes, attrs : FieldAttrs]

TupleField == [ident : {NoIdentValue}, ty : {TBool}, attrs : FieldAttrs]

(* Field lists of at most two fields with distinct names. *)
NamedLists ==
  {<<>>} \cup {<<f>> : f \in NamedField} \cup
  {<<f, g>> \in NamedField \X NamedField : f.ident # g.ident}

MCDecls ==
  [ident : {"Agent"}, data : {"named"}, attrs : StructAttrs, fields : NamedLists] \cup
  [ident : {"Agent"}, data : {"tuple"}, attrs : StructAttrs,
   fields : {<<>>} \cup {<<f>> : f \in TupleField}] \cup
  [ident : {"Agent"}, data : {"unit"}, attrs : StructAttrs, fields : {<<>>}] \cup
  [ident : {"Agent"}, data : {"enum"}, attrs : {<<Gen>>}, fields : {<<>>}]

(* The strings of the model that are identifiers: Ident::new accepts them. *)
MCIdentStrings ==
  {"Agent", "AgentBuilder", "OrgBuilder", "ProxyBuilder",
   "with_public_key", "with_role"}

=============================================================================
