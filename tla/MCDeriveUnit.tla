---------------------------- MODULE MCDeriveUnit ----------------------------
(***************************************************************************)
(* Items listing one or two of the crate's derives, each with any subset  *)
(* of the attributes that the registrations and the doc comments tell     *)
(* apart: a builder directive, a proto helper, the documented field       *)
(* attributes of the proto derives, and the registered from_native_impl.  *)
(* Two derives are enough for one derive's helpers to be used on an item   *)
(* with another derive, and for an error of one next to code of the other.*)
(***************************************************************************)
EXTENDS DeriveUnit, Naturals

MCAttrNames ==
  {"optional", "proto_type", "from_impl", "native_proto_impl", "from_native_impl"}

MCItems ==
  [derives : {ds \in SUBSET DeriveNames : Cardinality(ds) \in 1..2},
   attrs   : SUBSET MCAttrNames]

=============================================================================
