------------------------------ MODULE DeriveUnit ------------------------------
(***************************************************************************)
(* The derives of lib.rs applied to one item: rustc runs every derive the  *)
(* item lists (#[derive(Builder, FromProtoImpl, ...)]), each through its   *)
(* entry point, and then resolves the item's remaining attributes against  *)
(* the helper attributes the listed derives register.                      *)
(*                                                                         *)
(* Every entry point (lib.rs 100-110, 196-206, 293-303, 306-316, 319-329,  *)
(* 332-342, 357-367) has the same body: parse_macro_input!, the generator, *)
(* Ok tokens as the expansion and an Err as compile_error! tokens.  The    *)
(* builder generator is modelled step by step in BuilderGen; here only    *)
(* its outcome (code, an Err or a panic) matters.  The proto generators    *)
(* live in protos.rs, which this repository does not hold: they are        *)
(* modelled from the interface of spec.md 6 as returning Ok or an Err.     *)
(* The derives share no state, so they run in any order.                   *)
(***************************************************************************)
EXTENDS FiniteSets

CONSTANT Items  \* the items the derives may be applied to

(* What a generator returns, and what the compiler is left with. *)
GenResults == {"ok", "err", "panic"}

Expansions == {"none", "tokens", "compile_error", "panicked"}

(* The generators: generate_builder_macro ends with code, an Err or a     *)
(* panic (BuilderGen); a proto generator returns a syn::Result.           *)
generate_builder_macro == {"ok", "err", "panic"}

generate_proto == {"ok", "err"}

(* Mutant: the Err of the generator is dropped and nothing is emitted.    *)
ExpandSwallow(r) ==
  CASE r = "ok" -> "tokens" [] r = "err" -> "tokens" [] r = "panic" -> "panicked"

(* The common body of the entry points: .map(|t| t.into()) of the Ok      *)
(* tokens, .unwrap_or_else into quote!(#compile_error) of the Err; a      *)
(* panicking generator leaves rustc's "proc-macro derive panicked".       *)
Expand(r) ==
  CASE r = "ok" -> "tokens" [] r = "err" -> "compile_error" [] r = "panic" -> "panicked"

(* Mutant: Builder registered without its `optional` helper attribute.    *)
derive_builder_no_optional ==
  [results |-> generate_builder_macro,
   helpers |-> {"builder_name", "gen_build_impl", "getter"}]

(* Each entry point: what its generator can return and the helper         *)
(* attributes its #[proc_macro_derive(..., attributes(...))] registers.   *)
derive_builder ==
  [results |-> generate_builder_macro,
   helpers |-> {"builder_name", "gen_build_impl", "getter", "optional"}]

derive_from_proto ==
  [results |-> generate_proto, helpers |-> {"proto_type", "from_proto_impl", "proto_enum"}]

derive_from_native ==
  [results |-> generate_proto, helpers |-> {"proto_type", "from_native_impl", "proto_enum"}]

derive_into_proto == [results |-> generate_proto, helpers |-> {}]

derive_into_native == [results |-> generate_proto, helpers |-> {}]

derive_into_bytes == [results |-> generate_proto, helpers |-> {}]

derive_from_bytes == [results |-> generate_proto, helpers |-> {"proto_type"}]

(* The derive names of the crate and their entry points. *)
Entry ==
  [Builder        |-> derive_builder,
   FromProtoImpl  |-> derive_from_proto,
   FromNativeImpl |-> derive_from_native,
   IntoProtoImpl  |-> derive_into_proto,
   IntoNativeImpl |-> derive_into_native,
   IntoBytesImpl  |-> derive_into_bytes,
   FromBytesImpl  |-> derive_from_bytes]

DeriveNames == DOMAIN Entry

(* An item lists derives of this crate: rustc resolves every name in      *)
(* #[derive(...)] before it calls an entry point.                          *)
ASSUME ItemsAssumption == \A x \in Items : x.derives \subseteq DeriveNames

VARIABLES
  item,     \* the item: the derives it lists and the attribute names it uses
  gen,      \* what the generator of each derive returned, once it ran
  out,      \* what each derive left in the item's expansion
  verdict   \* pending, or whether rustc accepts the item

vars == <<item, gen, out, verdict>>

(* The helper attributes in scope on the item. *)
Registered == UNION {Entry[d].helpers : d \in item.derives}

UnitTypeOK ==
  /\ item \in Items
  /\ item.derives \subseteq DeriveNames
  /\ gen \in [item.derives -> GenResults \cup {"none"}]
  /\ \A d \in item.derives : gen[d] \in Entry[d].results \cup {"none"}
  /\ out \in [item.derives -> Expansions]
  /\ verdict \in {"pending", "accepted", "rejected"}

Init ==
  /\ item \in Items
  /\ gen = [d \in item.derives |-> "none"]
  /\ out = [d \in item.derives |-> "none"]
  /\ verdict = "pending"

(* Mutant: every derive expanded as if it ran the builder generator.      *)
DeriveAnyResult(d) ==
  /\ out[d] = "none"
  /\ \E r \in GenResults :
       /\ gen' = [gen EXCEPT ![d] = r]
       /\ out' = [out EXCEPT ![d] = Expand(r)]
  /\ UNCHANGED <<item, verdict>>

(* rustc invokes the entry point of derive d on the item. *)
Derive(d) ==
  /\ out[d] = "none"
  /\ \E r \in Entry[d].results :
       /\ gen' = [gen EXCEPT ![d] = r]
       /\ out' = [out EXCEPT ![d] = Expand(r)]
  /\ UNCHANGED <<item, verdict>>

(* Every derive has run: the item compiles when every expansion is code   *)
(* and every attribute it uses is a registered helper; a compile_error!,  *)
(* a panic or an unknown attribute rejects it.                            *)
Resolve ==
  /\ verdict = "pending"
  /\ \A d \in item.derives : out[d] # "none"
  /\ verdict' = IF /\ \A d \in item.derives : out[d] = "tokens"
                   /\ item.attrs \subseteq Registered
                  THEN "accepted" ELSE "rejected"
  /\ UNCHANGED <<item, gen, out>>

Next == (\E d \in item.derives : Derive(d)) \/ Resolve

Spec == Init /\ [][Next]_vars

-----------------------------------------------------------------------------
(* No generation error is silently swallowed (spec.md 7): an item that    *)
(* compiles had every one of its derives' generators succeed.  Checked    *)
(* against the unwrap_or_else of the entry points and Resolve.            *)
ErrorsSurface ==
  verdict = "accepted" => \A d \in item.derives : gen[d] = "ok"

(* The directive vocabulary of spec.md 6 is accepted: an item that        *)
(* derives Builder, whose generators all succeed and that uses only the   *)
(* builder directives, compiles.  Checked against the attributes(...) of  *)
(* derive_builder (lib.rs 100).                                           *)
BuilderDirectivesResolve ==
  LET vocabulary == {"builder_name", "gen_build_impl", "getter", "optional"} IN
  (/\ verdict # "pending"
   /\ "Builder" \in item.derives
   /\ item.attrs \subseteq vocabulary
   /\ \A d \in item.derives : gen[d] = "ok")
    => verdict = "accepted"

(* What each generator may return, and the helpers an item's derives      *)
(* register, as operators of the entry table.                              *)
GeneratorResults(d) == Entry[d].results

HelpersOf(x) == UNION {Entry[d].helpers : d \in x.derives}

(* The refinement mapping: the results of the generators are known once   *)
(* rustc has decided on the item.                                          *)
UnitResults == IF verdict = "pending" THEN [d \in item.derives |-> "none"] ELSE gen

DeriveAbs == INSTANCE DeriveUnitSpec
               WITH results <- UnitResults, Results <- GeneratorResults, Helpers <- HelpersOf

(* The entry points, run one at a time in any order and followed by the  *)
(* resolution of the attributes, implement the one-step compilation of    *)
(* DeriveUnitSpec: the verdict is accepted exactly when every generator    *)
(* returned Ok and every attribute is registered, whatever the order.      *)
UnitRefinement == DeriveAbs!Spec

-----------------------------------------------------------------------------
(* The field attributes the doc comments of lib.rs name for each derive:  *)
(* #[from_proto_impl] (157) with its examples #[from_impl(...)] (168-194),*)
(* #[native_proto_impl] (253) with #[from_impl(...)] (265-291).           *)
Documented ==
  [d \in DeriveNames |->
     CASE d = "Builder"        -> {"builder_name", "gen_build_impl", "getter", "optional"}
       [] d = "FromProtoImpl"  -> {"proto_type", "proto_enum", "from_proto_impl", "from_impl"}
       [] d = "FromNativeImpl" -> {"proto_type", "proto_enum", "native_proto_impl", "from_impl"}
       [] d = "FromBytesImpl"  -> {"proto_type"}
       [] OTHER                -> {}]

(* An item written as the doc comments show compiles when its generators  *)
(* succeed: every documented attribute of a listed derive is registered   *)
(* by it.  Checked against the attributes(...) lists of lib.rs 196, 293.  *)
DocumentedHelpersAccepted ==
  (/\ verdict # "pending"
   /\ item.attrs \subseteq UNION {Documented[d] : d \in item.derives}
   /\ \A d \in item.derives : gen[d] = "ok")
    => verdict = "accepted"

=============================================================================
