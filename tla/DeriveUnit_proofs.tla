--------------------------- MODULE DeriveUnit_proofs ---------------------------
(***************************************************************************)
(* Proofs about the derives of one item, for every set of items: the type  *)
(* invariant, that no generator error is swallowed (ErrorsSurface), that   *)
(* the builder directives are always in scope (BuilderDirectivesResolve),  *)
(* and that the derives implement the one-step compilation of              *)
(* DeriveUnitSpec (UnitRefinement).                                        *)
(*                                                                         *)
(* The inductive invariant DInv says what each step leaves behind: a       *)
(* derive that ran holds Expand of what its generator returned, and a      *)
(* verdict is what Resolve computes from the finished expansions.          *)
(***************************************************************************)
EXTENDS DeriveUnit, TLAPS

(* The inductive invariant. *)
DInv ==
  /\ UnitTypeOK
  /\ \A d \in item.derives :
       \/ gen[d] = "none" /\ out[d] = "none"
       \/ gen[d] # "none" /\ out[d] = Expand(gen[d])
  /\ verdict # "pending" =>
       /\ \A d \in item.derives : out[d] # "none"
       /\ (verdict = "accepted") =
            (/\ \A d \in item.derives : out[d] = "tokens"
             /\ item.attrs \subseteq Registered)

-----------------------------------------------------------------------------
(* The common body of the entry points leaves an expansion for every      *)
(* result, and code exactly for Ok.                                        *)
LEMMA ExpandValues ==
  ASSUME NEW r \in GenResults
  PROVE  /\ Expand(r) \in Expansions \ {"none"}
         /\ (Expand(r) = "tokens") = (r = "ok")
BY DEF Expand, GenResults, Expansions

(* Every generator returns one of the results. *)
LEMMA EntryResults ==
  ASSUME NEW d \in DeriveNames
  PROVE  Entry[d].results \subseteq GenResults
BY DEF DeriveNames, Entry, derive_builder, derive_from_proto, derive_from_native,
       derive_into_proto, derive_into_native, derive_into_bytes, derive_from_bytes,
       generate_builder_macro, generate_proto, GenResults

(* Before any derive runs, nothing is expanded and nothing decided. *)
LEMMA InitDInv == Init => DInv
<1> SUFFICES ASSUME Init PROVE DInv
  OBVIOUS
<1>1. item \in Items /\ item.derives \subseteq DeriveNames
  BY ItemsAssumption DEF Init
<1>2. /\ gen = [d \in item.derives |-> "none"]
      /\ out = [d \in item.derives |-> "none"]
      /\ verdict = "pending"
  BY DEF Init
<1> QED
  BY <1>1, <1>2 DEF DInv, UnitTypeOK, GenResults, Expansions

(* One entry point runs: its slot gets Expand of the result, the others   *)
(* and the verdict stay.                                                    *)
LEMMA DeriveStep ==
  ASSUME DInv, NEW d \in item.derives, Derive(d)
  PROVE  DInv'
<1>1. PICK r \in Entry[d].results :
        /\ gen' = [gen EXCEPT ![d] = r]
        /\ out' = [out EXCEPT ![d] = Expand(r)]
  BY DEF Derive
<1>2. /\ item' = item /\ verdict' = verdict /\ out[d] = "none"
      /\ item.derives \subseteq DeriveNames
  BY DEF Derive, DInv, UnitTypeOK
<1>3. r \in GenResults
  BY <1>1, <1>2, EntryResults
<1>4. Expand(r) \in Expansions \ {"none"}
  BY <1>3, ExpandValues
<1>5. verdict = "pending"
  BY <1>2 DEF DInv
<1>6. UnitTypeOK'
  BY <1>1, <1>2, <1>3, <1>4 DEF DInv, UnitTypeOK
<1>7. \A e \in item.derives :
        \/ gen'[e] = "none" /\ out'[e] = "none"
        \/ gen'[e] # "none" /\ out'[e] = Expand(gen'[e])
  BY <1>1, <1>2, <1>3 DEF DInv, UnitTypeOK, GenResults
<1> QED
  BY <1>2, <1>5, <1>6, <1>7 DEF DInv

(* Resolve decides once every derive has run, and leaves the expansions. *)
LEMMA ResolveStep ==
  ASSUME DInv, Resolve
  PROVE  DInv'
<1>1. /\ item' = item /\ gen' = gen /\ out' = out
      /\ \A d \in item.derives : out[d] # "none"
      /\ verdict' = IF /\ \A d \in item.derives : out[d] = "tokens"
                       /\ item.attrs \subseteq Registered
                      THEN "accepted" ELSE "rejected"
  BY DEF Resolve
<1>2. Registered' = Registered
  BY <1>1 DEF Registered
<1> QED
  BY <1>1, <1>2 DEF DInv, UnitTypeOK

(* Every step preserves DInv. *)
LEMMA DStep ==
  ASSUME DInv, [Next]_vars
  PROVE  DInv'
<1>1. CASE \E d \in item.derives : Derive(d)
  BY <1>1, DeriveStep
<1>2. CASE Resolve
  BY <1>2, ResolveStep
<1>3. CASE UNCHANGED vars
  <2>1. Registered' = Registered
    BY <1>3 DEF vars, Registered
  <2> QED
    BY <1>3, <2>1 DEF vars, DInv, UnitTypeOK
<1> QED
  BY <1>1, <1>2, <1>3 DEF Next

THEOREM DInvHolds == Spec => []DInv
BY InitDInv, DStep, PTL DEF Spec

-----------------------------------------------------------------------------
(* The type of the derive state: each slot holds a result of the derive's *)
(* own generator and an expansion, for every set of items.                *)
THEOREM UnitTypeCorrect == Spec => []UnitTypeOK
<1>1. DInv => UnitTypeOK
  BY DEF DInv
<1> QED
  BY DInvHolds, <1>1, PTL

(* An accepted item had every expansion be code, and Expand gives code    *)
(* only for Ok.                                                            *)
LEMMA InvImpliesErrorsSurface == DInv => ErrorsSurface
<1> SUFFICES ASSUME DInv, verdict = "accepted", NEW d \in item.derives
             PROVE  gen[d] = "ok"
  BY DEF ErrorsSurface
<1>1. out[d] = "tokens" /\ out[d] # "none"
  BY DEF DInv
<1>2. gen[d] \in GenResults
  BY <1>1 DEF DInv, UnitTypeOK
<1> QED
  BY <1>1, <1>2, ExpandValues DEF DInv

(* No generation error is swallowed: whenever rustc accepts the item, the *)
(* generator of every derive it lists returned Ok, for every set of items.*)
THEOREM ErrorsSurfaceHolds == Spec => []ErrorsSurface
BY DInvHolds, InvImpliesErrorsSurface, PTL

(* With every generator Ok every expansion is code, and the builder       *)
(* directives are among the helpers derive_builder registers.              *)
LEMMA InvImpliesBuilderDirectives == DInv => BuilderDirectivesResolve
<1> DEFINE vocabulary == {"builder_name", "gen_build_impl", "getter", "optional"}
<1> SUFFICES ASSUME DInv, verdict # "pending", "Builder" \in item.derives,
                    item.attrs \subseteq vocabulary,
                    \A d \in item.derives : gen[d] = "ok"
             PROVE  verdict = "accepted"
  BY DEF BuilderDirectivesResolve
<1>1. \A d \in item.derives : out[d] = "tokens"
  BY ExpandValues DEF DInv, GenResults
<1>2. vocabulary \subseteq Registered
  BY DEF Registered, Entry, derive_builder
<1> QED
  BY <1>1, <1>2 DEF DInv

(* The builder directives of spec.md 6 are always in scope: an item that  *)
(* derives Builder, uses only those directives and whose generators all   *)
(* succeed compiles, for every set of items.                               *)
THEOREM BuilderDirectivesHold == Spec => []BuilderDirectivesResolve
BY DInvHolds, InvImpliesBuilderDirectives, PTL

-----------------------------------------------------------------------------
(***************************************************************************)
(* The refinement of DeriveUnitSpec.  The Derive steps keep the verdict    *)
(* pending, so UnitResults stays the empty map and they are stutters.      *)
(* Resolve is the abstract Compile, with the results the generators        *)
(* returned as its witness: DInv says that each of them is a result of its *)
(* own generator, and that Resolve's test on the expansions is the same    *)
(* as Compile's test on the results.                                       *)
(***************************************************************************)
(* An item that no derive has touched is an item not yet compiled. *)
LEMMA UnitInitRefines == Init => DeriveAbs!Init
BY DEF Init, DeriveAbs!Init, UnitResults

(* Resolve decides as Compile does on the generators' results. *)
LEMMA ResolveRefines ==
  ASSUME DInv, Resolve
  PROVE  DeriveAbs!Compile
<1>1. /\ verdict = "pending" /\ item' = item /\ gen' = gen /\ out' = out
      /\ \A d \in item.derives : out[d] # "none"
      /\ verdict' = IF /\ \A d \in item.derives : out[d] = "tokens"
                       /\ item.attrs \subseteq Registered
                      THEN "accepted" ELSE "rejected"
  BY DEF Resolve
<1>2. \A d \in item.derives : gen[d] \in Entry[d].results /\ gen[d] \in GenResults
  BY <1>1 DEF DInv, UnitTypeOK
<1>3. \A d \in item.derives : out[d] = Expand(gen[d])
  BY <1>1 DEF DInv
<1>4. (\A d \in item.derives : out[d] = "tokens") = (\A d \in item.derives : gen[d] = "ok")
  BY <1>2, <1>3, ExpandValues
<1>5. Registered = HelpersOf(item)
  BY DEF Registered, HelpersOf
<1>6. /\ gen \in [item.derives -> UNION {GeneratorResults(d) : d \in item.derives}]
      /\ \A d \in item.derives : gen[d] \in GeneratorResults(d)
  BY <1>2 DEF DInv, UnitTypeOK, GeneratorResults
<1>7. UnitResults' = gen /\ UnitResults = [d \in item.derives |-> "none"]
  BY <1>1 DEF UnitResults
<1>8. verdict' = IF /\ \A d \in item.derives : gen[d] = "ok"
                    /\ item.attrs \subseteq HelpersOf(item)
                   THEN "accepted" ELSE "rejected"
  BY <1>1, <1>4, <1>5
<1> QED
  BY <1>1, <1>6, <1>7, <1>8 DEF DeriveAbs!Compile

(* Every step is a Compile or leaves the mapped state alone. *)
LEMMA UnitRefineStep ==
  ASSUME DInv, [Next]_vars
  PROVE  [DeriveAbs!Compile]_<<item, UnitResults, verdict>>
<1>1. CASE \E d \in item.derives : Derive(d)
  <2>1. PICK d \in item.derives : Derive(d)
    BY <1>1
  <2>2. out[d] = "none" /\ item' = item /\ verdict' = verdict
    BY <2>1 DEF Derive
  <2>3. verdict = "pending"
    BY <2>2 DEF DInv
  <2> QED
    BY <2>2, <2>3 DEF UnitResults
<1>2. CASE Resolve
  BY <1>2, ResolveRefines
<1>3. CASE UNCHANGED vars
  BY <1>3 DEF vars, UnitResults
<1> QED
  BY <1>1, <1>2, <1>3 DEF Next

(* The entry points of lib.rs, run one at a time in any order and then    *)
(* resolved, implement the one-step compilation of DeriveUnitSpec: rustc   *)
(* accepts an item exactly when every generator returned Ok and every      *)
(* attribute is a registered helper, for every set of items.               *)
THEOREM UnitRefinementHolds == Spec => UnitRefinement
<1>1. DInv /\ [Next]_vars => [DeriveAbs!Compile]_<<item, UnitResults, verdict>>
  BY UnitRefineStep
<1> QED
  BY <1>1, UnitInitRefines, DInvHolds, PTL DEF Spec, UnitRefinement, DeriveAbs!Spec

=============================================================================
