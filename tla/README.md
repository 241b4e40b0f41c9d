# transact_derive verification

TLA+ models of the `#[derive(Builder)]` procedural macro of
`src/transact_derive` (`src/builder.rs`, `src/lib.rs`). They cover both the
expansion the macro performs at compile time and the run-time behaviour of
the code it emits. TLC checks the models on small instances. TLAPS proves,
for every struct, declaration and item, the safety properties of the emitted
code, of the expansion and of the composition of the derives. It also proves
three refinements:
- the emitted code implements an atomic builder;
- the expansion implements an atomic generator;
- the derives of an item implement an atomic compilation.

## The system

`derive_builder` (lib.rs 101-110) parses the item into a `DeriveInput` and
calls `generate_builder_macro` (builder.rs 24-32). The expansion runs in this
order:

1. **Accessor generator.** `generate_struct_impl` calls `get_struct_fields`,
   which returns an `Err` unless the item is a struct. It then calls
   `generate_getters`, which emits one getter per `#[getter]` field, picking
   the return type by type shape: `&str` for a `String` path, `&[T]` for a
   `Vec` path (the `T` comes from `extract_type_from_generic`), and `&T`
   otherwise.
2. **Companion-type generator.** `generate_builder_struct` computes the
   builder name with `generate_builder_name` / `extract_builder_name`. That is
   `#[builder_name = "X"]`, or `<Struct>Builder` when there is none. It then
   emits one `Option<T>` field and one `with_<f>` setter per field, plus
   `new()` and `#[derive(Default, Clone)]`.
3. **Construction validator generator.** Only under `#[gen_build_impl]`,
   `generate_build_impl` emits `impl Build` with one `let` per field, in
   declaration order:
   - `unwrap_or_default()` for an `#[optional]` field;
   - `ok_or_else(MissingField)?` for any other field, which fails fast.
4. **Directive parser.** `has_helper_attribue`, `has_gen_build_fn_attr` and
   `extract_builder_name` read the attributes.

The first `Err` ends the expansion, and `derive_builder` turns it into
`compile_error!`. Two kinds of call panic the macro instead: an `unwrap` of a
missing field ident, and an `Ident::new` of a string that is not an
identifier.

At run time, the program holds builder values. `new`, the setters and `clone`
produce builder values, and `build(self)` consumes one and returns
`Ok(struct)` or `Err(MissingField(f))`.

lib.rs has seven derive entry points: `derive_builder` and six
proto-conversion derives (`FromProtoImpl`, `FromNativeImpl`, `IntoProtoImpl`,
`IntoNativeImpl`, `IntoBytesImpl`, `FromBytesImpl`). Each entry point has the
same body: parse the item, call a generator, and emit its `Ok` tokens or
turn its `Err` into `compile_error!`. Each registers the helper attributes
its users may write (`#[proc_macro_derive(X, attributes(...))]`). rustc runs
every derive an item lists, in any order. An attribute that no listed derive
registers is then an error. The six proto generators live in `protos.rs`,
which is not in the repository. spec.md 1 and 6 treat them as an external
collaborator that returns a result, and they are modelled only that far.

## Modules

| module | models | state / actions |
|---|---|---|
| `BuilderDecl` | the struct a builder is generated for | constants `FieldSeq` (the fields in order), `Optional`, `Values`, `DefaultOf`, `GenBuild`; the spec's `Expected` result of a build |
| `BuilderRuntime` | the emitted code run by a program (builder.rs 45-131) | per handle `status`, `box` (the Option fields), `pos` and `local` (the build in progress), `result`; actions `New`, `With`, `CloneBuilder`, `Build`, one action per kind of `let` (`LetOptional`, `LetRequired`, `MissingFieldReturn`), `BuildOk`, `Drop` |
| `BuilderSpec` | abstract builder: spec.md 4.3-4.4 | `Build` is one atomic step returning `Expected(box)` |
| `Directives` | the attribute helpers (builder.rs 177-197, 260-313) | operators over attribute shapes |
| `TypeShape` | type introspection (builder.rs 145-258) | operators over type paths with segments and generic arguments |
| `BuilderGen` | one expansion (builder.rs 24-175, lib.rs 101-110) | `pc`, the loop index `i`, the emitted getters, boxes, setters, builder name, lets, `buildImpl`, `outcome`; one action per loop iteration and per phase |
| `BuilderGenSpec` | abstract expansion: spec.md 5, 7 | `result` goes from pending to `Outcome(input)` in one step |
| `DeriveUnit` | the seven entry points of lib.rs on one item | `item` (its derives and the attribute names it uses), `gen` (what each generator returned), `out` (tokens, `compile_error!` or a panic per derive), `verdict`; actions `Derive(d)` (one entry point) and `Resolve` (helper-attribute resolution) |
| `DeriveUnitSpec` | abstract compilation of one item: spec.md 5, 7 | `Compile` gives every derive one result of its generator and decides the verdict, in one step |
| `MCBuilderRuntime`, `MCBuilderGen`, `MCDeriveUnit` | TLC instances | model values and the universes below |
| `BuilderRuntime_proofs` | TLAPS proofs about `BuilderRuntime` | |
| `BuilderGen_proofs` | TLAPS proofs about `BuilderGen` | |
| `BuilderGen_refinement` | TLAPS proof that `BuilderGen` implements `BuilderGenSpec` | |
| `DeriveUnit_proofs` | TLAPS proofs about `DeriveUnit` | |

In `BuilderRuntime`, a *handle* is one builder variable of the program.
`status` is `free`, `live`, `building` (inside `build`) or `built`. Each
`let` of the generated `build` is a step of its own. That way the model
checks the let-by-let code, not just its overall effect.

`Drop` frees a handle, which models the program dropping a builder or the
result of its build. `build(self)` moves the builder (line 123), so only a
built or live handle can be dropped.

`BuilderRuntime` refines `BuilderSpec` through the mapping
`Abs == INSTANCE BuilderSpec WITH status <- AbsStatus`. Under that mapping a
build in progress is still `live`, the `let` steps are stutters, and the step
that returns is the abstract `Build`.

`BuilderGen` keeps the order of the code:
- getters, then the builder name, then setters, then the build impl;
- the early return of each `?`;
- each panic site.

`BuilderGen` also defines `ExpectedOutcome(d)`, the outcome of
`generate_builder_macro` as a function of the declaration. It is the first
failure in the order the code meets them:
1. an item that is not a struct is an `Err`;
2. the first `#[getter]` field in `GetterFails(d)` panics if it has no
   ident, and is an `Err` otherwise;
3. a builder name that `Ident::new` rejects panics;
4. a field in `SetterFails(d)` panics;
5. otherwise the outcome is code.

`BuilderGen` refines `BuilderGenSpec` through the mapping
`GenAbs == INSTANCE BuilderGenSpec WITH result <- GenResult, Outcome <- ExpectedOutcome`.
`GenResult` is the outcome once `DeriveBuilder` has handed it on, and pending
before. So every loop step is a stutter, and `DeriveBuilder` is the abstract
`Expand`.

It abstracts syn's data:
- An attribute is a name, one of five forms (`word`, `list`, an unparsable
  list, `= "str"`, `= other literal`) and a literal string.
- A type is a path of segments with generic arguments, or an "other" type.
- `IdentStrings` is the set of model strings that `Ident::new` accepts.

`DeriveUnit` composes the derives of one item. Each derive is a separate
entry point: an `Entry` record gives the results its generator can return
and the helpers it registers. `Derive(d)` runs one entry point and applies
the shared `Expand` (the `.map(...).unwrap_or_else(...)` of every entry
point). The derives share no state. Once all have run, `Resolve` rejects the
item if any derive left a `compile_error!` or a panic, or if it uses an
unregistered attribute.

`DeriveUnit` refines `DeriveUnitSpec` through the mapping
`DeriveAbs == INSTANCE DeriveUnitSpec WITH results <- UnitResults, Results <- GeneratorResults, Helpers <- HelpersOf`.
`UnitResults` is the generators' results once rustc has decided, and no
result before. So each `Derive(d)` is a stutter, and `Resolve` is the
abstract `Compile`. The abstract spec takes the generators' results and the
registered helpers as constant operators, which the mapping binds to the
entry table.

BuilderGen already shows how the builder generator
reaches code, an `Err` or a panic, so `DeriveUnit` keeps only that outcome.

## Runs

| run | cfg | checks | result |
|---|---|---|---|
| `agent_safety` | `MCBuilderRuntime_agent.cfg` | `TypeOK`, `BuildOutcome` | pass |
| `gen_safety` | `MCBuilderGen.cfg` | `GenTypeOK`, `CompanionMirrorsFields`, `AccessorsMatchExposed`, `ValidatorIffDirective`, `BuilderNameRule` | pass |
| `gen_no_panic` | `MCBuilderGen_nopanic.cfg` | `NoPanic` | violation |
| `gen_malformed_name` | `MCBuilderGen_malformed.cfg` | `MalformedNameRejected` | violation |
| `gen_sequence_shape` | `MCBuilderGen_seqshape.cfg` | `SequenceAccessorRule` | violation |
| `gen_refinement` | `MCBuilderGen_refine.cfg` | `GenRefinement` | pass |
| `derive_safety` | `MCDeriveUnit.cfg` | `UnitTypeOK`, `ErrorsSurface`, `BuilderDirectivesResolve` | pass |
| `derive_documented_helpers` | `MCDeriveUnit_documented.cfg` | `DocumentedHelpersAccepted` | violation |

**The properties of the runtime:**
- `BuildOutcome`: every finished build returned what spec.md 4.4 prescribes
  for the builder it consumed. That is `MissingField` of the first absent
  required field in declaration order, or `Ok` with the set values and the
  defaults of the absent optional fields.

**The properties of the generator** all compare what is emitted, once an
expansion ends with code, against a reference written from spec.md:
- `CompanionMirrorsFields`: one box and one `with_<f>` setter per field, in
  order (spec 4.3, 8).
- `AccessorsMatchExposed`: one getter per `#[getter]` field, with `&str`
  exactly for text types and `&T` exactly for types that are neither text nor
  a sequence (spec 4.2).
- `ValidatorIffDirective`: `impl Build` exactly under `#[gen_build_impl]`,
  with one `let` per field and the optional flags (spec 4.4, 8 scenario 4).
- `BuilderNameRule`: when every `builder_name` attribute is well-formed, the
  first custom name is used verbatim, else `<Struct>Builder` (spec 4.3, 8).
- `GenRefinement`: the expansion implements `BuilderGenSpec`. It hands on
  exactly `ExpectedOutcome` of its declaration. This pins down which
  diagnostic a declaration with several problems gets. A tuple `#[getter]`
  field panics before its type is looked at, and an `Err` in the getters
  hides a builder-name or setter-name panic.

**The properties of the derive composition:**
- `ErrorsSurface`: an item that compiles had every generator of its derives
  succeed. An `Err` of one derive next to code of another still rejects the
  item (spec 7: no error is swallowed).
- `BuilderDirectivesResolve`: an item deriving `Builder` that uses only the
  directives of spec.md 6 compiles when its generators succeed, whatever the
  other derive it lists.

**Four runs are expected violations.** Each records a place where the code
departs from spec.md (see `findings` in PROJECT.json):
- `NoPanic`: `#[builder_name = "Org Builder"]`, a tuple struct with a
  `#[getter]` field and a field `r#type` each make the macro panic, where
  spec 7 asks for a diagnostic.
- `MalformedNameRejected`: `#[builder_name = 7]` is silently ignored, where
  spec 4.1 asks for `MalformedDirectiveArgument`.
- `SequenceAccessorRule`: a getter on `std::vec::Vec<u8>` fails, because
  `is_vec` matches any segment while the element is read from the first
  segment. `Vec<u8, A>` is accepted, because only the first argument is read.
- `DocumentedHelpersAccepted`: an item using `#[from_impl(...)]`, which the
  doc comments of `FromProtoImpl` and `FromNativeImpl` show, or
  `#[native_proto_impl]`, which the `FromNativeImpl` docs name, is rejected.
  The code registers only `from_proto_impl` and `from_native_impl`.

Each property of a passing run has a mutant in PROJECT.json: a plausible bug
in the code it is about, which TLC must catch.

### Bounds

**`MCBuilderRuntime`** uses the `Agent` struct of the tests: four fields in
declaration order, one of them (`role`) optional. It uses two handles and
two values (a default and a set value), and reaches 145,924 states.
- Two handles are enough to clone a builder, set the copies differently and
  interleave their builds.
- Four fields with one optional field give every position of the first
  missing field, and an optional field after required ones.
- The proofs cover every other struct, including one with no fields.

**`MCBuilderGen`** expands about 60,000 declarations, reaching 484,600 states
in about 10 seconds. The universe has:
- named structs with up to two fields, built from three names (one a raw
  identifier) and seven types (`String`, `std::string::String`, `bool`,
  `Vec<String>`, `std::vec::Vec<u8>`, `Vec<u8, A>`, a reference type);
- five field-attribute lists and eight struct-attribute lists, including two
  custom names, an unparsable `builder_name` and a non-identifier name;
- tuple, unit and enum items.

Two fields are enough to check order, because the generator treats each field
alike.

The `MCBuilderGen` cfgs say `CHECK_DEADLOCK FALSE`, because an expansion
ends: its last state (`pc = "end"`) has no successor.

**`MCDeriveUnit`** takes every item that lists one or two of the seven
derives, with any subset of five attribute names: `optional`, `proto_type`,
`from_impl`, `native_proto_impl` and `from_native_impl`. That is 896 items
and 10,880 states. Two derives are enough for one derive's helper to be used
beside another derive, and for an `Err` of one to sit beside code of the
other. Its cfgs also say `CHECK_DEADLOCK FALSE`: once rustc has decided on
an item, nothing is left to do.

### Liveness and fairness

No run checks a liveness property. The emitted `build`, the expansion and
the composition of the derives are straight-line code over a finite field
or derive list: in every state that is not final a step is enabled, so
"eventually returns" holds by the shape of the models and says nothing
about the code. The models therefore carry no fairness.

## What is proved

`BuilderRuntime_proofs` proves the following for every value of the
constants, under `FieldSeqAssumption` and `ConstAssumption`. Those say that
the field names are distinct strings, that the optional fields are fields,
that `None` is not a value, and that every field has a default.

- `TypeCorrect`: `Spec => []TypeOK`.
- `BuildOutcomeHolds`: `Spec => []BuildOutcome`.
- `Implements`: `Spec => Refinement`. The initial state maps to
  `Abs!Init`, and every step maps to an abstract step or a stutter
  (`StepRefines`).
  `BuilderSpec` differs from `BuilderRuntime` only in its atomic `Build`, so
  the theorem adds little to `BuildOutcomeHolds`. It is kept as the proof
  of the mapping, and no TLC run checks it.

`BuildOutcome` is not inductive on its own. A state in the middle of a build
says nothing yet about its result.

The inductive invariant `IInv` is `TypeOK /\ BuildingInv /\ BuildOutcome`. For
a build in progress, `BuildingInv` states three things:
- `GenBuild` holds;
- every required field before `pos` is present;
- the locals bound so far are exactly the resolved values (box value or
  default) of the fields before `pos`, and the rest are `None`.

With that, each step is easy to check:
- `MissingFieldReturn` at `pos` returns the first missing index, by lemma
  `FirstIndexIs`.
- `BuildOk` at `pos = N + 1` returns `Expected(box)`.

TLC checked `IInv` as an invariant of `agent_safety` before the proof was
written.

Each action has its own lemma (`NewStep`, `WithStep`, `CloneStep`,
`BuildStart`, `LetOptionalStep`, `LetRequiredStep`, `MissingFieldStep`,
`BuildOkStep`, `DropStep`). `AbsDecl` shows that the definitions instantiated
through `Abs` equal the originals.

`BuilderGen_proofs` proves the following for every declaration allowed by
`DeclsAssumption`. That assumption says a declaration has a string name, a
kind, and sequences of attributes and of field records.

- `CompanionHolds`: `Spec => []CompanionMirrorsFields`.
- `ValidatorHolds`: `Spec => []ValidatorIffDirective`.

Both rest on the inductive invariant `GenInv`, which relates the emitted
sequences to the loop index at each phase:
- before the setter loop, nothing is emitted;
- during the setter loop, `boxes` and `setters` are exactly the rows of
  fields `1..i-1`;
- from the build impl on, and whenever the outcome is code, they are all
  the rows;
- during the let loop, `lets` holds the rows of fields `1..i-1`, and the
  directive is present;
- the outcome stays running in the middle phases, so only `SettersDone` and
  `LetsDone` can emit code.

Lemma `UpToAppend` shows that one loop iteration's `Append` extends the
first `n` rows to `n + 1`. TLC checked `GenInv` on the `MCBuilderGen`
universe before the proof was written.

- `BuilderNameHolds`: `Spec => []BuilderNameRule`.

It rests on a second inductive invariant, `NameInv`. From the setter loop on,
and whenever the outcome is code, `generate_builder_name` did not panic and
`bname` is the name it returned. `NameInv` needs nothing from `GenInv`,
because every step that leaves the setter loop either keeps the name or
stops with a panic or an `Err`. `BuildImpl` computes the name a second time
from the same attributes (builder.rs 97), which yields the same name.

Lemma `NameOfDirectives` turns that name into the one the spec prescribes.
When every `builder_name` attribute is `= "..."`, the attributes that yield a
name are exactly the `builder_name` attributes. So the `CHOOSE` of the first
one is the same in the code and in the property. It names a real attribute
by `MinExists`, which says that a nonempty set of naturals has a least
element. `MinExists` follows from `WFMin` and `NatLessThanWellFounded` of
WellFoundedInduction, which take no operator parameter. TLC checked
`NameInv` on the `MCBuilderGen` universe before the proof was written.

`ValidatorHolds` also links the two halves of the project. It shows that
the emitted `build` has one `let` per field in order, with `unwrap_or_default`
exactly for the `#[optional]` fields, and exists exactly under
`#[gen_build_impl]`. That is the code `BuilderRuntime` runs, with its
constants `FieldSeq`, `Optional` and `GenBuild` taken from the declaration.

- `GenTypeCorrect`: `Spec => []GenTypeOK`.

`GenTypeOK` is not inductive on its own either. A `let` binds the field's
ident, which is a string only because the setter loop has already passed
that field without panicking on a missing ident. The proof adds `IdentsInv`,
which says that the fields the setter loop has passed are named, and that
from the build impl on all fields are. It combines `IdentsInv` with `GenInv`
and `NameInv` in lemma `TypeStep`. Two lemmas give the shapes:
- `GetterReturnType`: a getter returns `&str`, `&[T]` with `T` a string,
  or `&` of the field type;
- `GenNameString`: the builder name is a string.

The provers do not know that `\o` of two strings is a string. Two
assumptions state what every TLA+ string satisfies:
- `IdentStringsAssumption` (`IdentStrings \subseteq STRING`);
- the conjunct `d.ident \o "Builder" \in STRING` of `DeclsAssumption`.

TLC evaluates both on every `MCBuilderGen` run. TLC checked `IdentsInv`
before the proof was written.

`BuilderGen_refinement` proves:
- `GenRefinementHolds`: `Spec => GenRefinement`.

`OutInv` is its inductive invariant. It says what each phase knows of the
failures:
- inside the getter loop, no field before `i` is in `GetterFails`;
- from the setter loop on, `GetterFails` is empty;
- inside the setter loop, no field before `i` is in `SetterFails`;
- from the build impl on, `SetterFails` is empty;
- the item is a struct in every phase after `struct_impl`;
- once the expansion has finished, `outcome = ExpectedOutcome(input)`.

The field a loop stops at is therefore the first failing one, by lemma
`FirstOfIs`. A phase is reached only when the earlier phases found nothing.
`OutStep` has one case per action. It uses `GenInv` for the ranges of `pc`
and `i`, and `NameInv` for the builder name, which did not panic once the
setter loop runs. `RefineStep` then shows that `DeriveBuilder` is the
abstract `Expand` and that every other step leaves `GenResult` alone. TLC
checked `OutInv` on the `MCBuilderGen` universe before the proof was
written.

`DeriveUnit_proofs` proves the following for every set of items, under
`ItemsAssumption`. That assumption says an item lists only derives of this
crate, because rustc resolves every name of `#[derive(...)]` before it calls
an entry point.
- `UnitTypeCorrect`: `Spec => []UnitTypeOK`.
- `ErrorsSurfaceHolds`: `Spec => []ErrorsSurface`.
- `BuilderDirectivesHold`: `Spec => []BuilderDirectivesResolve`.

They rest on the inductive invariant `DInv`, made of three parts:
- the type invariant;
- a derive that ran holds `Expand` of what its generator returned, and one
  that did not holds nothing;
- a verdict exists only once every derive has run, and it is `accepted`
  exactly when every expansion is code and every attribute is registered.

- `UnitRefinementHolds`: `Spec => UnitRefinement`. `UnitInitRefines` maps
  the initial state. `UnitRefineStep` maps each step:
  - a `Derive` step keeps the verdict pending, since by `DInv` no verdict
    exists while a slot is empty, so it is a stutter;
  - `Resolve` is a `Compile` whose witness is the results the generators
    returned (`ResolveRefines`).

  The theorem is `ErrorsSurfaceHolds` together with its converse, which
  follows from `Expand` and `Resolve` directly, so no TLC run checks it
  separately.

Lemma `ExpandValues` says that `Expand` gives code exactly for `Ok`. That is
the step from "accepted" to "every generator returned Ok". It is also the
step between `Resolve`'s test on the expansions and `Compile`'s test on the
results. TLC checked
`DInv` on `MCDeriveUnit` before the proof was written.

Only TLC checks `AccessorsMatchExposed`, which holds only over the universe of types.
  `is_string` matches a `String` segment anywhere in the path, while the
  reference `IsTextType` reads the last segment. So a path such as
  `String::X` would break it, and it cannot be a theorem. A weaker form
  (one getter per `#[getter]` field, in order) would still need facts about
  `SelectSeq` of an appended sequence. The library states none, and proving
  them needs induction over `SelectSeq`'s recursive definition, which the
  installed provers cannot do.

No module with a theorem uses a RECURSIVE operator.

## Not modelled

- The proto generators `generate_from_proto`, `generate_into_bytes` and the
  others. `protos.rs` is absent, so only their `Ok`/`Err` interface and the
  entry points of lib.rs are modelled.
- Generics and lifetimes of the input struct. `impl #struct_name` and
  `pub struct #builder_name` (builder.rs 39, 79, 120) drop them, so a generic
  struct yields code that rustc rejects. The model's declarations carry no
  generics, because whether emitted code type-checks is a question for rustc
  (see the hazard in PROJECT.json).
- The token text that `quote!` produces (spans, formatting). The models keep
  what is emitted, not how it is printed.
- The rustc type checking of the emitted code. For example, that
  `unwrap_or_default` needs `T: Default`. The runtime model takes
  `DefaultOf` as given.
