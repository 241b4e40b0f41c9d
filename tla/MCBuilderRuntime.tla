--------------------------- MODULE MCBuilderRuntime ---------------------------
(***************************************************************************)
(* Model-checking instances of BuilderRuntime.  AgentFields is the         *)
(* `Agent` struct of tests/builder.rs: three required fields and the       *)
(* #[optional] `role` last.  Two handles are enough for a clone, a build   *)
(* of one builder interleaved with setters on the other, and a re-use of   *)
(* a dropped handle; two values (one of them the type's default) tell a    *)
(* set field from a defaulted one.                                         *)
(***************************************************************************)
EXTENDS BuilderRuntime

CONSTANTS h1, h2, vDefault, vSet, NoneValue

MCHandles == {h1, h2}
MCValues == {vDefault, vSet}

AgentFields == <<"public_key", "wears_crocks", "known_enemies", "role">>
AgentOptional == {"role"}
AgentDefaults == [f \in {AgentFields[i] : i \in 1..4} |-> vDefault]

(* `struct Unit {}`: a build of zero `let` statements. *)
EmptyFields == <<>>
EmptyDefaults == [f \in {} |-> vDefault]

=============================================================================
