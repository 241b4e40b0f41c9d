---------------------------- MODULE BuilderGenSpec ----------------------------
(***************************************************************************)
(* What one expansion of #[derive(Builder)] promises as a whole (spec.md   *)
(* 5, 7): a generation pass is a function of the declaration.  It takes    *)
(* the declaration to its outcome (code, an Err or a panic) in one step,   *)
(* and that outcome is final.  BuilderGen, which takes one step per loop   *)
(* iteration, implements it with Outcome its ExpectedOutcome: the first    *)
(* failure in the order the code meets them.                               *)
(***************************************************************************)
CONSTANTS
  Decls,       \* the declarations the expansion may be given
  Outcome(_)   \* what the generator ends with on a declaration

VARIABLES input, result

Pending == [kind |-> "pending"]

Init ==
  /\ input \in Decls
  /\ result = Pending

(* The expansion, as one step. *)
Expand ==
  /\ result = Pending
  /\ result' = Outcome(input)
  /\ UNCHANGED input

Spec == Init /\ [][Expand]_<<input, result>>

=============================================================================
