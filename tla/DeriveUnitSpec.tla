---------------------------- MODULE DeriveUnitSpec ----------------------------
(***************************************************************************)
(* What the derives of one item promise as a whole (spec.md 5, 7): the     *)
(* item is compiled in one step, in which each derive it lists gets one    *)
(* result of its generator, and rustc accepts the item exactly when every  *)
(* result is Ok and every attribute the item uses is a helper one of its   *)
(* derives registers.  No error is swallowed and no valid item rejected.   *)
(* DeriveUnit, which runs the entry points one at a time and then          *)
(* resolves the attributes, implements it.                                 *)
(***************************************************************************)
CONSTANTS
  Items,       \* the items the derives may be applied to
  Results(_),  \* what the generator of a derive may return
  Helpers(_)   \* the helper attributes the derives of an item register

VARIABLES item, results, verdict

Init ==
  /\ item \in Items
  /\ results = [d \in item.derives |-> "none"]
  /\ verdict = "pending"

(* The item is compiled: every derive's generator returns, then rustc     *)
(* decides.                                                                 *)
Compile ==
  /\ verdict = "pending"
  /\ \E g \in [item.derives -> UNION {Results(d) : d \in item.derives}] :
       /\ \A d \in item.derives : g[d] \in Results(d)
       /\ results' = g
       /\ verdict' = IF /\ \A d \in item.derives : g[d] = "ok"
                        /\ item.attrs \subseteq Helpers(item)
                       THEN "accepted" ELSE "rejected"
  /\ UNCHANGED item

Spec == Init /\ [][Compile]_<<item, results, verdict>>

=============================================================================
