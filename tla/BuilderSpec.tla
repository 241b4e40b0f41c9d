----------------------------- MODULE BuilderSpec -----------------------------
(***************************************************************************)
(* What the companion builder type promises (spec.md 4.3, 4.4 and 8),      *)
(* with build as one atomic step: the builder is consumed and the result   *)
(* is Expected(box), the first-missing-field-or-Ok rule of BuilderDecl.    *)
(* BuilderRuntime, which runs build one `let` at a time as the emitted     *)
(* code does, implements this specification.                               *)
(***************************************************************************)
EXTENDS BuilderDecl

VARIABLES
  status,   \* "free", "live" or "built"
  box,      \* the presence boxes of each builder
  result    \* what build returned, None before

vars == <<status, box, result>>

TypeOK ==
  /\ status \in [Handles -> {"free", "live", "built"}]
  /\ box \in [Handles -> [FieldNames -> Boxed]]
  /\ result \in [Handles -> Results \cup {None}]

Init ==
  /\ status = [h \in Handles |-> "free"]
  /\ box = [h \in Handles |-> EmptyBox]
  /\ result = [h \in Handles |-> None]

(* An empty companion instance: every presence box absent. *)
New(h) ==
  /\ status[h] = "free"
  /\ status' = [status EXCEPT ![h] = "live"]
  /\ box' = [box EXCEPT ![h] = EmptyBox]
  /\ UNCHANGED result

(* A setter never fails; the last write to a field wins. *)
With(h, f, v) ==
  /\ status[h] = "live"
  /\ box' = [box EXCEPT ![h][f] = v]
  /\ UNCHANGED <<status, result>>

(* An independent copy of a companion instance. *)
CloneBuilder(h, c) ==
  /\ status[h] = "live"
  /\ status[c] = "free"
  /\ status' = [status EXCEPT ![c] = "live"]
  /\ box' = [box EXCEPT ![c] = box[h]]
  /\ UNCHANGED result

(* The validating constructor: consumes the instance, yields Expected. *)
Build(h) ==
  /\ GenBuild
  /\ status[h] = "live"
  /\ status' = [status EXCEPT ![h] = "built"]
  /\ result' = [result EXCEPT ![h] = Expected(box[h])]
  /\ UNCHANGED box

(* The instance, or the result of building it, goes out of scope. *)
Drop(h) ==
  /\ status[h] \in {"live", "built"}
  /\ status' = [status EXCEPT ![h] = "free"]
  /\ box' = [box EXCEPT ![h] = EmptyBox]
  /\ result' = [result EXCEPT ![h] = None]

Next ==
  \E h \in Handles :
    \/ New(h)
    \/ \E f \in FieldNames, v \in Values : With(h, f, v)
    \/ \E c \in Handles : CloneBuilder(h, c)
    \/ Build(h)
    \/ Drop(h)

Spec == Init /\ [][Next]_vars

=============================================================================
