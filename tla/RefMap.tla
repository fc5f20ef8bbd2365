------------------------------- MODULE RefMap -------------------------------
(***************************************************************************)
(* What the ref store promises: a map from ref names to values on which a  *)
(* whole batch, or one symbolic-ref call, takes effect in a single step or *)
(* not at all.  There are no files, no packed copies and no stages here.   *)
(***************************************************************************)
EXTENDS RefPlan

CONSTANTS Batches, SymrefEdits, InitialImages

VARIABLE value

Init == value \in InitialImages

Commit(b) ==
    /\ Accepts(value, b)
    /\ HeadIsReadable(value, Plan(value, b))
    /\ value' = Project(value, Plan(value, b))

EditSymbolic(e) ==
    /\ SetSymbolicAccepted(value, e) \/ DeleteSymbolicAccepted(value, e)
    /\ value' = [value EXCEPT ![e.ref] = e.target]

Next ==
    \/ \E b \in Batches : Commit(b)
    \/ \E e \in SymrefEdits : EditSymbolic(e)

Spec == Init /\ [][Next]_value
=============================================================================
