---------------------------- MODULE MCReviewTasks ----------------------------
(***************************************************************************)
(* Instances of ReviewTasks for TLC: one origin, two previews and a plan   *)
(* file for it.                                                            *)
(***************************************************************************)
EXTENDS ReviewTasks, TLC

CONSTANTS local, business, source, file, origin, c1, c2

Kinds == [a \in Approval |-> CASE a = local -> "local"
                               [] a = business -> "business"
                               [] a = source -> "source"
                               [] OTHER -> "shell"]
Desks == [a \in Approval |-> IF a = local THEN c1 ELSE c2]
Sites == [a \in Approval |-> origin]
=============================================================================
