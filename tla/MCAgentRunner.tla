---------------------------- MODULE MCAgentRunner ----------------------------
(***************************************************************************)
(* Instances of AgentRunner for TLC: two tool actions, of which the first  *)
(* may be a fixed recipe of the task.                                      *)
(***************************************************************************)
EXTENDS AgentRunner, TLC

CONSTANTS a1, a2

NoRecipe  == <<>>
OneRecipe == <<a1>>

\* What a finish must cite: every action, or any one of them.
EachAction == {{a1}, {a2}}
AnyAction  == {{a1, a2}}

\* The usage of a model call: within the reservation, or also beyond it.
WithinReservation == 1..2
BeyondReservation == {1, 2, 3}

=============================================================================
