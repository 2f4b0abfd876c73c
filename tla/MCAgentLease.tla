----------------------------- MODULE MCAgentLease -----------------------------
(***************************************************************************)
(* Instances of AgentLease for TLC.  Rows are rowids; processes are model  *)
(* values, interchangeable where a cfg names their symmetry.               *)
(***************************************************************************)
EXTENDS AgentLease, TLC

ProcessSymmetry == Permutations(Service)

\* The steps of DisciplinedSpec, as a constraint on those of Spec, so that TLC counts
\* each action.
DisciplineIsKept == Disciplined'
=============================================================================
