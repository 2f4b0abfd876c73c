----------------------------- MODULE MCPipeline -----------------------------
(***************************************************************************)
(* An instance of Pipeline for TLC: two processes, two runs on a fixture   *)
(* of two findings, a scope that allows contact and one that does not and  *)
(* leaves a finding out.  Processes are interchangeable, and so are runs.  *)
(***************************************************************************)
EXTENDS Pipeline, TLC

CONSTANTS u, v, narrow, wide

MCInScope   == [s \in Scope |-> IF s = narrow THEN {u} ELSE {u, v}]
MCFixtureOf == [r \in Run |-> {u, v}]
MCSymmetry  == Permutations(Process) \cup Permutations(Run)
=============================================================================
