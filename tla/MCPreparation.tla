---------------------------- MODULE MCPreparation ----------------------------
(***************************************************************************)
(* An instance of Preparation for TLC: two clients, one target that may be *)
(* moved from one origin to the other, one name for the sessions, and two  *)
(* drafts where there is room for one.                                     *)
(***************************************************************************)
EXTENDS Preparation, TLC

CONSTANTS x, y, here, there

MCOriginOf == [b \in Body |-> IF b = x THEN here ELSE there]
MCSymmetry == Permutations(Client) \cup Permutations(Draft)
=============================================================================
