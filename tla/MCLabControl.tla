----------------------------- MODULE MCLabControl -----------------------------
(***************************************************************************)
(* Instances of LabControl.  The code has one worker thread per lab, up to *)
(* five of each.                                                           *)
(***************************************************************************)
EXTENDS LabControl
=============================================================================
