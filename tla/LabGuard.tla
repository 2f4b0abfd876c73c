------------------------------- MODULE LabGuard -------------------------------
(***************************************************************************)
(* What the operation queue promises to the labs: each lab is worked on by *)
(* one job at a time, labs beside one another, and the agent works while   *)
(* nobody is at work on any of them.  A process that exits lets go of all. *)
(***************************************************************************)
CONSTANTS Lab, Slot

VARIABLES
  working,  \* the jobs at work, each a lab and its slot
  agent     \* is the agent at work

Init == working = {} /\ agent = FALSE

\* A job begins on a lab that nobody works on.
Begin(l, k) ==
  /\ ~agent /\ \A w \in working : w[1] # l
  /\ working' = working \cup {<<l, k>>}
  /\ UNCHANGED agent

End(w) ==
  /\ w \in working
  /\ working' = working \ {w}
  /\ UNCHANGED agent

AgentBegin ==
  /\ ~agent /\ working = {}
  /\ agent' = TRUE
  /\ UNCHANGED working

AgentEnd ==
  /\ agent
  /\ agent' = FALSE
  /\ UNCHANGED working

Exit == working' = {} /\ agent' = FALSE

Next == \/ \E l \in Lab, k \in Slot : Begin(l, k)
        \/ \E w \in working : End(w)
        \/ AgentBegin \/ AgentEnd \/ Exit

Spec == Init /\ [][Next]_<<working, agent>>
=============================================================================
