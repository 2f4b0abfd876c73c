------------------------------- MODULE TaskLock -------------------------------
(***************************************************************************)
(* What the shared task table promises to the consoles that use it: at any *)
(* time at most one of them works, on one row, and work passes from one    *)
(* console or row to the next only through a moment when nobody works.     *)
(***************************************************************************)
CONSTANTS Service, Run

VARIABLE working  \* the console at work with its row, or nothing

Init == working = {}

\* A console starts working on a row.
Claim(s, r) ==
  /\ working = {}
  /\ working' = {<<s, r>>}

\* The console at work stops, fails or exits.
Yield ==
  /\ working # {}
  /\ working' = {}

Next == Yield \/ \E s \in Service, r \in Run : Claim(s, r)

Spec == Init /\ [][Next]_working
=============================================================================
