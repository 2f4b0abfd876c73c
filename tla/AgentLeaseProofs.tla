--------------------------- MODULE AgentLeaseProofs ---------------------------
(***************************************************************************)
(* Theorems about AgentLease, for every set of processes and rows.         *)
(***************************************************************************)
EXTENDS AgentLease, TLAPS

\* What the proofs use of the constants: neither the order of the rowids nor the
\* limit of the list matters to them.
LEMMA Constants ==
  /\ Coordinated \subseteq Run
  /\ NoRun \notin Run
  /\ Nobody \notin Service
BY LeaseAssumption

USE Constants

-----------------------------------------------------------------------------
(***************************************************************************)
(* Type correctness.                                                       *)
(***************************************************************************)

\* What recovery leaves in the state column is again a column of states.
LEMMA ReapedType ==
  ASSUME TypeOK, NEW dead, NEW read
  PROVE  Reaped(dead, read) \in [Run -> RunState]
BY DEF Reaped, TypeOK, RunState

\* The variables keep their types: in particular a process only ever holds a
\* row of the table or none, and every row state is one the code knows.
THEOREM LeaseType == Spec => []TypeOK
<1>1. Init => TypeOK
  BY DEF Init, TypeOK, RunState, Life, Phase, Settled
<1>2. TypeOK /\ [Next]_vars => TypeOK'
  <2> SUFFICES ASSUME TypeOK, [Next]_vars PROVE TypeOK'
    OBVIOUS
  <2> USE DEF TypeOK, Go, At
  <2>1. CASE UNCHANGED vars
    BY <2>1 DEF vars
  <2>2. ASSUME NEW s \in Service, WorkerStep(s) PROVE TypeOK'
    <3>1. CASE Load(s)
      BY <3>1 DEF Load, rows, Phase
    <3>2. CASE Acquire(s)
      <4>1. CASE UNCHANGED rows
        BY <3>2, <4>1 DEF Acquire, rows, Phase
      <4>2. ASSUME NEW dead \in JudgedExited,
                   state' = [Reaped(dead, Run) EXCEPT ![current[s]] = "running"],
                   owner' = [owner EXCEPT ![current[s]] = s],
                   phase' = [phase EXCEPT ![s] = "running"]
            PROVE  TypeOK'
        BY <3>2, <4>2, ReapedType DEF Acquire, RunState, Active, Phase
      <4> QED
        BY <3>2, <4>1, <4>2 DEF Acquire
    <3>3. CASE ClaimRefused(s)
      BY <3>3 DEF ClaimRefused, rows, Phase
    <3>4. ASSUME NEW st \in Settled, Settle(s, st) PROVE TypeOK'
      BY <3>4 DEF Settle, RunState, Phase
    <3>5. CASE FinalSave(s)
      BY <3>5 DEF FinalSave, RunState, Phase
    <3>6. CASE CoordinatorReport(s)
      BY <3>6 DEF CoordinatorReport, rows, Phase
    <3>7. CASE ReportFails(s)
      BY <3>7 DEF ReportFails, RunState, Settled, Phase
    <3>8. CASE CoordinatorGivesUp(s)
      BY <3>8 DEF CoordinatorGivesUp, RunState, Settled, Phase
    <3>9. CASE CheckOwner(s)
      BY <3>9 DEF CheckOwner, rows, Phase
    <3>10. CASE FailWrite(s)
      BY <3>10 DEF FailWrite, RunState, Settled, Phase
    <3>11. CASE Leave(s)
      BY <3>11 DEF Leave, rows, Phase
    <3> QED
      BY <2>2, <3>1, <3>2, <3>3, <3>4, <3>5, <3>6, <3>7, <3>8, <3>9, <3>10, <3>11
         DEF WorkerStep
  <2>3. ASSUME NEW s \in Service, Save(s) PROVE TypeOK'
    BY <2>3 DEF Save, RunState, Active
  <2>4. ASSUME NEW s \in Service, OperatorStep(s) PROVE TypeOK'
    <3>1. ASSUME NEW value \in BOOLEAN, SetEnabled(s, value) PROVE TypeOK'
      BY <3>1 DEF SetEnabled, rows, Life
    <3>2. CASE Close(s)
      BY <3>2 DEF Close, rows, Life
    <3>3. CASE CancelRun(s)
      BY <3>3 DEF CancelRun, RunState, Active
    <3>4. ASSUME NEW r \in Run, Start(s, r) PROVE TypeOK'
      BY <3>4, ReapedType DEF Start, RunState, Active, Phase
    <3>5. ASSUME NEW r \in Run, StartRefused(s, r) PROVE TypeOK'
      BY <3>5, ReapedType DEF StartRefused, RunState, Settled
    <3>6. ASSUME NEW r \in Run, Resume(s, r) PROVE TypeOK'
      BY <3>6, ReapedType DEF Resume, Phase
    <3> QED
      BY <2>4, <3>1, <3>2, <3>3, <3>4, <3>5, <3>6 DEF OperatorStep
  <2>5. ASSUME NEW s \in Service, ProcessStep(s) PROVE TypeOK'
    <3>1. CASE Boot(s)
      BY <3>1, ReapedType DEF Boot, Life
    <3>2. CASE Crash(s)
      BY <3>2 DEF Crash, rows, Life, Phase, Settled
    <3>3. CASE Strand(s)
      BY <3>3 DEF Strand, rows, Phase
    <3>4. ASSUME NEW dead \in JudgedExited, Poll(s, dead) PROVE TypeOK'
      BY <3>4, ReapedType DEF Poll
    <3> QED
      BY <2>5, <3>1, <3>2, <3>3, <3>4 DEF ProcessStep
  <2> QED
    BY <2>1, <2>2, <2>3, <2>4, <2>5 DEF Next
<1> QED
  BY <1>1, <1>2, PTL DEF Spec

-----------------------------------------------------------------------------
(***************************************************************************)
(* A worker's phase fits its process: only a process that is up has one,   *)
(* it is idle exactly when it holds no row, and only a row that is not     *)
(* coordinated is ever resumed.                                            *)
(***************************************************************************)
PhaseFits ==
  \A s \in Service :
    /\ ~Up(s) => phase[s] = "idle"
    /\ current[s] = NoRun <=> phase[s] = "idle"
    /\ phase[s] \in {"resuming", "loaded"} => current[s] \notin Coordinated

\* A coordinated row in hand is owned by the process that holds it.
CoordinatedIsOwned ==
  \A s \in Service : current[s] \in Coordinated => owner[current[s]] = s

\* No process has owned a row before it was started.
UnbornOwnNothing ==
  \A r \in Run : owner[r] \in Service => life[owner[r]] # "unborn"

\* A row in hand is in the table.
HeldRowExists ==
  \A s \in Service : current[s] \in Run => state[current[s]] # "absent"

LEMMA InitFits ==
  Init => PhaseFits /\ CoordinatedIsOwned /\ UnbornOwnNothing /\ HeldRowExists
BY DEF Init, PhaseFits, CoordinatedIsOwned, UnbornOwnNothing, HeldRowExists, Up

\* Recovery neither creates nor removes rows.
LEMMA ReapedExists ==
  ASSUME TypeOK, NEW dead, NEW read, NEW r \in Run
  PROVE  Reaped(dead, read)[r] = "absent" <=> state[r] = "absent"
BY DEF Reaped, TypeOK, Active

LEMMA HeldRowExistsStep ==
  ASSUME TypeOK, PhaseFits, HeldRowExists, [Next]_vars
  PROVE  HeldRowExists'
<1> USE DEF TypeOK, PhaseFits, HeldRowExists, Go, At, rows
<1>1. CASE UNCHANGED vars
  BY <1>1 DEF vars
<1>2. ASSUME NEW s \in Service, WorkerStep(s) PROVE HeldRowExists'
  <2>1. CASE Load(s) \/ ClaimRefused(s) \/ CoordinatorReport(s) \/ CheckOwner(s)
    BY <2>1 DEF Load, ClaimRefused, CoordinatorReport, CheckOwner
  <2>2. CASE Acquire(s)
    BY <2>2, ReapedExists, ReapedType DEF Acquire
  <2>3. ASSUME NEW st \in Settled, Settle(s, st) PROVE HeldRowExists'
    BY <2>3 DEF Settle, Settled
  <2>4. CASE FinalSave(s)
    BY <2>4 DEF FinalSave, Settled
  <2>5. CASE ReportFails(s) \/ CoordinatorGivesUp(s) \/ FailWrite(s)
    BY <2>5 DEF ReportFails, CoordinatorGivesUp, FailWrite
  <2>6. CASE Leave(s)
    BY <2>6 DEF Leave
  <2> QED
    BY <1>2, <2>1, <2>2, <2>3, <2>4, <2>5, <2>6 DEF WorkerStep
<1>3. ASSUME NEW s \in Service, Save(s) PROVE HeldRowExists'
  BY <1>3 DEF Save
<1>4. ASSUME NEW s \in Service, OperatorStep(s) PROVE HeldRowExists'
  <2>1. ASSUME NEW value \in BOOLEAN, SetEnabled(s, value) PROVE HeldRowExists'
    BY <2>1 DEF SetEnabled
  <2>2. CASE Close(s) \/ CancelRun(s)
    BY <2>2 DEF Close, CancelRun
  <2>3. ASSUME NEW r \in Run, Start(s, r) PROVE HeldRowExists'
    BY <2>3, ReapedExists, ReapedType DEF Start
  <2>4. ASSUME NEW r \in Run, StartRefused(s, r) PROVE HeldRowExists'
    BY <2>4, ReapedExists, ReapedType DEF StartRefused
  <2>5. ASSUME NEW r \in Run, Resume(s, r) PROVE HeldRowExists'
    BY <2>5, ReapedExists, ReapedType DEF Resume, Resumable
  <2> QED
    BY <1>4, <2>1, <2>2, <2>3, <2>4, <2>5 DEF OperatorStep
<1>5. ASSUME NEW s \in Service, ProcessStep(s) PROVE HeldRowExists'
  BY <1>5, ReapedExists DEF ProcessStep, Boot, Crash, Strand, Poll
<1> QED
  BY <1>1, <1>2, <1>3, <1>4, <1>5 DEF Next

LEMMA PhaseFitsStep ==
  ASSUME TypeOK, PhaseFits, [Next]_vars
  PROVE  PhaseFits'
<1> USE DEF TypeOK, PhaseFits, Up, Go, At
<1>1. CASE UNCHANGED vars
  BY <1>1 DEF vars
<1>2. ASSUME NEW s \in Service, WorkerStep(s) PROVE PhaseFits'
  <2>1. CASE Load(s)
    BY <2>1 DEF Load
  <2>2. CASE Acquire(s)
    BY <2>2 DEF Acquire
  <2>3. CASE ClaimRefused(s)
    BY <2>3 DEF ClaimRefused
  <2>4. ASSUME NEW st \in Settled, Settle(s, st) PROVE PhaseFits'
    BY <2>4 DEF Settle
  <2>5. CASE FinalSave(s)
    BY <2>5 DEF FinalSave
  <2>6. CASE CoordinatorReport(s)
    BY <2>6 DEF CoordinatorReport
  <2>7. CASE ReportFails(s)
    BY <2>7 DEF ReportFails
  <2>8. CASE CoordinatorGivesUp(s)
    BY <2>8 DEF CoordinatorGivesUp
  <2>9. CASE CheckOwner(s)
    BY <2>9 DEF CheckOwner
  <2>10. CASE FailWrite(s)
    BY <2>10 DEF FailWrite
  <2>11. CASE Leave(s)
    BY <2>11 DEF Leave
  <2> QED
    BY <1>2, <2>1, <2>2, <2>3, <2>4, <2>5, <2>6, <2>7, <2>8, <2>9, <2>10, <2>11
       DEF WorkerStep
<1>3. ASSUME NEW s \in Service, Save(s) PROVE PhaseFits'
  BY <1>3 DEF Save
<1>4. ASSUME NEW s \in Service, OperatorStep(s) PROVE PhaseFits'
  BY <1>4 DEF OperatorStep, SetEnabled, Close, CancelRun, Start, StartRefused,
              Resume, MayStart
<1>5. ASSUME NEW s \in Service, ProcessStep(s) PROVE PhaseFits'
  BY <1>5 DEF ProcessStep, Boot, Crash, Strand, Poll
<1> QED
  BY <1>1, <1>2, <1>3, <1>4, <1>5 DEF Next

\* A new row is not in the table yet, so nobody holds it.
LEMMA FreshIsAbsent ==
  ASSUME NEW r \in Run, Fresh(r)
  PROVE  state[r] = "absent"
BY LeaseAssumption DEF Fresh

LEMMA CoordinatedIsOwnedStep ==
  ASSUME TypeOK, PhaseFits, HeldRowExists, CoordinatedIsOwned, [Next]_vars
  PROVE  CoordinatedIsOwned'
<1> USE DEF TypeOK, PhaseFits, HeldRowExists, CoordinatedIsOwned, Go, At, rows
<1>1. CASE UNCHANGED vars
  BY <1>1 DEF vars
<1>2. ASSUME NEW s \in Service, WorkerStep(s) PROVE CoordinatedIsOwned'
  <2>1. CASE Load(s) \/ ClaimRefused(s) \/ CoordinatorReport(s) \/ CheckOwner(s)
    BY <2>1 DEF Load, ClaimRefused, CoordinatorReport, CheckOwner
  <2>2. CASE Acquire(s)
    BY <2>2 DEF Acquire, Claimable
  <2>3. ASSUME NEW st \in Settled, Settle(s, st) PROVE CoordinatedIsOwned'
    BY <2>3 DEF Settle
  <2>4. CASE FinalSave(s)
    BY <2>4 DEF FinalSave
  <2>5. CASE ReportFails(s) \/ CoordinatorGivesUp(s) \/ FailWrite(s)
    BY <2>5 DEF ReportFails, CoordinatorGivesUp, FailWrite
  <2>6. CASE Leave(s)
    BY <2>6 DEF Leave
  <2> QED
    BY <1>2, <2>1, <2>2, <2>3, <2>4, <2>5, <2>6 DEF WorkerStep
<1>3. ASSUME NEW s \in Service, Save(s) PROVE CoordinatedIsOwned'
  BY <1>3 DEF Save
<1>4. ASSUME NEW s \in Service, OperatorStep(s) PROVE CoordinatedIsOwned'
  BY <1>4, FreshIsAbsent DEF OperatorStep, SetEnabled, Close, CancelRun, Start, StartRefused,
                             Resume, MayStart
<1>5. ASSUME NEW s \in Service, ProcessStep(s) PROVE CoordinatedIsOwned'
  BY <1>5 DEF ProcessStep, Boot, Crash, Strand, Poll
<1> QED
  BY <1>1, <1>2, <1>3, <1>4, <1>5 DEF Next

LEMMA UnbornOwnNothingStep ==
  ASSUME TypeOK, PhaseFits, UnbornOwnNothing, [Next]_vars
  PROVE  UnbornOwnNothing'
<1> USE DEF TypeOK, PhaseFits, UnbornOwnNothing, Go, At, rows, Up
<1>1. CASE UNCHANGED vars
  BY <1>1 DEF vars
<1>2. ASSUME NEW s \in Service, WorkerStep(s) PROVE UnbornOwnNothing'
  BY <1>2 DEF WorkerStep, Load, Acquire, ClaimRefused, Settle, FinalSave,
              CoordinatorReport, ReportFails, CoordinatorGivesUp, CheckOwner,
              FailWrite, Leave
<1>3. ASSUME NEW s \in Service, Save(s) PROVE UnbornOwnNothing'
  BY <1>3 DEF Save
<1>4. ASSUME NEW s \in Service, OperatorStep(s) PROVE UnbornOwnNothing'
  BY <1>4 DEF OperatorStep, SetEnabled, Close, CancelRun, Start, StartRefused,
              Resume, MayStart
<1>5. ASSUME NEW s \in Service, ProcessStep(s) PROVE UnbornOwnNothing'
  BY <1>5 DEF ProcessStep, Boot, Crash, Strand, Poll
<1> QED
  BY <1>1, <1>2, <1>3, <1>4, <1>5 DEF Next

\* The facts about processes and rows that hold whatever the operators do.
Basics == TypeOK /\ PhaseFits /\ CoordinatedIsOwned /\ UnbornOwnNothing /\ HeldRowExists

LEMMA BasicsAlways == Spec => []Basics
<1>1. Init => Basics
  BY InitFits DEF Basics, Init, TypeOK, RunState, Life, Phase, Settled
<1>2. TypeOK /\ TypeOK' /\ Basics /\ [Next]_vars => Basics'
  BY PhaseFitsStep, CoordinatedIsOwnedStep, UnbornOwnNothingStep, HeldRowExistsStep
     DEF Basics
<1> QED
  BY <1>1, <1>2, LeaseType, PTL DEF Spec

-----------------------------------------------------------------------------
(***************************************************************************)
(* LiveRowIsInHand is not inductive: it needs the phases in which a row    *)
(* may still say queued or running.                                        *)
(***************************************************************************)
LiveOwned(r) == owner[r] \in Service /\ Up(owner[r])

InHand ==
  \A r \in Run :
    LiveOwned(r) =>
      /\ state[r] = "queued" =>
           /\ current[owner[r]] = r
           /\ phase[owner[r]] \in {"queued", "stranded", "rejected", "failing"}
      /\ state[r] = "running" =>
           /\ current[owner[r]] = r
           /\ phase[owner[r]] = "running"

\* Recovery only takes rows out of the two states.
LEMMA ReapedInHand ==
  ASSUME TypeOK, NEW dead, NEW read, NEW r \in Run, NEW st \in {"queued", "running"},
         Reaped(dead, read)[r] = st
  PROVE  state[r] = st
BY DEF Reaped, TypeOK

LEMMA InHandStep ==
  ASSUME Basics, InHand, [Next]_vars
  PROVE  InHand'
<1> USE DEF Basics, TypeOK, PhaseFits, InHand, LiveOwned, Go, At, rows
<1>1. CASE UNCHANGED vars
  BY <1>1 DEF vars, Up
<1>2. ASSUME NEW s \in Service, WorkerStep(s) PROVE InHand'
  <2>0. Up(s) /\ UNCHANGED life
    BY <1>2 DEF WorkerStep, Load, Acquire, ClaimRefused, Settle, FinalSave,
                CoordinatorReport, ReportFails, CoordinatorGivesUp, CheckOwner,
                FailWrite, Leave
  <2>1. CASE Load(s)
    BY <2>0, <2>1 DEF Load, Up
  <2>2. CASE Acquire(s)
    <3>1. CASE UNCHANGED rows /\ phase' = [phase EXCEPT ![s] = "rejected"]
      BY <2>0, <2>2, <3>1 DEF Acquire, Up
    <3>2. ASSUME NEW dead \in JudgedExited,
                 state' = [Reaped(dead, Run) EXCEPT ![current[s]] = "running"],
                 owner' = [owner EXCEPT ![current[s]] = s],
                 phase' = [phase EXCEPT ![s] = "running"]
          PROVE  InHand'
      <4>1. current[s] \in Run /\ UNCHANGED current
        BY <2>0, <2>2 DEF Acquire, Up
      <4> QED
        BY <2>0, <2>2, <3>2, <4>1, ReapedInHand, ReapedType DEF Acquire, Up
    <3> QED
      BY <2>2, <3>1, <3>2 DEF Acquire
  <2>3. CASE ClaimRefused(s)
    BY <2>0, <2>3 DEF ClaimRefused, Up
  <2>4. ASSUME NEW st \in Settled, Settle(s, st) PROVE InHand'
    BY <2>0, <2>4 DEF Settle, Settled, Up
  <2>5. CASE FinalSave(s)
    BY <2>0, <2>5 DEF FinalSave, Settled, Up
  <2>6. CASE CoordinatorReport(s)
    BY <2>0, <2>6 DEF CoordinatorReport, Up
  <2>7. CASE ReportFails(s)
    BY <2>0, <2>7 DEF ReportFails, Up
  <2>8. CASE CoordinatorGivesUp(s)
    BY <2>0, <2>8 DEF CoordinatorGivesUp, CoordinatedIsOwned, Up
  <2>9. CASE CheckOwner(s)
    BY <2>0, <2>9 DEF CheckOwner, Up
  <2>10. CASE FailWrite(s)
    BY <2>0, <2>10 DEF FailWrite, Up
  <2>11. CASE Leave(s)
    BY <2>0, <2>11 DEF Leave, Up
  <2> QED
    BY <1>2, <2>1, <2>2, <2>3, <2>4, <2>5, <2>6, <2>7, <2>8, <2>9, <2>10, <2>11
       DEF WorkerStep
<1>3. ASSUME NEW s \in Service, Save(s) PROVE InHand'
  BY <1>3 DEF Save, Up
<1>4. ASSUME NEW s \in Service, OperatorStep(s) PROVE InHand'
  <2>1. ASSUME NEW value \in BOOLEAN, SetEnabled(s, value) PROVE InHand'
    BY <2>1 DEF SetEnabled, Up
  <2>2. CASE Close(s)
    BY <2>2 DEF Close, Up
  <2>3. CASE CancelRun(s)
    BY <2>3 DEF CancelRun, Up
  <2>4. ASSUME NEW r \in Run, Start(s, r) PROVE InHand'
    BY <2>4, ReapedInHand, ReapedType DEF Start, MayStart, Up
  <2>5. ASSUME NEW r \in Run, StartRefused(s, r) PROVE InHand'
    BY <2>5, ReapedInHand, ReapedType DEF StartRefused, MayStart, Up
  <2>6. ASSUME NEW r \in Run, Resume(s, r) PROVE InHand'
    BY <2>6, ReapedInHand, ReapedType DEF Resume, MayStart, Up
  <2> QED
    BY <1>4, <2>1, <2>2, <2>3, <2>4, <2>5, <2>6 DEF OperatorStep
<1>5. ASSUME NEW s \in Service, ProcessStep(s) PROVE InHand'
  <2>1. CASE Boot(s)
    BY <2>1, ReapedInHand, ReapedType DEF Boot, UnbornOwnNothing, Up
  <2>2. CASE Crash(s)
    BY <2>2 DEF Crash, Up
  <2>3. CASE Strand(s)
    BY <2>3 DEF Strand, Up
  <2>4. ASSUME NEW dead \in JudgedExited, Poll(s, dead) PROVE InHand'
    BY <2>4, ReapedInHand, ReapedType DEF Poll, Up
  <2> QED
    BY <1>5, <2>1, <2>2, <2>3, <2>4 DEF ProcessStep
<1> QED
  BY <1>1, <1>2, <1>3, <1>4, <1>5 DEF Next

\* Whatever crashes, cancellations, lost resume races and late writes of other
\* consoles happen, a row shown as queued or running by a live console is the
\* one that console's worker has in hand.
THEOREM LiveRowInHand == Spec => []LiveRowIsInHand
<1>1. Init => InHand
  BY DEF Init, InHand, LiveOwned
<1>2. Basics /\ InHand /\ [Next]_vars => InHand'
  BY InHandStep
<1>3. Basics /\ InHand => LiveRowIsInHand
  BY DEF Basics, InHand, LiveOwned, LiveRowIsInHand
<1> QED
  BY <1>1, <1>2, <1>3, BasicsAlways, PTL DEF Spec

-----------------------------------------------------------------------------
(***************************************************************************)
(* Mutual exclusion.  A claim is refused while another active row has an   *)
(* owner that is not known to have exited, so two workers can only meet if *)
(* the row of one of them stops saying so while it works.  Recovery cannot *)
(* do that to a live owner; cancel_run leaves the row active; what remains *)
(* are late writers, which Disciplined excludes.                           *)
(***************************************************************************)
Exclusion == WorkedRowIsTaken /\ OneWorker

\* A worker that is running holds a row of the table and its process is up.
LEMMA RunningHolds ==
  ASSUME Basics, NEW s \in Service, phase[s] = "running"
  PROVE  current[s] \in Run /\ Up(s) /\ s \notin Exited
BY DEF Basics, TypeOK, PhaseFits, Up, Exited

\* While a worker runs on a row it owns, recovery by any process leaves the row
\* alone and no process may claim another one.
LEMMA RunningBlocks ==
  ASSUME Basics, WorkedRowIsTaken, NEW s \in Service, phase[s] = "running",
         NEW dead \in JudgedExited
  PROVE  /\ \A read : Reaped(dead, read)[current[s]] = state[current[s]]
         /\ \A read : Idle(dead, read) => current[s] \notin read
BY RunningHolds DEF WorkedRowIsTaken, JudgedExited, Reaped, Idle, Active, Basics, TypeOK

LEMMA ExclusionStep ==
  ASSUME Basics, Disciplined, Exclusion, [Next]_vars
  PROVE  Exclusion'
<1> USE DEF Basics, TypeOK, Exclusion, WorkedRowIsTaken, OneWorker, Go, At, rows
<1>1. CASE UNCHANGED vars
  BY <1>1 DEF vars
<1>2. ASSUME NEW s \in Service, WorkerStep(s) PROVE Exclusion'
  <2>1. CASE Load(s) \/ ClaimRefused(s) \/ CoordinatorReport(s) \/ CheckOwner(s)
    BY <2>1 DEF Load, ClaimRefused, CoordinatorReport, CheckOwner
  <2>2. CASE Acquire(s)
    <3>1. CASE UNCHANGED rows /\ phase' = [phase EXCEPT ![s] = "rejected"]
      BY <2>2, <3>1 DEF Acquire
    <3>2. ASSUME NEW dead \in JudgedExited,
                 Claimable(s, current[s]), Idle(dead, Run \ {current[s]}),
                 state' = [Reaped(dead, Run) EXCEPT ![current[s]] = "running"],
                 owner' = [owner EXCEPT ![current[s]] = s],
                 phase' = [phase EXCEPT ![s] = "running"]
          PROVE  Exclusion'
      <4>1. current[s] \in Run /\ UNCHANGED current
        BY <2>2 DEF Acquire, PhaseFits
      <4>2. ASSUME NEW t \in Service, phase[t] = "running" PROVE FALSE
        <5>1. current[t] = current[s]
          BY <3>2, <4>2, RunningBlocks, RunningHolds
        <5> QED
          BY <2>2, <3>2, <4>2, <5>1 DEF Acquire, Claimable, Resumable
      <4>3. state' \in [Run -> RunState] /\ state'[current[s]] = "running"
        BY <3>2, <4>1, ReapedType DEF RunState, Active
      <4> QED
        BY <3>2, <4>1, <4>2, <4>3
    <3> QED
      BY <2>2, <3>1, <3>2 DEF Acquire
  <2>3. ASSUME NEW st \in Settled, Settle(s, st) PROVE Exclusion'
    BY <2>3 DEF Settle, PhaseFits
  <2>4. CASE FinalSave(s)
    BY <2>4 DEF FinalSave, Disciplined, LateWriter, PhaseFits
  <2>5. CASE ReportFails(s)
    BY <2>5 DEF ReportFails, CoordinatedIsOwned, PhaseFits
  <2>6. CASE CoordinatorGivesUp(s)
    BY <2>6 DEF CoordinatorGivesUp, CoordinatedIsOwned, PhaseFits
  <2>7. CASE FailWrite(s)
    BY <2>7 DEF FailWrite, Disciplined, LateWriter, PhaseFits
  <2>8. CASE Leave(s)
    BY <2>8 DEF Leave
  <2> QED
    BY <1>2, <2>1, <2>2, <2>3, <2>4, <2>5, <2>6, <2>7, <2>8 DEF WorkerStep
<1>3. ASSUME NEW s \in Service, Save(s) PROVE Exclusion'
  BY <1>3 DEF Save, PhaseFits
<1>4. ASSUME NEW s \in Service, OperatorStep(s) PROVE Exclusion'
  <2>1. ASSUME NEW value \in BOOLEAN, SetEnabled(s, value) PROVE Exclusion'
    BY <2>1 DEF SetEnabled
  <2>2. CASE Close(s)
    BY <2>2 DEF Close
  <2>3. CASE CancelRun(s)
    BY <2>3 DEF CancelRun, PhaseFits
  <2>4. ASSUME NEW r \in Run, Start(s, r) PROVE Exclusion'
    BY <2>4, RunningBlocks, RunningHolds, ReapedType DEF Start, MayStart, PhaseFits
  <2>5. ASSUME NEW r \in Run, StartRefused(s, r) PROVE Exclusion'
    BY <2>5, RunningBlocks, RunningHolds, ReapedType DEF StartRefused, MayStart, PhaseFits
  <2>6. ASSUME NEW r \in Run, Resume(s, r) PROVE Exclusion'
    BY <2>6, RunningBlocks, RunningHolds, ReapedType DEF Resume, MayStart, PhaseFits
  <2> QED
    BY <1>4, <2>1, <2>2, <2>3, <2>4, <2>5, <2>6 DEF OperatorStep
<1>5. ASSUME NEW s \in Service, ProcessStep(s) PROVE Exclusion'
  <2>1. CASE Boot(s)
    BY <2>1, RunningBlocks, RunningHolds DEF Boot
  <2>2. CASE Crash(s)
    BY <2>2 DEF Crash
  <2>3. CASE Strand(s)
    BY <2>3 DEF Strand
  <2>4. ASSUME NEW dead \in JudgedExited, Poll(s, dead) PROVE Exclusion'
    BY <2>4, RunningBlocks, RunningHolds DEF Poll
  <2> QED
    BY <1>5, <2>1, <2>2, <2>3, <2>4 DEF ProcessStep
<1> QED
  BY <1>1, <1>2, <1>3, <1>4, <1>5 DEF Next

\* With any number of consoles, and with resumption, no two of them work at
\* once unless one works on a row that another is still going to write: the
\* late whole-row save and the late failure write are the only ways to break
\* the lock.
THEOREM DisciplinedExclusion == DisciplinedSpec => [](OneWorker /\ WorkedRowIsTaken)
<1>1. Init => Basics /\ Disciplined /\ Exclusion
  <2>1. Init => Basics
    BY InitFits DEF Basics, Init, TypeOK, RunState, Life, Phase, Settled
  <2>2. Init => Disciplined /\ Exclusion
    BY DEF Init, Disciplined, Exclusion, WorkedRowIsTaken, OneWorker
  <2> QED
    BY <2>1, <2>2
<1>2. [Next /\ Disciplined']_vars => [Next]_vars
  OBVIOUS
<1>3. Disciplined /\ [Next /\ Disciplined']_vars => Disciplined'
  BY DEF Disciplined, vars
<1>4. Basics /\ Disciplined /\ Exclusion /\ [Next]_vars => Exclusion'
  BY ExclusionStep
<1>5. DisciplinedSpec => Spec
  BY <1>2, PTL DEF DisciplinedSpec, Spec
<1>6. Exclusion => OneWorker /\ WorkedRowIsTaken
  BY DEF Exclusion
<1> QED
  BY <1>1, <1>2, <1>3, <1>4, <1>5, <1>6, BasicsAlways, PTL DEF DisciplinedSpec, Spec

\* Rows that cannot be resumed need no discipline: if every task is started by
\* a coordinator, at most one console works at a time.
THEOREM CoordinatedExclusion == Run \subseteq Coordinated => (Spec => []OneWorker)
<1> SUFFICES ASSUME Run \subseteq Coordinated PROVE Spec => []OneWorker
  OBVIOUS
<1>1. Init => Exclusion
  BY DEF Init, Exclusion, WorkedRowIsTaken, OneWorker
<1>2. Basics => Disciplined
  BY DEF Basics, TypeOK, PhaseFits, CoordinatedIsOwned, Disciplined, LateWriter
<1>3. Basics /\ Disciplined /\ Exclusion /\ [Next]_vars => Exclusion'
  BY ExclusionStep
<1>4. Exclusion => OneWorker
  BY DEF Exclusion
<1> QED
  BY <1>1, <1>2, <1>3, <1>4, BasicsAlways, PTL DEF Spec

-----------------------------------------------------------------------------
(***************************************************************************)
(* Refinement.  A step changes the phase of one process only, so with      *)
(* exclusion before and after it the set of consoles at work changes by a  *)
(* claim, a yield or not at all.                                           *)
(***************************************************************************)
AtWork == {<<s, current[s]>> : s \in {t \in Service : phase[t] = "running"}}

\* One process moves at a time, and a worker keeps its row while it works.
LEMMA OneMoves ==
  ASSUME Basics, NEW s \in Service,
         WorkerStep(s) \/ Save(s) \/ OperatorStep(s) \/ ProcessStep(s)
  PROVE  /\ \A t \in Service \ {s} : phase'[t] = phase[t] /\ current'[t] = current[t]
         /\ phase[s] = "running" /\ phase'[s] = "running" => current'[s] = current[s]
<1> USE DEF Basics, TypeOK, PhaseFits, Go, At
<1>1. CASE WorkerStep(s)
  BY <1>1 DEF WorkerStep, Load, Acquire, ClaimRefused, Settle, FinalSave,
              CoordinatorReport, ReportFails, CoordinatorGivesUp, CheckOwner,
              FailWrite, Leave
<1>2. CASE Save(s)
  BY <1>2 DEF Save
<1>3. CASE OperatorStep(s)
  BY <1>3 DEF OperatorStep, SetEnabled, Close, CancelRun, Start, StartRefused,
              Resume, MayStart
<1>4. CASE ProcessStep(s)
  BY <1>4 DEF ProcessStep, Boot, Crash, Strand, Poll
<1> QED
  BY <1>1, <1>2, <1>3, <1>4

LEMMA LockStep ==
  ASSUME Basics, OneWorker, OneWorker', Basics', [Next]_vars
  PROVE  [Lock!Next]_AtWork
<1>1. CASE UNCHANGED vars
  BY <1>1 DEF vars, AtWork
<1>2. ASSUME NEW s \in Service,
             WorkerStep(s) \/ Save(s) \/ OperatorStep(s) \/ ProcessStep(s)
      PROVE  [Lock!Next]_AtWork
  <2>0. /\ \A t \in Service \ {s} : phase'[t] = phase[t] /\ current'[t] = current[t]
        /\ phase[s] = "running" /\ phase'[s] = "running" => current'[s] = current[s]
    BY <1>2, OneMoves
  <2>1. CASE phase[s] = "running" /\ phase'[s] # "running"
    <3>1. AtWork = {<<s, current[s]>>} /\ AtWork' = {}
      BY <2>0, <2>1 DEF AtWork, OneWorker
    <3> QED
      BY <3>1 DEF Lock!Next, Lock!Yield, AtWork
  <2>2. CASE phase[s] # "running" /\ phase'[s] = "running"
    <3>1. AtWork = {} /\ AtWork' = {<<s, current'[s]>>}
      BY <2>0, <2>2 DEF AtWork, OneWorker
    <3>2. current'[s] \in Run
      BY <2>2 DEF Basics, TypeOK, PhaseFits
    <3> QED
      BY <3>1, <3>2 DEF Lock!Next, Lock!Claim, AtWork
  <2>3. CASE (phase[s] = "running") <=> (phase'[s] = "running")
    BY <2>0, <2>3 DEF AtWork
  <2> QED
    BY <2>1, <2>2, <2>3
<1> QED
  BY <1>1, <1>2 DEF Next

LEMMA LockInit == Init => Lock!Init
BY DEF Init, Lock!Init

\* The shared table implements the abstract lock for tasks started by a
\* coordinator, with any number of consoles, crashes and cancellations.
THEOREM CoordinatedRefinement == Run \subseteq Coordinated => (Spec => ImplementsLock)
<1> SUFFICES ASSUME Run \subseteq Coordinated PROVE Spec => ImplementsLock
  OBVIOUS
<1>1. Spec => []OneWorker
  BY CoordinatedExclusion
<1>2. Basics /\ OneWorker /\ Basics' /\ OneWorker' /\ [Next]_vars => [Lock!Next]_AtWork
  BY LockStep
<1> QED
  BY <1>1, <1>2, LockInit, BasicsAlways, PTL DEF Spec, ImplementsLock, Lock!Spec, AtWork

\* The same for resumable tasks under the discipline.
THEOREM DisciplinedRefinement == DisciplinedSpec => ImplementsLock
<1>1. Basics /\ OneWorker /\ Basics' /\ OneWorker' /\ [Next]_vars => [Lock!Next]_AtWork
  BY LockStep
<1>2. [Next /\ Disciplined']_vars => [Next]_vars
  OBVIOUS
<1> QED
  BY <1>1, <1>2, LockInit, DisciplinedExclusion, BasicsAlways, PTL
     DEF Spec, DisciplinedSpec, ImplementsLock, Lock!Spec, AtWork
=============================================================================
