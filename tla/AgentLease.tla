------------------------------ MODULE AgentLease ------------------------------
(***************************************************************************)
(* Who may run an agent task.  Several dashboard processes ("services")    *)
(* share one SQLite table of task rows, data/agent.sqlite3.  A row is      *)
(* claimed by the process whose owner record it carries; a process that    *)
(* finds an active row whose owner has exited marks it interrupted, and a  *)
(* person may then resume it from any process.                             *)
(*                                                                         *)
(* Modelled from agent_runner.py (AgentHistory and the start, the saves    *)
(* and the end of AgentRunner.run), agent_service.py (AgentService) and    *)
(* the worker functions of the three coordinators, which differ from       *)
(* AgentService._run in what they write and when.  The decisions taken     *)
(* inside the loop are in AgentRunner.tla; here a running task saves some  *)
(* number of times and then settles.                                       *)
(*                                                                         *)
(* Every SQLite transaction is one atomic step, because AgentHistory opens *)
(* each one that writes with BEGIN IMMEDIATE.  Everything between two      *)
(* transactions may interleave with the other processes.                   *)
(***************************************************************************)
EXTENDS Naturals, FiniteSets

CONSTANTS
  Service,      \* dashboard processes; a restart is a new process
  Run,          \* rowids of the task rows that may ever be created
  Coordinated,  \* rows created by a coordinator: never resumable
  NoRun,        \* "current_id is None"
  Nobody,       \* owner of a row that does not exist yet
  ListLimit,    \* how many of the newest rows a refresh reads: 50 in the code
  StartFaults   \* TRUE if publishing a task may fail before its worker runs

ASSUME LeaseAssumption ==
  /\ Run \subseteq Nat
  /\ ListLimit \in Nat
  /\ Coordinated \subseteq Run
  /\ NoRun \notin Run
  /\ Nobody \notin Service
  /\ StartFaults \in BOOLEAN

VARIABLES
  state,    \* state[r]: the durable state of row r
  owner,    \* owner[r]: the process named in row r
  life,     \* life[s]: is the process up, and does it accept agent tasks
  current,  \* current[s]: AgentService.current_id
  phase,    \* phase[s]: where the one worker thread of s stands
  held      \* held[s]: the settled state in the worker's in-memory row

vars == <<state, owner, life, current, phase, held>>
rows == <<state, owner>>

-----------------------------------------------------------------------------
\* The states of a row.  "ended" stands for completed, cancelled and
\* needs-human, which no code path tells apart when it claims a row.
Active    == {"queued", "running", "cancelling"}
Resumable == {"paused", "interrupted"}
Settled   == {"paused", "ended", "failed"}
RunState  == {"absent", "interrupted"} \cup Active \cup Settled

Life  == {"unborn", "disabled", "enabled", "closing", "dead"}
Phase == {"idle", "queued", "resuming", "loaded", "running", "reporting",
          "rejected", "failing", "leaving", "stranded"}

\* Phases in which the worker will still write a row it no longer works on.
LateWriter == {"reporting", "failing"}

Up(s) == life[s] \in {"disabled", "enabled", "closing"}

TypeOK ==
  /\ state \in [Run -> RunState]
  /\ owner \in [Run -> Service \cup {Nobody}]
  /\ life \in [Service -> Life]
  /\ current \in [Service -> Run \cup {NoRun}]
  /\ phase \in [Service -> Phase]
  /\ held \in [Service -> Settled]

Init ==
  /\ state = [r \in Run |-> "absent"]
  /\ owner = [r \in Run |-> Nobody]
  /\ life = [s \in Service |-> "unborn"]
  /\ current = [s \in Service |-> NoRun]
  /\ phase = [s \in Service |-> "idle"]
  /\ held = [s \in Service |-> "ended"]

-----------------------------------------------------------------------------
(***************************************************************************)
(* AgentHistory.  owner_is_alive answers True, False or None (unknown).    *)
(* Only False counts as exited, and a live process is never reported as    *)
(* exited; an exited one may be reported as unknown.  Each transaction     *)
(* therefore sees some set of exited owners.                               *)
(***************************************************************************)
Exited == {s \in Service : life[s] = "dead"}

\* Faulty variant: an unknown owner is treated as an exited one.
JudgedExitedOrUnknown == SUBSET {s \in Service : life[s] # "unborn"}

JudgedExited == SUBSET Exited

\* Rows are created in the order of their rowids.
Fresh(r) == \A q \in Run : q >= r => state[q] = "absent"

\* What list() reads: the newest rows, up to its limit.  Only a refresh and the
\* first look of start() read no more than these; every claim reads all rows.
Listed ==
  {r \in Run : /\ state[r] # "absent"
               /\ Cardinality({q \in Run : q > r /\ state[q] # "absent"}) < ListLimit}

\* Faulty variant: rows that were being cancelled are not recovered.
ReapedWithoutCancelling(dead, read) ==
  [r \in Run |-> IF r \in read /\ state[r] \in {"queued", "running"} /\ owner[r] \in dead
                 THEN "interrupted" ELSE state[r]]

\* What list(), __init__ and _assert_idle write: of the rows they read, the
\* active ones of exited owners become interrupted.
Reaped(dead, read) ==
  [r \in Run |-> IF r \in read /\ state[r] \in Active /\ owner[r] \in dead
                 THEN "interrupted" ELSE state[r]]

\* Faulty variant: only running rows block a claim.
IdleIfNoneRuns(dead, read) ==
  \A r \in read : state[r] = "running" => owner[r] \in dead

\* None of the rows read is active, but for those of exited owners:
\* _assert_idle, which reads all rows but one, does not raise.
Idle(dead, read) ==
  \A r \in read : state[r] \in Active => owner[r] \in dead

\* A process opens the history and marks what exited processes left.
Boot(s) ==
  /\ life[s] = "unborn"
  /\ life' = [life EXCEPT ![s] = "disabled"]
  /\ \E dead \in JudgedExited : state' = Reaped(dead, Run)
  /\ UNCHANGED <<owner, current, phase, held>>

\* list(), called by every dashboard refresh and by AgentService.active: an
\* older row, resumed by its id, is beyond its reach.
Poll(s, dead) ==
  /\ Up(s)
  /\ state' = Reaped(dead, Listed)
  /\ UNCHANGED <<owner, life, current, phase, held>>

-----------------------------------------------------------------------------
(***************************************************************************)
(* AgentService and the coordinators, under control._lock.                 *)
(***************************************************************************)

\* The operator's session switch; switching off also asks the worker to stop,
\* which the worker may notice at any later gate.
SetEnabled(s, value) ==
  /\ life[s] \in {"disabled", "enabled"}
  /\ life' = [life EXCEPT ![s] = IF value THEN "enabled" ELSE "disabled"]
  /\ UNCHANGED <<rows, current, phase, held>>

Close(s) ==
  /\ life[s] \in {"disabled", "enabled"}
  /\ life' = [life EXCEPT ![s] = "closing"]
  /\ UNCHANGED <<rows, current, phase, held>>

\* The process exits, at any point; the table keeps what was committed.
Crash(s) ==
  /\ Up(s)
  /\ life' = [life EXCEPT ![s] = "dead"]
  /\ current' = [current EXCEPT ![s] = NoRun]
  /\ phase' = [phase EXCEPT ![s] = "idle"]
  /\ held' = [held EXCEPT ![s] = "ended"]
  /\ UNCHANGED rows

\* A standard recipe of a coordinator needs no enabled agent.
MayStart(s, r) ==
  /\ life[s] = "enabled" \/ (life[s] = "disabled" /\ r \in Coordinated)
  /\ current[s] = NoRun

\* start(): create() asserts idleness and inserts the row in one transaction,
\* so the earlier look at "active" adds nothing.
Start(s, r) ==
  /\ MayStart(s, r)
  /\ Fresh(r)
  /\ \E dead \in JudgedExited :
       /\ Idle(dead, Run)
       /\ state' = [Reaped(dead, Run) EXCEPT ![r] = "queued"]
  /\ owner' = [owner EXCEPT ![r] = s]
  /\ current' = [current EXCEPT ![s] = r]
  /\ phase' = [phase EXCEPT ![s] = "queued"]
  /\ UNCHANGED <<life, held>>

\* start() of a coordinator whose setup fails, or a queue that refuses the
\* task: the row is created and then marked failed.
StartRefused(s, r) ==
  /\ MayStart(s, r)
  /\ Fresh(r)
  /\ \E dead \in JudgedExited :
       /\ Idle(dead, Run)
       /\ state' = [Reaped(dead, Run) EXCEPT ![r] = "failed"]
  /\ owner' = [owner EXCEPT ![r] = s]
  /\ UNCHANGED <<life, current, phase, held>>

\* start() with resumeId: the listed rows must be idle; the row itself, listed
\* or not, is only looked at; the claim comes later.
Resume(s, r) ==
  /\ MayStart(s, r)
  /\ r \notin Coordinated
  /\ \E dead \in JudgedExited :
       /\ Idle(dead, Listed)
       /\ Reaped(dead, Listed)[r] \in Resumable
       /\ state' = Reaped(dead, Listed)
  /\ current' = [current EXCEPT ![s] = r]
  /\ phase' = [phase EXCEPT ![s] = "resuming"]
  /\ UNCHANGED <<owner, life, held>>

\* An exception after current_id is published and before any try block that
\* clears it: policy.yaml unreadable in start(), or the Store not opening in a
\* coordinator's worker.
Strand(s) ==
  /\ StartFaults
  /\ phase[s] \in {"queued", "resuming"}
  /\ phase' = [phase EXCEPT ![s] = "stranded"]
  /\ UNCHANGED <<rows, life, current, held>>

\* cancel_run(): whatever the row says, it now says cancelling.
CancelRun(s) ==
  /\ Up(s)
  /\ current[s] # NoRun
  /\ state' = [state EXCEPT ![current[s]] = "cancelling"]
  /\ UNCHANGED <<owner, life, current, phase, held>>

-----------------------------------------------------------------------------
(***************************************************************************)
(* The worker thread of a service.                                         *)
(***************************************************************************)
At(s, p) == phase[s] = p
Go(s, p) == phase' = [phase EXCEPT ![s] = p]

\* AgentRunner.run reads the row it was asked to resume, before claiming it.
Load(s) ==
  /\ At(s, "resuming")
  /\ Go(s, IF state[current[s]] \in Resumable THEN "loaded" ELSE "rejected")
  /\ UNCHANGED <<rows, life, current, held>>

\* acquire() may claim row r for s.
Claimable(s, r) ==
  \/ At(s, "loaded") /\ state[r] \in Resumable
  \/ At(s, "queued") /\ state[r] = "queued" /\ owner[r] = s

\* acquire(): check, recover and claim in one transaction, rolled back whole
\* when it raises.
Acquire(s) ==
  LET r == current[s] IN
  /\ phase[s] \in {"queued", "loaded"}
  /\ \E dead \in JudgedExited :
       \/ /\ Claimable(s, r) /\ Idle(dead, Run \ {r})
          /\ state' = [Reaped(dead, Run) EXCEPT ![r] = "running"]
          /\ owner' = [owner EXCEPT ![r] = s]
          /\ Go(s, "running")
       \/ /\ ~(Claimable(s, r) /\ Idle(dead, Run \ {r}))
          /\ Go(s, "rejected")
          /\ UNCHANGED rows
  /\ UNCHANGED <<life, current, held>>

\* The coordinator could not take the origin lease of the target.
ClaimRefused(s) ==
  /\ At(s, "queued")
  /\ current[s] \in Coordinated
  /\ Go(s, "rejected")
  /\ UNCHANGED <<rows, life, current, held>>

\* save(): the loop writes its whole in-memory row, over whatever is there.
Save(s) ==
  /\ At(s, "running")
  /\ state' = [state EXCEPT ![current[s]] = "running"]
  /\ owner' = [owner EXCEPT ![current[s]] = s]
  /\ UNCHANGED <<life, current, phase, held>>

\* The save that ends the loop.
Settle(s, st) ==
  /\ At(s, "running")
  /\ state' = [state EXCEPT ![current[s]] = st]
  /\ owner' = [owner EXCEPT ![current[s]] = s]
  /\ held' = [held EXCEPT ![s] = st]
  /\ Go(s, "reporting")
  /\ UNCHANGED <<life, current>>

\* After the report, AgentRunner saves its whole row once more with reportId.
FinalSave(s) ==
  /\ At(s, "reporting")
  /\ current[s] \notin Coordinated
  /\ state' = [state EXCEPT ![current[s]] = held[s]]
  /\ owner' = [owner EXCEPT ![current[s]] = s]
  /\ Go(s, "leaving")
  /\ UNCHANGED <<life, current, held>>

\* A coordinator writes its report, for an agent task too, and only adds
\* reportId to the row.
CoordinatorReport(s) ==
  /\ At(s, "reporting")
  /\ current[s] \in Coordinated
  /\ Go(s, "leaving")
  /\ UNCHANGED <<rows, life, current, held>>

\* Writing the report fails.
ReportFails(s) ==
  /\ At(s, "reporting")
  /\ \/ /\ current[s] \in Coordinated
        /\ state' = [state EXCEPT ![current[s]] = "failed"]
        /\ Go(s, "leaving")
     \/ /\ current[s] \notin Coordinated
        /\ Go(s, "rejected")
        /\ UNCHANGED state
  /\ UNCHANGED <<owner, life, current, held>>

\* Faulty variant: the handler goes on to the report and leaves the row as it is.
GivesUpSilently(s) ==
  /\ At(s, "rejected")
  /\ current[s] \in Coordinated
  /\ held' = [held EXCEPT ![s] = "ended"]
  /\ Go(s, "reporting")
  /\ UNCHANGED <<rows, life, current>>

\* A coordinator's handler marks its row and goes on to the report.
CoordinatorGivesUp(s) ==
  /\ At(s, "rejected")
  /\ current[s] \in Coordinated
  /\ state' = [state EXCEPT ![current[s]] = "ended"]
  /\ held' = [held EXCEPT ![s] = "ended"]
  /\ Go(s, "reporting")
  /\ UNCHANGED <<owner, life, current>>

\* AgentService._run's handler first reads the owner of the row ...
CheckOwner(s) ==
  /\ At(s, "rejected")
  /\ current[s] \notin Coordinated
  /\ Go(s, IF owner[current[s]] = s THEN "failing" ELSE "leaving")
  /\ UNCHANGED <<rows, life, current, held>>

\* ... and in a second transaction marks it failed.
FailWrite(s) ==
  /\ At(s, "failing")
  /\ state' = [state EXCEPT ![current[s]] = "failed"]
  /\ Go(s, "leaving")
  /\ UNCHANGED <<owner, life, current, held>>

\* Faulty variant: current_id is not cleared.
LeaveKeepingCurrent(s) ==
  /\ At(s, "leaving")
  /\ Go(s, "idle")
  /\ UNCHANGED <<rows, life, current, held>>

\* The finally block of every worker function.
Leave(s) ==
  /\ At(s, "leaving")
  /\ current' = [current EXCEPT ![s] = NoRun]
  /\ Go(s, "idle")
  /\ UNCHANGED <<rows, life, held>>

\* The worker makes progress.  Save is left out: it may be repeated.
WorkerStep(s) ==
  \/ Load(s) \/ Acquire(s) \/ ClaimRefused(s)
  \/ \E st \in Settled : Settle(s, st)
  \/ FinalSave(s) \/ CoordinatorReport(s) \/ ReportFails(s)
  \/ CoordinatorGivesUp(s) \/ CheckOwner(s) \/ FailWrite(s) \/ Leave(s)

OperatorStep(s) ==
  \/ \E value \in BOOLEAN : SetEnabled(s, value)
  \/ Close(s) \/ CancelRun(s)
  \/ \E r \in Run : Start(s, r) \/ StartRefused(s, r) \/ Resume(s, r)

ProcessStep(s) ==
  \/ Boot(s) \/ Crash(s) \/ Strand(s)
  \/ \E dead \in JudgedExited : Poll(s, dead)

Next == \E s \in Service :
          WorkerStep(s) \/ Save(s) \/ OperatorStep(s) \/ ProcessStep(s)

Spec == Init /\ [][Next]_vars

(***************************************************************************)
(* Fairness.  The worker thread is scheduled, its loop is bounded by       *)
(* max_steps, max_model_calls and max_seconds, and every call it makes has *)
(* a timeout, so it does not stay in a phase for ever.  The open dashboard *)
(* refreshes, and the liveness check of an exited process eventually says  *)
(* so.  Nothing is assumed of the operator or of crashes.                  *)
(***************************************************************************)
Fairness ==
  \A s \in Service :
    /\ WF_vars(WorkerStep(s))
    /\ WF_vars(Poll(s, Exited))

FairSpec == Spec /\ Fairness

-----------------------------------------------------------------------------
(***************************************************************************)
(* Properties.                                                             *)
(***************************************************************************)

\* No two processes are inside the agent loop at the same time: the table is
\* the lock that keeps a second console from running a second agent.
OneWorker ==
  \A s, t \in Service :
    phase[s] = "running" /\ phase[t] = "running" => s = t

\* The row a worker is working on names that worker's process as its owner and
\* is active, so that every other process sees the task as taken.
WorkedRowIsTaken ==
  \A s \in Service :
    phase[s] = "running" => /\ owner[current[s]] = s
                            /\ state[current[s]] \in {"running", "cancelling"}

\* A row that says queued or running and whose owner is up is the row that
\* owner's worker has in hand: nothing is shown as running that nobody runs.
LiveRowIsInHand ==
  \A r \in Run :
    state[r] \in {"queued", "running"} /\ owner[r] \in Service /\ Up(owner[r])
      => current[owner[r]] = r

\* A task in hand is let go of: the service can take the next one.
TaskIsLetGo ==
  \A s \in Service : current[s] # NoRun ~> current[s] = NoRun

\* An active row of an exited process is noticed while any process is up, if it
\* is among the newest rows that a refresh reads when the process exits: nobody
\* can push it off the list before, because create() marks it or is refused.
\* An older row, resumed by its id, stays as it is until the next task is
\* created or claimed or a process boots.
ExitIsNoticed ==
  \A r \in Run :
    (r \in Listed /\ state[r] \in Active /\ owner[r] \in Exited)
      ~> (state[r] \notin Active \/ \A s \in Service : ~Up(s))

(***************************************************************************)
(* The discipline under which the table is a lock for resumable tasks too: *)
(* nobody works on a row that another process, which has finished working  *)
(* on it, is still going to write.                                         *)
(***************************************************************************)
Disciplined ==
  \A s, t \in Service :
    s # t /\ phase[s] = "running" /\ current[t] = current[s]
      => phase[t] \notin LateWriter

DisciplinedSpec == Init /\ [][Next /\ Disciplined']_vars

\* The console at work, with its row, is what the abstract lock sees.
Lock == INSTANCE TaskLock
  WITH working <- {<<s, current[s]>> : s \in {t \in Service : phase[t] = "running"}}

\* The table, with its recovery and its cancellations, implements the lock.
ImplementsLock == Lock!Spec
=============================================================================
