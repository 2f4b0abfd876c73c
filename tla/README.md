# Verification of SRC-Auto

SRC-Auto is a local dashboard and a command line around a set of test labs, a
scan pipeline, approved reviews of local applications and a controlled agent.
Its parts keep durable state in SQLite and in files, are shared by threads and by
processes that know nothing of each other, and have to survive an exit at any
point.  This directory holds TLA+ modules translated from that code, the TLC
instances that check them, and theorems about them that TLAPS checks.

To check: `tlc -config lease_claims.cfg MCAgentLease`, and so on for each run of
section 4; `tlapm PipelineProofs.tla`, and so on for each module of section 5.

## 1. Inventory

| Part | State | Operations | Interacts through |
| --- | --- | --- | --- |
| Agent task table and service (`agent_runner.py` `AgentHistory`, `agent_service.py`) | one row per task: state, owner process, counters, trace; in memory `enabled`, `current_id`, a cancel event, one worker thread | `list`, `create`, `acquire`, `update`, `start`, `cancel_run`, `set_enabled`, `close`, `_run` | the table is shared by every dashboard; `control._lock` inside one |
| Agent loop (`AgentRunner.run`) | a copy of the row, the used actions, the gate | gate, fixed recipes, one model decision, one action, saves, report | the row, the tools, the model client, the ledger |
| Agent tools (`agent_actions.py`) | the task's request counter and client | `execute`, `fetch`, discovery, comparisons, filing of candidates | the lab, the store, `local_regression.py` |
| Cloud budget (`agent_cloud_budget.py`) | the `spend` table | `reserve` | every process, by `BEGIN IMMEDIATE` |
| Lab operation queue (`dashboard_control.py`, `dashboard_state.py`) | per lab the tail of operations and a detection, a pool, a journal file | `submit`, `submit_all`, `submit_detection`, `cancel_detection`, `prepare_shutdown`, `close`, restart | pool threads, the lab manager |
| Lab manager (`local_labs.py`) | the inventory; containers | `status`, `operate` | Docker; called by the dashboard and by shells |
| Detection workflow (`dashboard_detection.py`) | the stage of one detection, a run | `run`, cancelled between stages | the queue, the store |
| Local regression (`local_regression.py`, discovery of `juice_shop.py`) | counters and the session of one call | cases, logins, setup of a database, scores | the labs; the agent's tools and the shell |
| Review coordinators (`local_application_workflow.py`, `business_workflow.py`, `source_audit.py`) | the session's approvals, a task row, a run, the claim of an origin | `preview`, `start`, `_run`; `local-app-run` of the shell | the agent service, the store |
| Approved requests, offline scanner (`local_application.py`, `business_workflow.py`, `guarded_passive.py`) | counters, recipes, a container | request with its gates and redirects, scan | the target, Docker |
| Targets, sessions, business drafts (`local_targets.py`, `session_vault.py`, `business_preparation.py`) | two tables and the session files | save, edit, delete, preview, gate | threads that answer requests, without a lock |
| Run store (`store.py`) | runs, findings, links, evidence, reports, claims, spendings | one transaction each | every process |
| Scan pipeline, command line (`pipeline.py`, `controls.py`, `live_plan.py`, `cli.py`) | the marker STOP, run status, the stage in hand | `new`, `run`, `resume`, `stop`, `run-live`, `remote-preview`, `remote-triage` | the store, the scope, the model |
| Scope policy (`scope.py`, `local_scope.py`) | none | decide a url, a method, a redirect, a plan | everyone who sends a request |
| Remote review (`remote_ai.py`, `ai.py`) | the confirmed digest | review a finding | the command line |
| Dashboard server and interface (`dashboard_server.py`, `dashboard/src`) | session token | HTTP routes over the parts above | the browser |
| Defensive analysis, documents of the Juice Shop validation, texts, synthetic labs, installers | files | parsing, formatting | - |

### What is hard, and what makes each part correct

- *Agent task table.*  Processes race for rows; one may exit with a row active, and
  another must notice without mistaking a live owner for a dead one.  A paused row
  may be resumed while the process that paused it still has writes to make.
  Correct: one worker at a time, a worked row says who works on it, nothing is shown
  as running that nobody runs, every task in hand is let go of.
- *Agent loop.*  The process may exit between the save of an intent and that of
  its outcome, or during a model call, and the task goes on elsewhere from what was
  saved.  Correct: over all holds together the limits hold, nothing with an unknown
  outcome is repeated, a completed task is covered, the loop ends.
- *Lab operation queue.*  Each operation waits for its predecessor inside a worker
  thread and is handed to the pool outside the lock; the journal is saved in
  between.  Correct: work on a lab does not overlap, what is shown happened, what is
  accepted is finished, a restart is honest about what it cut off.
- *Labs.*  Two processes operate the same container; a command may fail, or run out
  of time with or without effect; one limit of requests binds two clients with their
  logins and redirects.  Correct: the limit, refusals that end a tool, results that
  had their answers, detections whose run and page agree.
- *Coordinators.*  An approval is used once; origins are claimed in a table that
  outlives the claimant; run, row and claim are three tables written one by one.
- *Approved requests.*  Permission may be withdrawn between any two checks of a
  request, and a redirect chooses where the next hop goes.  Correct: nothing leaves the
  scope, one request slips out after a withdrawal and no second one.
- *Preparation.*  Target, session and draft are read one after the other while
  other threads save, delete and save again under the same names.
- *Runs.*  A run is not claimed: two processes may work on one, and findings are
  shared by all runs.  Correct: a report is complete and backed, the marker holds,
  what is contacted was approved.

`PROJECT.json` lists each hazard at its line with the properties about it.

## 2. Plan

Done, in this order: `AgentLease` with the abstract lock `TaskLock`; `AgentRunner`;
`LabControl`; `ScopeDecision`; `ReviewTasks`; `ApprovedProbe`; `Preparation`;
`Pipeline` (with the ledger); `LabManager` and `LabVisits`; the abstract lock
`LabGuard`; and the proofs about all of them.  What remains would be a composition of
`ReviewTasks` with `ApprovedProbe` in one state space (now the first has the second
as its phase "working").

## 3. The modules

How they build on each other: `ApprovedProbe` extends `ScopeDecision`; `LabVisits`
extends `LabManager`; `AgentLease` and `ReviewTasks` both implement `TaskLock`,
and `LabControl` implements `LabGuard`.
`ReviewTasks` says who may be in the phase that `ApprovedProbe` describes,
`AgentLease` who may run the loop `AgentRunner` describes, and `LabControl` that the
dashboard does one thing at a time with a lab, which `LabVisits` starts from.

### AgentLease and TaskLock: who may run a task

`AgentLease` models `AgentHistory` and `AgentService`, and of the loop and the
coordinators the claims, the saves and the way out.

| In the module | In the code |
| --- | --- |
| `state`, `owner` | columns of the row; completed, cancelled and needs-human are one settled state, since no claim tells them apart |
| `life`, `current` | whether the process is up, closed, enabled; `AgentService.current_id` |
| `phase`, `held` | where the worker stands between two transactions; the settled state in its copy, which a late `save()` writes again |
| `Run`, `Fresh` | the rowids; rows are created in their order |
| `Poll(s, dead)` | `AgentHistory.list`: it marks rows of those for whom `owner_is_alive` answers "exited", among the newest `ListLimit` rows (50 in the code) only; `Listed` are the rows it reads |
| `Start`, `StartRefused`, `Resume`, `Strand` | `AgentService.start` and the coordinators' `start`, with their failures |
| `Load`, `Acquire`, `ClaimRefused` | the two transactions with which a worker claims its row |
| `Settle`, `FinalSave`, `CoordinatorReport`, `ReportFails` | the outcome, the report, and the whole-row save with the report |
| `CheckOwner`, `FailWrite`, `CoordinatorGivesUp`, `Leave` | the exception handlers and the `finally` block |

Each SQLite write is one step (`BEGIN IMMEDIATE`).  A refresh, and the first look of
`Resume`, read the newest rows; a boot, a creation and a claim go through all.  So a
row that is older than those, resumed by its id, is not noticed by any refresh when its
process exits, but only at the next boot, creation or claim; `ExitIsNoticed` is about
the listed rows, and fails without that condition.  `TaskLock` is what the table is
there for: one console works on one row, and another begins only after it stopped.

### AgentRunner: what one task does

`doc` is the row in the table, `mem[c]` a worker's copy of it.  Of the trace a row
keeps how each action last ended (`result`), because the loop reads nothing else.
`performed`, `did`, `asked` and `sent` are history: what was really done and asked,
whether or not a save recorded it.  One turn is `TopGate`, then `RecipeTurn` or
`ModelTurn`.  An action is saved as an intent (`Begin`), performed (`Perform`) and
saved with its outcome (`ToolSucceeds`, `ToolFails`, `RecipeIncomplete`).  A model
call is counted, made (`Ask`), charged (`NoAnswer`, `AnswerGate`) and judged
(`Malformed`, `Finish`, `AskPerson`, `Propose`).  Every path ends in `FinalSave` or
`Fault`.  Time and the resource check are a free choice of the gate, and so are
the model's answers within what `Decision.parse` lets through.

### LabControl: the operation queue

| In the module | In the code |
| --- | --- |
| `job[<<l, k>>]` | the dictionaries made by `submit` and `submit_detection`; a slot `k` is only a name |
| `tail`, `probe`, `prev` | `_operations[l]`, `_detections[l]`, `operation['previous']` until its `done` is set |
| `stage`, `queue` | which thread has the job and where it stands; the pool's queue |
| `gate`, `shut`, `seen` | `_closing`, the pool's shutdown, requests between the READY check and the lock |
| `journal`, `up` | the file, with the active states as one, which is how it is read; whether the container runs: how healthy it is can change at any moment, so each look at it has its own answer (`PassPrecheck`, `FailPrecheck`, `Shown`) |

`Submit`, `SubmitDetection`, `CancelDetection`, `PrepareShutdown` and `Close` are
atomic because they hold the lock.  `Log` and `HandOver` are the calls that follow
a submission, the second without the lock.  `OtherEvent` saves the journal for a
lab that is not looked at.  A start completes on an answer of the lab, whatever Docker
says of its health, so it leaves a container that runs and no more (`OperateUp`).

`Shown` is the state the page shows, for any answer of Docker and any status of the
container, both read before the lock is taken.  An operation that failed last hides a
running detection there, and while Docker does not answer the lab is shown as blocked,
whatever its operation is at (`OperationShown`).  `ShownIsReal` says what is left: never
idle or over while something is at work.

`LabGuard` is what the queue promises to the labs: one job at a time on each, the
agent only while there is none, and an exit lets go of all.  The jobs whose `stage`
is "acting" are the ones it knows (`Acting`); that the code grants the lock long
before, in its tables and under another lock, is what the refinement abstracts from.

### LabManager and LabVisits: what happens at a lab

`LabManager` has the validation of the inventory, `Status`, and `operate()` as its
commands: `Remove` and `RunCommand` with every way Docker may fail in, `WaitHealth`
with its deadline and its cancellation.  A container is followed by its number, so
that a replaced one is another.  `LabVisits` adds who visits: the tools of an agent
task, detections and the operator's regression, whose requests share the steps
`Send`, `Refuse`, `Withhold`, `LogIn`, `AskCase` and `AskFetch`.  The cases are
grouped by lab and validated by `ValidCases`, and what an answer must be is `Evaluate`.  `DetectStep` is
`LocalDetectionWorkflow.run` stage by stage; `Conclude` and `File` are the end of a
tool and the writes of a candidate finding, one by one.

### ReviewTasks: the coordinators

Three tables written one after the other (`row`, `run`, `claim`), approvals
(`key`), and for each process where its worker stands (`pc`, `hand`, `seen`).
`worked` is history.  `CreateRow`, `MakeRun`, `Submit` are `start`; `AcquireRow`,
`CreateRun`, `Claim`, `Settle`, `FinalUpdate`, `Publish`, `Leave` are `_run`, with a
failure at each (`SetupFails`, `SubmitFails`, `ClaimRefused`, `WorkFails`,
`ReportFails`, `MarkRunFailed`); `ShellBegin` to `ShellEnds` are `local-app-run`.
`TakeOver` is the claim over one whose owner has exited.

Other commands write the same run table and ask for no claim.  `RunLocal` and
`LocalEnds` are `run` and `resume` with `--local-lab`: they ask that the scope is that of
the run, and no more, so that a run of a local or business task, or of `new`, may say running
with its origin claimed by nobody, or by somebody else.  `lab` is history: the runs whose
status was last written so.  `StopRun` is every command that overwrites a status with a
final one: `stop`, and the refusals of `run`, `resume` and `run-live`.  A run is "none",
"created", "running" or "over"; the claim asks about no other.

### ScopeDecision and ApprovedProbe: what a worker may send

`ScopeDecision` has `ScopeGuard.decide`, the local scope, redirects and plans as
operators over urls.  `ApprovedProbe` is one worker: `Open`, `Check`,
`BeforeRequest`, `Attempt`, `Recheck`, `Connected`, `Clear`, `Send`, `Receive`,
`Redirect` and `Read` are one request in the order of the code, and `Analyse` to
`InspectRemoved` the scanner's container.  `Withdraw` and `Restore` come between
any two of them.  Each of the four kinds of worker has its own gates (`SeenByCheck`,
`SeenByGate`).

### Preparation: what a business review rests on

`targets`, `vault` and `drafts` are what is on disk, and `job[p]` what the request
of a client, or the review, has read so far.  Each read and write of a table or a
file is a step.  A session file is numbered when it is written: its hash is what
tells two files apart.

### Pipeline: runs, reviews and the ledger

`job[p]` is the command process `p` carries out, `at` a boundary between two stages
or within one, with what is left to do (`todo`).  `Insert`, `Triage`, `Package` and
`Write` are the stages that change what others read, row by row; `Boundary` is
`_guard`.  `BeginLive` and `Tool` are `run_external`; `TellDigest`, `BeginReview`,
`Gate`, `Send` the remote review, where a digest stands for the payload it is of;
`Reserve`, `Call`, `EndCall` a cloud call of an agent, which spends from the same
table.

## 4. What is checked

Fairness, where a run needs it, is weak and of program steps only: of the worker of
each console and the refresh of an open page (`AgentLease`), of the worker
(`AgentRunner`, `ReviewTasks`), of each job's threads (`LabControl`).  The code
justifies it by timeouts: model calls, HTTP requests and Docker commands all have
one, and counters and deadlines bound the loop.  Nothing is assumed of
operators, crashes or shutdowns.

| Run | Instance | Shows |
| --- | --- | --- |
| `lease_claims` | 2 processes, 3 rows, the second a coordinator's and the others resumable, a refresh reads the newest one, failing starts | a worked row names its worker and is active (`WorkedRowIsTaken`); the table implements the lock (`ImplementsLock`) |
| `lease_progress` | 2 processes, 2 rows, the second a coordinator's, a refresh reads the newest one, no discipline assumed, fairness | what is shown as running is in hand; every task is let go of; an exit that leaves a listed row active is noticed |
| `lease_second_console` | 2 processes, 2 resumable rows | finding 1 |
| `runner_limits` | 2 consoles in turn, one recipe and one proposed action, a cloud budget, fairness | no repetition, coverage, the limits of steps, calls, requests and tokens over all holds (`WorkWithinLimits`), a hold runs out whatever a worker does (`HoldRunsOut`), the loop ends |
| `runner_stale_snapshot` | 2 consoles, discipline assumed | finding 2 |
| `lab_queue` | 1 lab, 3 slots, 2 workers, 2 requests at a time, fairness | work begins and ends as the abstract lock allows (`ImplementsGuard`); the threads that wait for an operation before theirs are fewer than the pool has, and what they wait for is on its way (`WaitersLeaveRoom`); and five more properties of the queue |
| `lab_full_pool` | the same with 1 worker | finding 3 |
| `lab_visits` | 4 labs of which one is visited, 2 containers, 6 requests, 2 hops, 1 round | seven properties of visits, and that what a process has begun runs out (`WorkRunsOut`) |
| `reviews` | 2 consoles, a shell, 2 tasks, 4 approvals, 1 origin, fairness | one contact per origin, work once, a run that says running holds its origin (but for `--local-lab` and unwritten reports), origins let go of |
| `probe` | 4 kinds of worker, 2 recipes each, limit 5, 7 reasons | scope, one request after a withdrawal, coverage, no container unreported, and work that runs out within its limit of connections (`WorkRunsOut`) |
| `prep` | 2 clients, a target, 2 bodies and origins, 1 name, 2 drafts, limit 1, 2 session files | only the approved file for the approved target; one request after a change |
| `pipe` | 2 processes, 2 runs with the same 2 findings, 2 scopes, 2 tools, 3 commands, budget 1 | the marker holds, reports are backed, contact is approved, calls are reserved |

*Discipline.*  `lease_claims` has the action constraint `DisciplineIsKept`: nobody
resumes a row its last worker is still going to write.  Its behaviours are those of
`DisciplinedSpec`.  For rows of coordinators, which cannot be resumed, the
condition is always met.  Finding 1 is what happens without it.  The theorems have
it for any number of processes.

*Bounds.*
- Lease: a row and a competing one, a holder and a rival.  A restarted process is a
  new member of `Service`.  A limit of one listed row makes every older row one that no
  refresh reads.
- Loop: two actions let one be a recipe and one a proposal; each counter meets
  its limit, and each is somewhere the first to; two consoles in turn give a crash, a
  resumption and another crash.
- Queue: `Slots` is the latest operation, the one it replaced and a detection.  A
  stop is not replaced, so no more can be waiting or at work; two requests, because
  an order of two hand-overs is what may be wrong.  In `lab_queue` the pool has a
  worker to spare: the lab is one of several.
- Visits: `MaxBorn` allows a replaced container, six requests cover a login with a
  redirect, the cases of a lab and a refusal at every point before the end.
- Reviews: two tasks of four approvals are every pair of kinds, on the one origin
  they compete for.
- Probe: two recipes with their redirects may want eight attempts or more, and the limit
  of five falls in the midst of the second.
- Preparation: two files tell "same" from "newer", two drafts reach the limit.
- Pipeline: three commands are a run, a second on the same run or its stop, and its
  resumption.  The four properties are proved for any number.

Symmetry is used in `lease_claims`, `prep` and `pipe`, which check no liveness.
Deadlock is checked in the two runs of the queue only; elsewhere everybody may have
exited, or the work is over.  `NeverStuck` says of `LabVisits` instead that whoever
has begun something can go on by itself; it is an invariant because liveness of so
large a state space was out of reach.

Every property of a passing run has a faulty variant of the code beside the
definition it replaces ("Faulty variant" in the modules) under which it fails.

### Disagreements found by runs

1. `agent_runner.py:464`.  The last save of a paused task writes the whole in-memory
   row.  If another console has resumed the row in between, that save takes its
   claim away, and a third task can be claimed beside it.
2. `agent_runner.py:185`.  The trace is read before the claim and used after it, so
   an action performed by another console in between is performed again.
3. `dashboard_control.py:283`.  Operations are handed to the pool outside the lock.
   A stop handed over first blocks a worker until the start behind it in the queue
   is done; with one worker per lab, the stops of all labs block them all.

### Other observations made while modelling

None of these belongs to a run; the models have the code's behaviour in each case
unless section 6 says otherwise.

- Agent: a refresh reads 50 rows (`agent_runner.py:106`), so the exit of a process that
  works on an older row, resumed by its id, shows on no page until the next task is
  created or claimed; a cancellation after the last save leaves the row cancelling
  (`agent_service.py:145`); the charge of a model call is lost when the process exits
  during it (`agent_runner.py:362`); a task with an outcome unknown can be finished
  on its other observations (`agent_runner.py:425`); `start` failing after
  `current_id` is set leaves the process unable to start tasks
  (`agent_service.py:119`, `Strand`, which `lease_progress` switches off); the owner
  check and the failure write are two transactions (`agent_service.py:134`).
- Queue: an operation whose hand-over the closed pool refuses stays queued, with a
  stop possibly waiting for it (`dashboard_control.py:105`).
- Pipeline: `IMPLEMENTATION_REPORT.md:115` says the disk is checked before every
  local stage; `_guard` does so once (`pipeline.py:68`).  `resume` of one run removes
  the marker for all.  "stopped" may be overwritten by a runner that finishes its
  last stage.  A run whose process exits stays "running" (`pipeline.py:71`).
  `run --local-lab` marks a run of a local or business task as running, and then as over,
  whatever it said and whoever works on it (`cli.py:1212`, `pipeline.py:71`).  The
  triage's budget is per process (`controls.py:33`).  A refused `remote-triage` prints
  the digest without the payload.
- Preparation: two threads may both find room below the limit of drafts
  (`local_targets.py:61`); an edit can bring back a deleted draft
  (`local_targets.py:63`); a session may be unlinked after it was replaced
  (`business_preparation.py:109`), and the name in the vault is not unique in a race,
  against the comment at `business_preparation.py:96`.
- Scanner: the container of a process that exits is left behind
  (`guarded_passive.py:314`); `ContainerIsReported` is about workers that end.
- Labs: `KNOWN_ISSUES.md:142` and `README.md:276` say an unhealthy lab gives
  BLOCKED_DEPENDENCY and old scanner output is not reused, while
  `tools/run_local_lab_validation.py` reads the adjudication of the fixed round
  directory for a blocked round too.  A round is COMPLETED whatever its
  discovery came to.  A DVWA login whose redirect is withheld counts as a
  login.  Two shells may both see that a database has to be set up.  `down`
  removes the services of all labs.  Cases blocked by scope are not
  counted as blocked, so that the round is PARTIAL.

## 5. What is proved

All theorems hold for every value of the constants under one named assumption per
module (`LeaseAssumption`, `RunnerAssumption`, `ControlAssumption`,
`ReviewAssumption`, `ProbeAssumption`, `PreparationAssumption`,
`PipelineAssumption`; `ManagerAssumption` and `VisitAssumption` for the labs), which
says what kind of thing each constant is and, where the code validates it (cases,
inventory, policy, plan), that it has been validated.  TLC evaluates each of them.

*AgentLeaseProofs.*  `LeaseType`; `LiveRowInHand`, from what each phase of a worker
says of its row.  `DisciplinedExclusion`: a worked row is active and owned by its
worker, so that a claim, which needs all rows idle, finds nobody at work; that is
preserved only if nobody else writes the row, which `Disciplined` says.
`CoordinatedExclusion` does without it.  Two refinement theorems map each step to a
claim, a yield or a stutter of `TaskLock`.

*AgentRunnerProofs.*  `RunnerType`, `CompletionCovered` with
consoles racing in any way.  With one console at a time (`AloneSpec`) `NoActionTwice`
(`NoReplay`) and `WorkBounded` (`WorkWithinLimits`).  A limit is checked on
the worker's copy, and what was done is in no row; so the invariant has three
parts: the row accounts for what was done, the copy agrees with it but for what
the current step has yet to save, and a gate that was passed left room for what
follows.  Requests of an action cut short are in no row; the limit holds because a
row with such an action begins no other.  `HoldsRunOut` (`HoldRunsOut`) holds with consoles
racing again: no row in the table or in hand has more steps or calls than the limits
(`RowsSpent`, kept because each is looked at right before it is counted, in the same
copy), every step of a worker goes on to a later phase of its turn or counts a step or
a call (`WorkerGoesOn`), either leaves less (`LessIsLeft`), and no console changes what
another has in hand (`OthersInHand`).

*LabControlProofs.*  For any number of labs, slots, workers and requests.  `Basics`
describes jobs, tables and queue.  On it rest: `Showing`, what has not settled shows
in its table, and of one kind only one is at work; `Exclusive`, an operation, a
detection and the agent are never active together; `Journalled`, whatever is logged
and unsettled is active in the journal too; `Real`, what has completed fits
whether the container runs, in the table, in the journal and before it is entered.  Together they are
`Safe`, and give `OneActs`, `CompletedIsReal`, `ProbesAreRunning`, `ShutdownIsQuiet` and
`RestartIsHonest`.  `Real` needs `Showing` to know that the job that changes the
container is the one in the table, or the one it waits for.  `NoCircularWait`
(`WaitersLeaveRoom`) is why one thread more than there are labs is enough: who waits is
the latest of its lab, so waiting jobs are an injection into the labs; what it waits for
is a start, which waits for nothing, and is queued or at work until the pool is closed.  The labs are finitely many, as the inventory file lists them.  `LabsAreGuarded` is the
refinement: a job that begins finds its lab free (`Exclusive`, and `Showing` for its
own kind, by `OneOnLab`), the agent finds all labs free, and every other step ends
one job or none, or all of them with the process.

*LabVisitsProofs.*  `Basics` has the types, that each place belongs to one kind of job
(`Fits`), that a session has accounted for each request (`Sound`: those answered as
expected and those left are all there are, unless one of them was not) and that
what the task was told is true (`Honest`).  It gives `ResultsAreBacked` and
`CandidatesAreFiled`.  `Counted` ties the counter of the policy
to what was sent (`RequestsAreLimited`); `Staged` has the run of a detection at the
stage the detection is at (`RunsAreSettled`); `Fresh` says what each step of a reset
already knows of the container it began with (`ResetsAreFresh`).  `DataStaysAlone` is
an action property from `Fits`: only the shell is ever where a database is made.
`VisitsType` needs all of these, since the place of a job bounds its other fields.
`VisitsRunOut` (`WorkRunsOut`) measures a process by the requests it may still make, each
worth more than a login with its redirects, and by its place on the way to the next:
a step ends a request (`NearerByRequest`), follows a redirect (`NearerByHop`, which needs
that a fetch is never at its last hop, `Hops`), gets nearer in place (`NearerByPlace`)
or ends the job (`NearerByEnd`); `NextMoves` adds that only an exit or the process's own
steps move what it has begun.

*ReviewTasksProofs.*  A process in contact holds the claim (`Leased`), so two that
contact an origin are one (`OneContact`), and each step is a step of the lock
(`ClaimsImplementLock`).  `WorkIsDoneOnce` needs that runs are made once (`Made`) and
that an approval is used up before a task that came from it works (`Spent`).
`RunningHoldsItsOrigin` (`RunningIsClaimed`) is about what says running by a claim (`Running`), and not by `--local-lab`.  It
follows a console to its end, write by write (`Endings`): it lets go of its claim only
with a run that no longer says so, or with a report that could not be written; then the task
is marked as such and nobody takes it up again (`Kept`, `Abandoned`).  A shell has
no such row, so it is its claims that are followed (`ShellClaims`).  `ReviewsType` is
proved rather than checked.

*ApprovedProbeProofs.*  `ProbesStayInScope` from `AllowedIsInScope`, a lemma about the
scope decision, and `Routed`, which carries it over redirects.  `ProbesWithinLimit`
(`Counted`), `ProbeRunsOut` (`WorkRunsOut`: each step of the worker goes on to a later one
of its attempt, or counts an attempt, `WorkerGoesOn`), `OneRequestAfterWithdrawal` (`Wary`: past a check, nothing that was
withdrawn earlier is still withdrawn), `CompletedProbeIsCovered` (`Recited`),
`NoContainerUnreported` (`Held`) and `ProbeType`.  Of the decision itself, also for
scopes of domains, which no run has: `ExclusionsReachBelow` and `NarrowerAllowsLess`,
both from `BelowIsBelow`.

*PreparationProofs.*  Files are numbered, so what is later found under a name is the
same file or a newer one (`NotOlder`).  A review that loads a file after it has seen
the approved one, and then sees the approved one again, has loaded that one:
`ApprovedSessionOnly`.  `OneRequestAfterChange` needs to know which of the three
things each step of the gate has read again (`LateFits`).

*PipelineProofs.*  `MarkerHolds` (`LateWaits`), `OnlyApprovedContact` (`Approved`, since the
scope of a run never changes), `LedgerCoversCalls` (`Covered`, which counts the
reservations whose call is still to be made) and `ReportsAreBacked`: at each stage
what is no longer to do has been done (`Worked`), and what is done stays done
whatever other runs do (`Lasts`).

*Only model-checked.*  Liveness (`TaskIsLetGo`, `ExitIsNoticed`, `LoopEnds`,
`AcceptedEnds`, `OriginIsLetGo`), which is out of the provers' reach; `NeverStuck`, for
its ENABLED; the violations.  Every other property of a passing run is a theorem.
Of termination the provers reach the part that does not speak of fairness: a measure
that each step of a worker lowers and nothing else raises (`HoldsRunOut`, `ProbeRunsOut`,
`VisitsRunOut`), for any limits.  What the runs add is that a worker that has begun can
always take a step: `LoopEnds` and `NeverStuck` check it on their instances.

## 6. What is not modelled

- Failing SQLite transactions, and failing saves of the journal
  (`dashboard_control.py:151`).
- Docker creating a container after the command for it was cut off and cleaned up
  after; Docker's own work is external.  That `docker inspect` may run out of time
  uncaught counts as the command raising.
- Time: deadlines and timeouts may strike whenever they are looked at.  The ledger
  lives through one day; the price of a call is a constant.
- The fixture a run is given is fixed for the run (`FixtureOf`).
- Text: what a page, a prompt or a report says is reduced to what the code makes of
  it.  Encryption of sessions and the fingerprint of a source tree are one
  outcome each.
- Of the pipeline: the rate limiter, tool profiles, and the stages whose writes
  nobody reads.  Of the store: assets, events, submissions, stored reviews.
- The scope resolver, the picker and the target review, which are forms around the
  scope decision; HTTP parsing and tokens of the server; providers, credentials and
  response parsing of the models.
- The dashboard's interface, defensive analysis, the documents of the Juice Shop
  validation, texts and configuration, synthetic labs, installers: rendering,
  parsing and formatting without state that a rule depends on.
