------------------------------ MODULE Pipeline ------------------------------
(***************************************************************************)
(* The command line and the runs it drives (cli.py, pipeline.py): local    *)
(* runs stage by stage, sequences of external tools, reviews of a finding  *)
(* by a remote model, and the marker STOP; over one SQLite file (store.py) *)
(* that other processes write at the same time.  Beside them, agents that  *)
(* reserve their cloud calls in the same table of spendings                *)
(* (agent_cloud_budget.py).                                                *)
(*                                                                         *)
(* A run is not claimed: two of them may work on one run.  A finding is    *)
(* known by its fingerprint alone, and is shared by the runs that meet it. *)
(* A finding stands for the url it is about.                               *)
(***************************************************************************)
EXTENDS Naturals, Sequences, FiniteSets

CONSTANTS
  Process,     \* processes of the command line, and workers of agent tasks
  Run,
  Scope,       \* scope documents, told apart by their digests
  Contact,     \* those that are confirmed and allow contact
  Url,         \* urls, and the findings about them
  InScope,     \* InScope[s]: the urls ScopeGuard.decide allows
  FixtureOf,   \* FixtureOf[r]: the findings of the fixture run r is run on
  Tools,       \* how many tools a live plan names
  TriageCost,  \* what the triage of a finding costs
  CallCost,    \* what a cloud call reserves
  Budget,      \* the budget of the day; the model lives through one day
  MaxCommands, \* bound: commands given, beside new
  None

ASSUME PipelineAssumption ==
  /\ Contact \subseteq Scope
  /\ InScope \in [Scope -> SUBSET Url] /\ FixtureOf \in [Run -> SUBSET Url]
  /\ Tools \in Nat \ {0}
  /\ TriageCost \in Nat /\ CallCost \in Nat \ {0} /\ Budget \in Nat /\ MaxCommands \in Nat
  /\ None \notin Scope

VARIABLES
  stop,     \* the file STOP
  scope,    \* scope[r]: the scope run r was created for (scope_hash), or None
  status,   \* status[r]: of table runs
  found,    \* found[u]: the status of the finding, "none" while there is none
  links,    \* table finding_runs
  packed,   \* table evidence: <<r, u>>
  report,   \* report[r]: the findings of the report, with the status it gives them
  told,     \* history: payloads whose digest a person was told
  given,    \* commands given
  job,      \* job[p]: the command process p is at
  late,     \* history: those that finished a piece of work while STOP stood
  spent,    \* table spend, by category
  calls     \* history: cloud calls that went out

runs  == <<scope, status>>
books == <<found, links, packed, report>>
cloud == <<spent, calls>>
vars  == <<stop, runs, books, told, given, job, late, cloud>>

-----------------------------------------------------------------------------
\* "refused" stands for blocked_disk, blocked_scope, blocked_plan, blocked_policy,
\* awaiting_adapter, awaiting_manual_execution and tool_error: nothing tells them apart.
Status == {"none", "created", "running", "completed", "failed", "stopped", "refused",
           "completed_tools"}

\* STAGES.  What the six from asset_discovery to normalize write (assets, events and
\* checkpoints) no run reads again: one stage stands for them.
Stages == <<"normalize", "dedup", "triage", "evidence", "report">>

\* A finding as list_findings returns it.
Row == Url \X {"candidate", "triaged"}

\* A command: what it is about, the step it is at, the stage or tool that is next, what
\* it has still to work on, and what this process has spent (BudgetGovernor.records).
Job == [cmd : {"local", "live", "review", "cloud"}, run : Run \cup {None},
        at : {"start", "boundary", "work", "close", "tool", "gate", "send", "reserved",
              "called"},
        n : 1..(Len(Stages) + Tools), todo : SUBSET Row, own : 0..Budget,
        halted : BOOLEAN]

TypeOK ==
  /\ stop \in BOOLEAN
  /\ scope \in [Run -> Scope \cup {None}]
  /\ status \in [Run -> Status]
  /\ \A r \in Run : scope[r] = None <=> status[r] = "none"
  /\ found \in [Url -> {"none", "candidate", "triaged"}]
  /\ links \subseteq {l \in Run \X Url : found[l[2]] # "none"}
  /\ packed \subseteq links
  /\ report \in [Run -> SUBSET Row]
  /\ told \subseteq Url
  /\ given \in 0..MaxCommands
  /\ job \in [Process -> Job \cup {None}]
  /\ late \subseteq Process
  /\ spent \in [{"triage", "cloud"} -> Nat]
  /\ calls \in Nat

Init ==
  /\ stop = FALSE
  /\ scope = [r \in Run |-> None] /\ status = [r \in Run |-> "none"]
  /\ found = [u \in Url |-> "none"]
  /\ links = {} /\ packed = {} /\ report = [r \in Run |-> {}]
  /\ told = {} /\ given = 0
  /\ job = [p \in Process |-> None]
  /\ late = {}
  /\ spent = [x \in {"triage", "cloud"} |-> 0]
  /\ calls = 0

-----------------------------------------------------------------------------
At(p, s)     == job[p] # None /\ job[p].at = s
ToStep(p, s) == job' = [job EXCEPT ![p].at = s]
Over(p)      == job' = [job EXCEPT ![p] = None]

\* set_run_status: whoever writes last is right.
SetStatus(r, st) == status' = [status EXCEPT ![r] = st]

\* list_findings: every finding linked to the run, as it is now.
Listed(r) == {<<u, found[u]>> : u \in {x \in Url : <<r, x>> \in links}}

Free(p)  == job[p] = None
Order(p) == Free(p) /\ given < MaxCommands /\ given' = given + 1

Command(c, r, s, todo) ==
  [cmd |-> c, run |-> r, at |-> s, n |-> 1, todo |-> todo, own |-> 0,
   halted |-> status[r] = "stopped"]

-----------------------------------------------------------------------------
(***************************************************************************)
(* new, stop, run and resume.                                              *)
(***************************************************************************)

NewRun(p, r, s) ==
  /\ Free(p) /\ scope[r] = None
  /\ scope' = [scope EXCEPT ![r] = s]
  /\ SetStatus(r, "created")
  /\ UNCHANGED <<stop, books, told, given, job, cloud>>

\* The marker is for everybody; the status is that of one run, or of none.
Stop(p, rs) ==
  /\ Order(p) /\ Cardinality(rs) <= 1
  /\ stop' = TRUE
  /\ status' = [r \in Run |->
                  IF r \in rs /\ scope[r] # None THEN "stopped" ELSE status[r]]
  /\ UNCHANGED <<scope, books, told, job, cloud>>

\* run and resume --local-lab: the scope named must be the run's.  Only a resume takes
\* the marker away, whichever run it was meant for.
BeginLocal(p, r, resume) ==
  /\ Order(p) /\ scope[r] # None
  /\ stop' = (stop /\ ~resume)
  /\ job' = [job EXCEPT ![p] = Command("local", r, "start", {})]
  /\ UNCHANGED <<runs, books, told, cloud>>

\* run and resume without --local-lab: nothing is started.
BeginNothing(p, r, resume) ==
  /\ Order(p) /\ scope[r] # None
  /\ stop' = (stop /\ ~resume)
  /\ SetStatus(r, "refused")
  /\ UNCHANGED <<scope, books, told, job, cloud>>

-----------------------------------------------------------------------------
(***************************************************************************)
(* PipelineRunner.                                                         *)
(***************************************************************************)

\* _guard: the disk is measured, once for the whole run.  (These runners have no
\* measure of the processor and the memory.)
Start(p) ==
  LET r == job[p].run IN
  /\ At(p, "start")
  /\ \/ SetStatus(r, "refused") /\ Over(p)
     \/ /\ IF job[p].cmd = "local" THEN SetStatus(r, "running") ELSE UNCHANGED status
        /\ ToStep(p, "boundary")
  /\ UNCHANGED <<stop, scope, books, told, given, cloud>>

\* Faulty variant: the findings out of scope are noted, and kept.
TodoUnfiltered(r, stage) ==
  CASE stage = "dedup" -> {<<u, "candidate">> : u \in FixtureOf[r]}
    [] stage \in {"triage", "evidence", "report"} -> Listed(r)
    [] OTHER -> {}

\* What the stage works on, read when it begins.
TodoOf(r, stage) ==
  CASE stage = "dedup" -> {<<u, "candidate">> : u \in FixtureOf[r] \cap InScope[scope[r]]}
    [] stage \in {"triage", "evidence", "report"} -> Listed(r)
    [] OTHER -> {}

\* Faulty variant: the marker is looked at when the run begins.
BoundaryOnce(p) ==
  LET j == job[p] IN
  /\ At(p, "boundary")
  /\ IF stop /\ j.n = 1
     THEN SetStatus(j.run, "stopped") /\ Over(p)
     ELSE /\ UNCHANGED status
          /\ IF j.cmd = "live" THEN ToStep(p, "tool")
             ELSE job' = [job EXCEPT ![p].at = "work",
                                     ![p].todo = TodoOf(j.run, Stages[j.n])]
  /\ UNCHANGED <<stop, scope, books, told, given, cloud>>

\* _stop_if_requested, before each stage and each tool.
Boundary(p) ==
  LET j == job[p] IN
  /\ At(p, "boundary")
  /\ IF stop
     THEN SetStatus(j.run, "stopped") /\ Over(p)
     ELSE /\ UNCHANGED status
          /\ IF j.cmd = "live" THEN ToStep(p, "tool")
             ELSE job' = [job EXCEPT ![p].at = "work",
                                     ![p].todo = TodoOf(j.run, Stages[j.n])]
  /\ UNCHANGED <<stop, scope, books, told, given, cloud>>

Working(p, stage) == At(p, "work") /\ Stages[job[p].n] = stage

Done(p, row) == job' = [job EXCEPT ![p].todo = @ \ {row}]

\* insert_finding: OR IGNORE, then the link.
Insert(p, row) ==
  /\ Working(p, "dedup")
  /\ found' = [found EXCEPT ![row[1]] = IF @ = "none" THEN "candidate" ELSE @]
  /\ links' = links \cup {<<job[p].run, row[1]>>}
  /\ Done(p, row)
  /\ UNCHANGED <<stop, runs, packed, report, told, given, cloud>>

\* BudgetGovernor.can_spend: each process counts what it has spent itself.
CanSpend(j) == TriageCost > 0 /\ j.own + TriageCost <= Budget

\* AITriage.classify, by the model if the process may still spend what that costs, and
\* update_finding_triage.  The verdict is not modelled: whatever it is, the finding is
\* triaged.
Triage(p, row) ==
  /\ Working(p, "triage")
  /\ found' = [found EXCEPT ![row[1]] = "triaged"]
  /\ IF CanSpend(job[p])
     THEN /\ job' = [job EXCEPT ![p].todo = @ \ {row}, ![p].own = @ + TriageCost]
          /\ spent' = [spent EXCEPT !["triage"] = @ + TriageCost]
     ELSE Done(p, row) /\ UNCHANGED spent
  /\ UNCHANGED <<stop, runs, links, packed, report, told, given, calls>>

\* EvidencePackager.package.
Package(p, row) ==
  /\ Working(p, "evidence")
  /\ packed' = packed \cup {<<job[p].run, row[1]>>}
  /\ Done(p, row)
  /\ UNCHANGED <<stop, runs, found, links, report, told, given, cloud>>

\* ButianReportGenerator.generate, on what the stage has read.
Write(p) ==
  /\ Working(p, "report")
  /\ report' = [report EXCEPT ![job[p].run] = job[p].todo]
  /\ job' = [job EXCEPT ![p].at = "close", ![p].todo = {}]
  /\ UNCHANGED <<stop, runs, found, links, packed, told, given, cloud>>

\* The stage is done with.
EndStage(p) ==
  /\ At(p, "work") /\ ~Working(p, "report") /\ job[p].todo = {}
  /\ job' = [job EXCEPT ![p].at = "boundary", ![p].n = @ + 1]
  /\ UNCHANGED <<stop, runs, books, told, given, cloud>>

Close(p) ==
  /\ At(p, "close")
  /\ SetStatus(job[p].run, "completed")
  /\ Over(p)
  /\ UNCHANGED <<stop, scope, books, told, given, cloud>>

\* A stage raises.
Fail(p) ==
  /\ job[p] # None /\ job[p].cmd = "local" /\ job[p].at \in {"work", "close"}
  /\ SetStatus(job[p].run, "failed")
  /\ Over(p)
  /\ UNCHANGED <<stop, scope, books, told, given, cloud>>

\* The process goes away: nobody will change the status of the run.
Exit(p) ==
  /\ job[p] # None
  /\ Over(p)
  /\ UNCHANGED <<stop, runs, books, told, given, cloud>>

-----------------------------------------------------------------------------
(***************************************************************************)
(* run-live: a reviewed plan, whose tools run one after the other.         *)
(***************************************************************************)

\* What a plan that validate_live_plan accepts may aim at.
LiveTargets == SUBSET Url \ {{}}

\* A scope that is not the run's, a plan that is not valid or not confirmed, a policy
\* that allows no real targets, a scope that allows no contact, no --execute-live.
RefuseLive(p, r) ==
  /\ Order(p) /\ scope[r] # None
  /\ SetStatus(r, "refused")
  /\ UNCHANGED <<stop, scope, books, told, job, cloud>>

\* run_external: every target is in scope (assert_allowed).
BeginLive(p, r, targets) ==
  /\ Order(p) /\ scope[r] \in Contact
  /\ targets \subseteq InScope[scope[r]]
  /\ job' = [job EXCEPT ![p] =
                Command("live", r, "start", {<<u, "candidate">> : u \in targets})]
  /\ UNCHANGED <<stop, runs, books, told, cloud>>

\* SafeToolAdapter.run: completed, or the sequence is broken off.
Tool(p) ==
  LET j == job[p] IN
  /\ At(p, "tool")
  /\ \/ /\ j.n < Tools
        /\ job' = [job EXCEPT ![p].at = "boundary", ![p].n = @ + 1]
        /\ UNCHANGED status
     \/ j.n = Tools /\ SetStatus(j.run, "completed_tools") /\ Over(p)
     \/ SetStatus(j.run, "refused") /\ Over(p)
  /\ UNCHANGED <<stop, scope, books, told, given, cloud>>

-----------------------------------------------------------------------------
(***************************************************************************)
(* remote-preview and remote-triage: a person is told the digest of the    *)
(* payload, and repeats it.                                                *)
(***************************************************************************)

\* _remote_finding_context: the finding is of this run, and in its scope.
Reviewable(r, u) == scope[r] # None /\ <<r, u>> \in links /\ u \in InScope[scope[r]]

\* remote-preview, and a remote-triage that is refused for want of the digest.
TellDigest(p, r, u) ==
  /\ Order(p) /\ Reviewable(r, u)
  /\ told' = told \cup {u}
  /\ UNCHANGED <<stop, runs, books, job, cloud>>

\* Faulty variant: any digest the person has been told will do.
BeginReviewOfAny(p, r, u, digest) ==
  /\ Order(p) /\ Reviewable(r, u)
  /\ job' = [job EXCEPT ![p] = Command("review", r, "gate", {<<u, found[u]>>})]
  /\ UNCHANGED <<stop, runs, books, told, cloud>>

\* The payload is built again from the finding; the digest that was given must be its.
BeginReview(p, r, u, digest) ==
  /\ Order(p) /\ Reviewable(r, u)
  /\ digest = u
  /\ job' = [job EXCEPT ![p] = Command("review", r, "gate", {<<u, found[u]>>})]
  /\ UNCHANGED <<stop, runs, books, told, cloud>>

\* No marker, and a run that was not stopped when it was read.
Gate(p) ==
  /\ At(p, "gate")
  /\ IF stop \/ job[p].halted THEN Over(p) ELSE ToStep(p, "send")
  /\ UNCHANGED <<stop, runs, books, told, given, cloud>>

\* One request; the answer is stored apart (ai_reviews) and changes no finding.
Send(p) ==
  /\ At(p, "send")
  /\ Over(p)
  /\ UNCHANGED <<stop, runs, books, told, given, cloud>>

-----------------------------------------------------------------------------
(***************************************************************************)
(* DeepSeekAgentBudget: an agent reserves the whole price of a call before *)
(* it makes it, in one transaction.                                        *)
(***************************************************************************)

Reserve(p) ==
  /\ Order(p)
  /\ spent["triage"] + spent["cloud"] + CallCost <= Budget
  /\ spent' = [spent EXCEPT !["cloud"] = @ + CallCost]
  /\ job' = [job EXCEPT ![p] = [cmd |-> "cloud", run |-> None, at |-> "reserved", n |-> 1,
                                todo |-> {}, own |-> 0, halted |-> FALSE]]
  /\ UNCHANGED <<stop, runs, books, told, calls>>

Call(p) ==
  /\ At(p, "reserved")
  /\ calls' = calls + 1
  /\ ToStep(p, "called")
  /\ UNCHANGED <<stop, runs, books, told, given, spent>>

\* Faulty variant: what a call that timed out had reserved is given back.
EndCallRefunded(p) ==
  /\ At(p, "called")
  /\ spent' \in {spent, [spent EXCEPT !["cloud"] = @ - CallCost]}
  /\ Over(p)
  /\ UNCHANGED <<stop, runs, books, told, given, calls>>

\* The call is answered, or times out: a reservation is never given back.
EndCall(p) ==
  /\ At(p, "called")
  /\ Over(p)
  /\ UNCHANGED <<stop, runs, books, told, given, cloud>>

-----------------------------------------------------------------------------
Step(p) ==
  \/ \E r \in Run : \/ \E s \in Scope : NewRun(p, r, s)
                    \/ \E resume \in BOOLEAN : \/ BeginLocal(p, r, resume)
                                              \/ BeginNothing(p, r, resume)
                    \/ RefuseLive(p, r)
                    \/ \E targets \in LiveTargets : BeginLive(p, r, targets)
                    \/ \E u \in Url : \/ TellDigest(p, r, u)
                                      \/ \E digest \in told : BeginReview(p, r, u, digest)
  \/ \E rs \in SUBSET Run : Stop(p, rs)
  \/ Start(p) \/ Boundary(p)
  \/ \E row \in (IF job[p] = None THEN {} ELSE job[p].todo) :
       Insert(p, row) \/ Triage(p, row) \/ Package(p, row)
  \/ Write(p) \/ EndStage(p) \/ Close(p) \/ Fail(p) \/ Exit(p)
  \/ Tool(p) \/ Gate(p) \/ Send(p)
  \/ Reserve(p) \/ Call(p) \/ EndCall(p)

\* A process completes a stage, a tool or a request.
Finishes(p) ==
  /\ job[p] # None /\ job[p].at \in {"work", "tool", "send"}
  /\ job'[p] # job[p]
  /\ job'[p] = None \/ job'[p].at \in {"boundary", "close"}

Next ==
  /\ \E p \in Process : Step(p)
  /\ late' = IF stop'
             THEN {p \in late \cup {x \in Process : stop /\ Finishes(x)} : job'[p] # None}
             ELSE {}

Spec == Init /\ [][Next]_vars

-----------------------------------------------------------------------------
(***************************************************************************)
(* Properties.                                                             *)
(***************************************************************************)

\* While the marker stands a process may finish the stage, the tool or the request it is
\* at, and no other: whoever put it there, and whatever is resumed and stopped meanwhile.
StopHolds == [][\A p \in Process : stop /\ Finishes(p) => p \notin late]_vars

\* A completed run has a report of all its findings, each triaged, in its scope and with
\* its evidence packaged, though other runs insert and triage the same findings, and
\* though another process works on the very same run.
ReportIsBacked ==
  \A r \in Run :
    /\ \A row \in report[r] :
         row[2] = "triaged" /\ row[1] \in InScope[scope[r]] /\ <<r, row[1]>> \in packed
    /\ status[r] = "completed" =>
         {row[1] : row \in report[r]} = FixtureOf[r] \cap InScope[scope[r]]

\* What a tool or a remote model is given lies in the scope the run was created for.  For
\* a tool, that scope allows contact; for a model, it took a command before this one to
\* learn the digest of the very payload that is sent.
ContactIsApproved ==
  \A p \in Process : job[p] # None /\ job[p].at \in {"tool", "send"} =>
    LET urls == {row[1] : row \in job[p].todo} IN
    /\ urls \subseteq InScope[scope[job[p].run]]
    /\ At(p, "tool") => scope[job[p].run] \in Contact
    /\ At(p, "send") => urls \subseteq told

\* No cloud call goes out that the ledger does not hold, and the calls alone never take
\* the ledger above the budget, wherever a call times out or its process goes away.
CallsAreReserved == calls * CallCost <= spent["cloud"] /\ spent["cloud"] <= Budget
=============================================================================
