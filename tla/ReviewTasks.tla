----------------------------- MODULE ReviewTasks -----------------------------
(***************************************************************************)
(* The review coordinators of the dashboard: local application             *)
(* (local_application_workflow.py), business logic (business_workflow.py)  *)
(* and source audit (source_audit.py).  One process, a console, runs at    *)
(* most one of their tasks; several consoles and command-line processes    *)
(* (shells) share                                                          *)
(*   - the agent table: one row per task, its state and its counters;      *)
(*   - the run table of store.py: one status per task;                     *)
(*   - the claims of store.py: who may send requests to an origin.         *)
(* Any process may exit between any two transactions.  What a worker sends *)
(* to its target, and every gate it passes on the way, is inside its       *)
(* "working" phase and is modelled in ApprovedProbe.tla.                   *)
(***************************************************************************)
EXTENDS Naturals, FiniteSets

CONSTANTS
  Console,      \* dashboard processes
  Shell,        \* command-line processes
  Task,         \* rows and runs that may be created
  Approval,     \* previews a person may confirm, and plan files
  KindOf,       \* KindOf[a]: "local", "business" or "source"; "shell" for a file
  SiteOf,       \* SiteOf[a]: the origin or directory it is about
  DeskOf,       \* DeskOf[a]: the console it was previewed on
  Target,       \* origins and directories
  NoTask, Nobody

Process == Console \cup Shell
Kind    == {"local", "business", "source", "shell"}

ASSUME ReviewAssumption ==
  /\ Console \cap Shell = {} /\ Nobody \notin Process \cup Approval
  /\ NoTask \notin Task
  /\ KindOf \in [Approval -> Kind] /\ SiteOf \in [Approval -> Target]
  /\ DeskOf \in [Approval -> Console]

VARIABLES
  key,      \* key[a]: the console that holds approval a unused, or nobody
  from,     \* from[t]: the approval task t was created for
  row,      \* row[t]: its row in the agent table
  owner,    \* owner[t]: the process named in the row
  run,      \* run[t]: the status of its run
  claim,    \* claim[o]: the run, and the process, that hold origin o
  pc,       \* pc[p]: where process p stands
  hand,     \* hand[p]: the task it has in hand (current_id)
  seen,     \* seen[p]: the state its final update returned
  worked,   \* history: worked[t], processes that got the claim for t
  lab       \* history: runs that say running because run --local-lab said so last

tables    == <<from, row, owner, run>>
worker    == <<pc, hand, seen>>
vars      == <<key, tables, claim, worker, worked, lab>>

-----------------------------------------------------------------------------
Active  == {"queued", "running", "cancelling"}

\* "ended" stands for completed, needs-human, cancelled and paused in a row, and "over"
\* for every status of a run but the two that a claim asks about.
Settled == {"ended", "failed"}
RowState == {"none", "interrupted"} \cup Active \cup Settled
RunState == {"none", "created", "running", "over"}

Holder == [task : Task, by : Process \cup {Nobody}]
NoClaim == [task |-> NoTask, by |-> Nobody]

\* The phases in which a worker may contact its target.
Contact == {"claimed", "working"}
PC == Contact \cup {"idle", "setup", "made", "queued", "acquired", "created", "refused",
                    "settled", "reporting", "published", "failing", "leaving", "local"}

TypeOK ==
  /\ key \in [Approval -> Console \cup {Nobody}]
  /\ from \in [Task -> Approval \cup {Nobody}]
  /\ row \in [Task -> RowState]
  /\ owner \in [Task -> Process \cup {Nobody}]
  /\ run \in [Task -> RunState]
  /\ claim \in [Target -> Holder \cup {NoClaim}]
  /\ pc \in [Process -> PC]
  /\ hand \in [Process -> Task \cup {NoTask}]
  /\ seen \in [Process -> RowState]
  /\ worked \in [Task -> SUBSET Process] /\ lab \subseteq Task
  /\ \A p \in Process : pc[p] = "idle" <=> hand[p] = NoTask

Init ==
  /\ key = DeskOf
  /\ from = [t \in Task |-> Nobody]
  /\ row = [t \in Task |-> "none"]
  /\ owner = [t \in Task |-> Nobody]
  /\ run = [t \in Task |-> "none"]
  /\ claim = [o \in Target |-> NoClaim]
  /\ pc = [p \in Process |-> "idle"]
  /\ hand = [p \in Process |-> NoTask]
  /\ seen = [p \in Process |-> "none"]
  /\ worked = [t \in Task |-> {}] /\ lab = {}

-----------------------------------------------------------------------------
KindOfTask(t) == KindOf[from[t]]
SiteOfTask(t) == SiteOf[from[t]]
Unused(t) == from[t] = Nobody

\* t is the next new task.
Fresh(t) == Unused(t) /\ t = CHOOSE u \in Task : Unused(u)

At(p, phase) == pc[p] = phase
Is(p, k)     == KindOfTask(hand[p]) = k
Go(p, phase) == pc' = [pc EXCEPT ![p] = phase]

RowBecomes(t, st) == row' = [row EXCEPT ![t] = st]

\* Whoever writes the status of a run, it is no longer what another said of it.
RunBecomes(t, st) ==
  /\ run' = [run EXCEPT ![t] = st]
  /\ lab' = lab \ {t}

\* p holds the origin of the task it has in hand.
HasLease(p) == claim[SiteOfTask(hand[p])] = [task |-> hand[p], by |-> p]

-----------------------------------------------------------------------------
(***************************************************************************)
(* The start of a task on an approval that a person has previewed (the     *)
(* preview, and what start() checks again, are in Preparation.tla).        *)
(* start() runs under the control lock of its console; other processes see *)
(* its transactions one by one.                                            *)
(***************************************************************************)

\* _assert_idle: every row that is not ended belongs to an exited process.
TableIdle(but) ==
  \A t \in Task \ but : row[t] \in Active => owner[t] = Nobody

\* Their rows are marked on the way.
Marked(but) ==
  [t \in Task |-> IF row[t] \in Active /\ owner[t] = Nobody /\ t \notin but
                  THEN "interrupted" ELSE row[t]]

\* AgentHistory.create.
CreateRow(c, a, t) ==
  /\ At(c, "idle") /\ Fresh(t)
  /\ KindOf[a] # "shell" /\ key[a] = c
  /\ TableIdle({})
  /\ row' = [Marked({}) EXCEPT ![t] = "queued"]
  /\ from' = [from EXCEPT ![t] = a]
  /\ owner' = [owner EXCEPT ![t] = c]
  /\ hand' = [hand EXCEPT ![c] = t]
  /\ Go(c, "setup")
  /\ UNCHANGED <<key, run, claim, seen, worked, lab>>

\* The run, its checkpoint and its files are made one after the other; a source
\* audit makes its run in the worker.
MakeRun(c) ==
  /\ At(c, "setup") /\ ~Is(c, "source")
  /\ RunBecomes(hand[c], "created")
  /\ Go(c, "made")
  /\ UNCHANGED <<key, from, row, owner, claim, hand, seen, worked>>

Prepared(c) == At(c, "made") \/ (At(c, "setup") /\ Is(c, "source"))

LetsGo(p) ==
  /\ hand' = [hand EXCEPT ![p] = NoTask]
  /\ seen' = [seen EXCEPT ![p] = "none"]
  /\ Go(p, "idle")

\* Making them fails: the row and the run, if there is one, are marked, and the
\* approval can be confirmed again.
SetupFails(c) ==
  LET t == hand[c] IN
  /\ pc[c] \in {"setup", "made"} /\ ~Is(c, "source")
  /\ RowBecomes(t, "failed")
  /\ IF At(c, "made") THEN RunBecomes(t, "over") ELSE UNCHANGED <<run, lab>>
  /\ LetsGo(c)
  /\ UNCHANGED <<key, from, owner, claim, worked>>

\* Faulty variant: the approval stays good for another task.
SubmitKeepingKey(c) ==
  /\ Prepared(c)
  /\ Go(c, "queued")
  /\ UNCHANGED <<key, tables, claim, hand, seen, worked, lab>>

\* The approval is used up and the worker function is queued ...
Submit(c) ==
  /\ Prepared(c)
  /\ key' = [key EXCEPT ![from[hand[c]]] = Nobody]
  /\ Go(c, "queued")
  /\ UNCHANGED <<tables, claim, hand, seen, worked, lab>>

\* ... or it cannot be queued.
SubmitFails(c) ==
  LET t == hand[c] IN
  /\ Prepared(c)
  /\ key' = [key EXCEPT ![from[t]] = Nobody]
  /\ RowBecomes(t, "failed")
  /\ IF Is(c, "source") THEN UNCHANGED <<run, lab>> ELSE RunBecomes(t, "over")
  /\ LetsGo(c)
  /\ UNCHANGED <<from, owner, claim, worked>>

\* The command new: a run for a plan file.
NewRun(a, t) ==
  /\ KindOf[a] = "shell" /\ Fresh(t)
  /\ from' = [from EXCEPT ![t] = a]
  /\ RunBecomes(t, "created")
  /\ UNCHANGED <<key, row, owner, claim, worker, worked>>

-----------------------------------------------------------------------------
(***************************************************************************)
(* The worker: _run of the three coordinators, and run_local_application   *)
(* of the command line.                                                    *)
(***************************************************************************)

\* A shell takes a run that has scope and plan files: its own or a local task's.
ShellBegin(s, t) ==
  /\ s \in Shell /\ At(s, "idle") /\ ~Unused(t)
  /\ KindOfTask(t) \in {"shell", "local"}
  /\ hand' = [hand EXCEPT ![s] = t]
  /\ Go(s, "queued")
  /\ UNCHANGED <<key, tables, claim, seen, worked, lab>>

\* AgentHistory.acquire, by the console that created the row.
AcquireRow(c) ==
  LET t == hand[c] IN
  /\ At(c, "claimed") \/ (At(c, "queued") /\ Is(c, "source"))
  /\ IF row[t] = "queued" /\ TableIdle({t})
     THEN /\ row' = [Marked({t}) EXCEPT ![t] = "running"]
          /\ Go(c, IF Is(c, "source") THEN "acquired" ELSE "working")
     ELSE Go(c, "refused") /\ UNCHANGED row
  /\ UNCHANGED <<key, from, owner, run, claim, hand, seen, worked, lab>>

\* A source audit makes its run only now.
CreateRun(c) ==
  /\ At(c, "acquired")
  /\ RunBecomes(hand[c], "created")
  /\ Go(c, "created")
  /\ UNCHANGED <<key, from, row, owner, claim, hand, seen, worked>>

\* A source audit makes its run before the claim.
ToClaim(p) == At(p, "created") \/ (At(p, "queued") /\ ~Is(p, "source"))

\* Faulty variant: the run of the exited holder is left as it is.
TakeOverSilently(p) == [run EXCEPT ![hand[p]] = "running"]

\* The run of an exited holder is marked; its requests are not repeated.
TakeOver(p) ==
  [t \in Task |-> CASE t = hand[p] -> "running"
                    [] t # hand[p] /\ t = claim[SiteOfTask(hand[p])].task
                         /\ run[t] = "running" -> "over"
                    [] OTHER -> run[t]]

\* Faulty variant: a claim in the way is replaced, whoever holds it.
MayClaimAnyway(p) == run[hand[p]] = "created"

\* The run has not been started, and the origin is free or its holder exited.
MayClaim(p) ==
  /\ run[hand[p]] = "created"
  /\ claim[SiteOfTask(hand[p])].by = Nobody

\* claim_local_application, one immediate transaction.
Claim(p) ==
  LET t == hand[p] IN
  /\ ToClaim(p) /\ MayClaim(p)
  /\ run' = TakeOver(p) /\ lab' = {u \in lab : run'[u] = "running"}
  /\ claim' = [claim EXCEPT ![SiteOfTask(t)] = [task |-> t, by |-> p]]
  /\ worked' = [worked EXCEPT ![t] = @ \cup {p}]
  /\ Go(p, IF p \in Shell \/ Is(p, "source") THEN "working" ELSE "claimed")
  /\ UNCHANGED <<key, from, row, owner, hand, seen>>

\* It raises: the run is not startable, the origin is held, or nobody can tell
\* whether the holder has exited.  A shell leaves it at that.
ClaimRefused(p) ==
  /\ ToClaim(p)
  /\ MayClaim(p) => claim[SiteOfTask(hand[p])].task # NoTask
  /\ Go(p, IF p \in Shell THEN "leaving" ELSE "refused")
  /\ UNCHANGED <<key, tables, claim, hand, seen, worked, lab>>

\* The work ends: by the fixed recipes, by the agent loop, or by the scan and its
\* review.
Settle(c, st) ==
  /\ c \in Console /\ At(c, "working")
  /\ Is(c, "source") => st = "ended"
  /\ RowBecomes(hand[c], st)
  /\ Go(c, "settled")
  /\ UNCHANGED <<key, from, owner, run, claim, hand, seen, worked, lab>>

\* Any exception of the worker, and any gate that denies: the cancel event, the
\* STOP file, the disk, the clock, a changed configuration.
WorkFails(c) ==
  /\ c \in Console /\ pc[c] \in {"acquired", "working"}
  /\ Go(c, "refused")
  /\ UNCHANGED <<key, tables, claim, hand, seen, worked, lab>>

\* Its handler marks the row.
Refused(c) ==
  /\ At(c, "refused")
  /\ RowBecomes(hand[c], "ended")
  /\ Go(c, "settled")
  /\ UNCHANGED <<key, from, owner, run, claim, hand, seen, worked, lab>>

\* The finally block: the row as it is now goes into the report ...
FinalUpdate(c) ==
  /\ c \in Console /\ At(c, "settled")
  /\ seen' = [seen EXCEPT ![c] = row[hand[c]]]
  /\ Go(c, "reporting")
  /\ UNCHANGED <<key, tables, claim, hand, worked, lab>>

\* ... its state becomes the status of the run ...
Publish(c) ==
  LET t == hand[c] IN
  /\ At(c, "reporting")
  /\ IF run[t] = "none" THEN UNCHANGED <<run, lab>>
     ELSE RunBecomes(t, IF seen[c] = "running" THEN "running" ELSE "over")
  /\ Go(c, "published")
  /\ UNCHANGED <<key, from, row, owner, claim, hand, seen, worked>>

\* ... and the row is updated once more.
Published(c) ==
  /\ At(c, "published")
  /\ Go(c, "leaving")
  /\ UNCHANGED <<key, tables, claim, hand, seen, worked, lab>>

\* One of these fails.  Only a business task marks its run as well.
ReportFails(c) ==
  /\ At(c, "reporting") \/ (At(c, "published") /\ ~Is(c, "source"))
  /\ RowBecomes(hand[c], "failed")
  /\ Go(c, IF Is(c, "business") THEN "failing" ELSE "leaving")
  /\ UNCHANGED <<key, from, owner, run, claim, hand, seen, worked, lab>>

MarkRunFailed(c) ==
  /\ At(c, "failing")
  /\ RunBecomes(hand[c], "over")
  /\ Go(c, "leaving")
  /\ UNCHANGED <<key, from, row, owner, claim, hand, seen, worked>>

\* A shell's disk or resource guard marks the run and refuses the request ...
ShellBlocked(s) ==
  /\ s \in Shell /\ At(s, "working")
  /\ RunBecomes(hand[s], "over")
  /\ Go(s, "settled")
  /\ UNCHANGED <<key, from, row, owner, claim, hand, seen, worked>>

\* ... and at the end the run gets the status of the observation.
ShellEnds(s) ==
  /\ s \in Shell /\ pc[s] \in {"working", "settled"}
  /\ RunBecomes(hand[s], "over")
  /\ Go(s, "leaving")
  /\ UNCHANGED <<key, from, row, owner, claim, hand, seen, worked>>

\* The command run or resume --local-lab evaluates a fixture under the number of a run.
\* It asks only that the scope is the run's, which that of a source audit, the digest of
\* its files, never is; the run is marked whatever it says and whoever holds its origin,
\* which is not contacted and not claimed.
RunLocal(s, t) ==
  /\ s \in Shell /\ At(s, "idle")
  /\ run[t] # "none" /\ ~Unused(t) /\ KindOfTask(t) # "source"
  /\ run' = [run EXCEPT ![t] = "running"] /\ lab' = lab \cup {t}
  /\ hand' = [hand EXCEPT ![s] = t]
  /\ Go(s, "local")
  /\ UNCHANGED <<key, from, row, owner, claim, seen, worked>>

\* Its stages are over, were stopped, or one has failed.
LocalEnds(s) ==
  /\ At(s, "local")
  /\ RunBecomes(hand[s], "over")
  /\ LetsGo(s)
  /\ UNCHANGED <<key, from, row, owner, claim, worked>>

\* Faulty variant: the claim is released only if the report was written.
LeaveKeepingClaim(p) ==
  LET t == hand[p] IN
  /\ At(p, "leaving")
  /\ IF HasLease(p) /\ row[t] # "failed"
     THEN claim' = [claim EXCEPT ![SiteOfTask(t)] = NoClaim]
     ELSE UNCHANGED claim
  /\ LetsGo(p)
  /\ UNCHANGED <<key, tables, worked, lab>>

\* The claim, if there is one, is released, and the task is let go of.
Leave(p) ==
  LET t == hand[p] IN
  /\ At(p, "leaving")
  /\ IF HasLease(p) THEN claim' = [claim EXCEPT ![SiteOfTask(t)] = NoClaim]
                    ELSE UNCHANGED claim
  /\ LetsGo(p)
  /\ UNCHANGED <<key, tables, worked, lab>>

-----------------------------------------------------------------------------
(***************************************************************************)
(* What happens around the workers.                                        *)
(***************************************************************************)

\* cancel_run: accepted as long as the console has the task in hand.  The event it
\* sets is one of the reasons a gate may have.
CancelRun(c) ==
  /\ hand[c] # NoTask /\ pc[c] \notin {"setup", "made"}
  /\ RowBecomes(hand[c], "cancelling")
  /\ UNCHANGED <<key, from, owner, run, claim, pc, hand, seen, worked, lab>>

\* Commands that overwrite the status of a run, whoever works on it: stop, and the
\* refusals of run, resume and run-live.
StopRun(t) ==
  /\ run[t] \notin {"none", "over"}
  /\ RunBecomes(t, "over")
  /\ UNCHANGED <<key, from, row, owner, claim, worker, worked>>

\* AgentHistory.list: rows of exited processes are marked.
Poll ==
  /\ Marked({}) # row
  /\ row' = Marked({})
  /\ UNCHANGED <<key, from, owner, run, claim, worker, worked, lab>>

\* The process exits; what it left in the tables now belongs to nobody.
Crash(p) ==
  /\ pc' = [pc EXCEPT ![p] = "idle"]
  /\ hand' = [hand EXCEPT ![p] = NoTask]
  /\ seen' = [seen EXCEPT ![p] = "none"]
  /\ owner' = [t \in Task |-> IF owner[t] = p THEN Nobody ELSE owner[t]]
  /\ claim' = [o \in Target |-> IF claim[o].by = p THEN [claim[o] EXCEPT !.by = Nobody]
                                                ELSE claim[o]]
  /\ key' = [a \in Approval |-> IF key[a] = p THEN Nobody ELSE key[a]]
  /\ UNCHANGED <<from, row, run, worked, lab>>

WorkerStep(p) ==
  \/ Claim(p) \/ ClaimRefused(p) \/ Leave(p)
  \/ MakeRun(p) \/ SetupFails(p) \/ Submit(p) \/ SubmitFails(p)
  \/ AcquireRow(p) \/ CreateRun(p)
  \/ (\E st \in Settled : Settle(p, st)) \/ WorkFails(p) \/ Refused(p)
  \/ FinalUpdate(p) \/ Publish(p) \/ Published(p) \/ ReportFails(p) \/ MarkRunFailed(p)
  \/ ShellBlocked(p) \/ ShellEnds(p) \/ LocalEnds(p)

\* A page asks for the start of what was previewed; each kind of review has its route.
StartAsked(c) == \E a \in Approval, t \in Task : CreateRow(c, a, t)

Next ==
  \/ \E p \in Process : WorkerStep(p) \/ Crash(p)
  \/ \E c \in Console : StartAsked(c)
  \/ \E a \in Approval, t \in Task : NewRun(a, t)
  \/ \E s \in Shell, t \in Task : ShellBegin(s, t) \/ RunLocal(s, t)
  \/ \E c \in Console : CancelRun(c)
  \/ \E t \in Task : StopRun(t)
  \/ Poll

Spec == Init /\ [][Next]_vars

(***************************************************************************)
(* Fairness: a worker thread is scheduled, and each of its calls has a     *)
(* timeout.  Nothing is assumed of persons, crashes or the other commands. *)
(***************************************************************************)
FairSpec == Spec /\ \A p \in Process : WF_vars(WorkerStep(p))

-----------------------------------------------------------------------------
(***************************************************************************)
(* Properties.                                                             *)
(***************************************************************************)

\* The requests of a run are made by one process at most, and an approval of the
\* dashboard starts at most one task there, over all failures and exits.
WorkedOnce ==
  /\ \A t \in Task : \A p, q \in worked[t] : p = q
  /\ \A t, u \in Task :
       /\ from[t] = from[u] /\ from[t] # Nobody
       /\ worked[t] \cap Console # {} /\ worked[u] \cap Console # {}
       => t = u

\* A run that says running holds its origin.  Only a task whose report could not be
\* written may leave it saying so, and no business task does; and the command run
\* --local-lab, which claims nothing, may have been the last to say so of a run.
RunningIsClaimed ==
  \A t \in Task :
    run[t] = "running" =>
      \/ claim[SiteOfTask(t)].task = t
      \/ t \in lab
      \/ /\ KindOfTask(t) \in {"local", "source"}
         /\ row[t] \in {"failed", "cancelling", "interrupted"}

\* A worker lets go of its origin.
OriginIsLetGo ==
  \A o \in Target : claim[o].by # Nobody ~> claim[o].by = Nobody

\* The processes that may contact target o.
Contacting(o) ==
  {<<p, o>> : p \in {q \in Process : pc[q] \in Contact /\ SiteOfTask(hand[q]) = o}}

\* For each origin the claims implement the lock.
Lock(o) == INSTANCE TaskLock WITH Service <- Process, Run <- Target, working <- Contacting(o)

ImplementsLock ==
  /\ \A o \in Target : Lock(o)!Init
  /\ [][\A o \in Target : [Lock(o)!Next]_(Contacting(o))]_vars
=============================================================================
