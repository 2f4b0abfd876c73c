----------------------------- MODULE AgentRunner -----------------------------
(***************************************************************************)
(* One agent task: the loop of AgentRunner.run (agent_runner.py), with the *)
(* durable row it checkpoints into, several consoles that may hold the     *)
(* task one after the other, crashes between any two steps, and the model  *)
(* and the tools it calls.                                                 *)
(*                                                                         *)
(* A row is a record.  Of the trace and the observations it keeps what the *)
(* loop reads from them: per action, how it last ended, and whether some   *)
(* proposal was rejected.  Every save() writes the worker's whole          *)
(* in-memory row.  The claim of the row against other rows is in           *)
(* AgentLease.tla.                                                         *)
(***************************************************************************)
EXTENDS Naturals, Sequences, FiniteSets

CONSTANTS
  Console,      \* processes that may hold the task
  Nobody,       \* owner of a row whose process has exited
  Action,       \* tool actions with their references
  Recipe,       \* the fixed actions of local-assessment, in order
  Coverage,     \* sets of actions; a finish must cite one of each
  MaxSteps, MaxCalls, MaxTokens, MaxRequests,   \* the row's Limits
  Reservation,  \* tokens set aside for one model call
  Usage,        \* what one model call may really use
  Cloud         \* TRUE if calls are also reserved in the spend ledger

Required == {Recipe[i] : i \in DOMAIN Recipe}

ASSUME RunnerAssumption ==
  /\ Nobody \notin Console
  /\ Recipe \in Seq(Action)
  /\ Coverage \subseteq SUBSET Action
  /\ MaxSteps \in Nat /\ MaxCalls \in Nat /\ MaxTokens \in Nat
  /\ MaxRequests \in Nat /\ Reservation \in Nat
  /\ Usage \subseteq Nat
  /\ Cloud \in BOOLEAN

VARIABLES
  doc,        \* the row in the table
  owner,      \* the console named in it
  pc,         \* pc[c]: where the worker of console c stands
  mem,        \* mem[c]: its in-memory row
  stop,       \* stop[c]: its cancel event
  bill,       \* bill[c]: tokens its unanswered or unjudged call has used
  performed,  \* history: actions performed whose outcome is ok or unknown
  did,        \* history: actions performed
  asked,      \* history: model calls made
  sent        \* history: requests sent to the target

memory  == <<pc, mem, stop, bill>>
history == <<performed, did, asked, sent>>
vars    == <<doc, owner, memory, history>>

-----------------------------------------------------------------------------
Active    == {"queued", "running", "cancelling"}
Resumable == {"paused", "interrupted"}
Final     == {"completed", "needs-human", "cancelled", "failed"}
State     == Active \cup Resumable \cup Final

\* "partial": an observation was stored but does not meet the recipe.
Result == {"none", "executing", "ok", "partial", "failed"}

Row == [state : State, steps : Nat, calls : Nat, tokens : Nat, requests : Nat,
        result : [Action -> Result], rejected : BOOLEAN]

PC == {"idle", "queued", "resuming", "loaded", "top", "clear", "intent", "executed", "partial",
       "asking", "answered", "judging", "report", "rejected", "failing",
       "leaving"}

TypeOK ==
  /\ doc \in Row
  /\ owner \in Console \cup {Nobody}
  /\ pc \in [Console -> PC]
  /\ mem \in [Console -> Row]
  /\ stop \in [Console -> BOOLEAN]
  /\ bill \in [Console -> Nat]
  /\ performed \subseteq Action
  /\ did \in Nat /\ asked \in Nat /\ sent \in Nat

\* AgentHistory.create.
NewRow == [state |-> "queued", steps |-> 0, calls |-> 0, tokens |-> 0,
           requests |-> 0, result |-> [a \in Action |-> "none"],
           rejected |-> FALSE]

Init ==
  /\ doc = NewRow
  /\ owner \in Console
  /\ pc = [c \in Console |-> IF c = owner THEN "queued" ELSE "idle"]
  /\ mem = [c \in Console |-> NewRow]
  /\ stop = [c \in Console |-> FALSE]
  /\ bill = [c \in Console |-> 0]
  /\ performed = {}
  /\ did = 0 /\ asked = 0 /\ sent = 0

-----------------------------------------------------------------------------
At(c, p) == pc[c] = p
Go(c, p) == pc' = [pc EXCEPT ![c] = p]

\* save(): the whole in-memory row, with its changes, goes into the table.
Save(c, row) ==
  /\ mem' = [mem EXCEPT ![c] = row]
  /\ doc' = row
  /\ owner' = c

\* A save that ends the loop.
EndsIn(c, row, states) ==
  /\ \E st \in states : Save(c, [row EXCEPT !.state = st])
  /\ Go(c, "report")

InFlight(row) == \E a \in Action : row.result[a] = "executing"
Observed(row) == {a \in Action : row.result[a] \in {"ok", "partial"}}
Rejecting(row) == [row EXCEPT !.rejected = TRUE]

-----------------------------------------------------------------------------
(***************************************************************************)
(* Taking the task, first or again.                                        *)
(***************************************************************************)

\* AgentService.start for a task that may be resumed; a first start has queued
\* the row already.
Resume(c) ==
  /\ At(c, "idle")
  /\ doc.state \in Resumable
  /\ stop' = [stop EXCEPT ![c] = FALSE]
  /\ Go(c, "resuming")
  /\ UNCHANGED <<doc, owner, mem, bill, history>>

\* The row is read, and with it the trace, the observations and the request
\* counter, before the claim.
Load(c) ==
  /\ pc[c] \in {"queued", "resuming"}
  /\ mem' = [mem EXCEPT ![c] = doc]
  /\ Go(c, IF At(c, "resuming") /\ doc.state \notin Resumable
           THEN "rejected" ELSE "loaded")
  /\ UNCHANGED <<doc, owner, stop, bill, history>>

\* acquire() may claim the row.
Claimable(c) ==
  IF mem[c].state \in Resumable THEN doc.state \in Resumable
                                ELSE doc.state = "queued" /\ owner = c

\* Faulty variant: the claim forgets the counters the row already has.
AcquireAnew(c) ==
  LET snap == mem[c] IN
  /\ At(c, "loaded") /\ Claimable(c)
  /\ owner' = c
  /\ doc' = [NewRow EXCEPT !.state = "running", !.result = snap.result]
  /\ mem' = [mem EXCEPT ![c] =
               [NewRow EXCEPT !.state = "running", !.result = snap.result]]
  /\ Go(c, "top")
  /\ UNCHANGED <<stop, bill, history>>

\* acquire() returns a fresh row; what was read before it stays in use.
Acquire(c) ==
  LET snap == mem[c] IN
  /\ At(c, "loaded") /\ Claimable(c)
  /\ doc' = [doc EXCEPT !.state = "running"]
  /\ owner' = c
  /\ mem' = [mem EXCEPT ![c] =
               [doc EXCEPT !.state = "running", !.result = snap.result,
                           !.rejected = snap.rejected, !.requests = snap.requests]]
  /\ Go(c, "top")
  /\ UNCHANGED <<stop, bill, history>>

AcquireRefused(c) ==
  /\ At(c, "loaded") /\ ~Claimable(c)
  /\ Go(c, "rejected")
  /\ UNCHANGED <<doc, owner, mem, stop, bill, history>>

-----------------------------------------------------------------------------
(***************************************************************************)
(* One turn of the loop.                                                   *)
(***************************************************************************)

\* gate(): the cancel event, the STOP file, the time limit, the disk and the
\* resource check.
GateStops(c, row) ==
  EndsIn(c, row, IF stop[c] THEN {"cancelled"}
                            ELSE {"cancelled", "needs-human", "paused"})

\* The turn starts with the gate.
TopGate(c) ==
  /\ At(c, "top")
  /\ \/ GateStops(c, mem[c])
     \/ /\ ~stop[c]
        /\ Go(c, "clear")
        /\ UNCHANGED <<doc, owner, mem>>
  /\ UNCHANGED <<stop, bill, history>>

Incomplete(row) == \E a \in Required : row.result[a] = "partial"

\* The next recipe action, if there is one left.
IsNext(row, a) ==
  \E i \in DOMAIN Recipe :
    /\ Recipe[i] = a /\ row.result[a] # "ok"
    /\ \A j \in 1..(i - 1) : row.result[Recipe[j]] = "ok"

Pending(row) == \E a \in Action : IsNext(row, a)

\* perform_action() up to its call: the intent is saved first.
Begin(c, a, row) ==
  /\ Save(c, [row EXCEPT !.result[a] = "executing", !.steps = @ + 1])
  /\ Go(c, "intent")

\* Faulty variant: the check for an action whose outcome is unknown is left out.
RecipeTurnUnchecked(c) ==
  LET row == mem[c] IN
  /\ At(c, "clear")
  /\ \/ /\ Incomplete(row) \/ (Pending(row) /\ row.steps >= MaxSteps)
        /\ EndsIn(c, row, {"needs-human"})
     \/ /\ ~Incomplete(row) /\ row.steps < MaxSteps
        /\ \E a \in Action : IsNext(row, a) /\ Begin(c, a, row)
  /\ UNCHANGED <<stop, bill, history>>

\* The fixed recipes come before the model.
RecipeTurn(c) ==
  LET row == mem[c] IN
  /\ At(c, "clear")
  /\ \/ /\ Incomplete(row) \/ (Pending(row) /\ (row.steps >= MaxSteps \/ InFlight(row)))
        /\ EndsIn(c, row, {"needs-human"})
     \/ /\ ~Incomplete(row) /\ row.steps < MaxSteps /\ ~InFlight(row)
        /\ \E a \in Action : IsNext(row, a) /\ Begin(c, a, row)
  /\ UNCHANGED <<stop, bill, history>>

\* Faulty variant: the budget is compared without the call's reservation.
RoomWithoutReservation(row) == row.calls < MaxCalls /\ row.tokens < MaxTokens

\* There is budget for one more model call.
Room(row) == /\ row.calls < MaxCalls /\ row.tokens < MaxTokens
             /\ row.tokens + Reservation <= MaxTokens

\* Faulty variant: the call is counted in memory and saved with the answer.
ModelTurnSavedLater(c) ==
  LET row == mem[c] IN
  /\ At(c, "clear")
  /\ ~Incomplete(row) /\ ~Pending(row)
  /\ \/ ~Room(row) /\ EndsIn(c, row, {"needs-human"})
     \/ /\ Room(row)
        /\ mem' = [mem EXCEPT ![c] = [row EXCEPT !.calls = @ + 1]]
        /\ Go(c, "asking")
        /\ UNCHANGED <<doc, owner>>
  /\ UNCHANGED <<stop, bill, history>>

\* With the recipes done, the model is asked: the call is counted and saved
\* before it is made.
ModelTurn(c) ==
  LET row == mem[c] IN
  /\ At(c, "clear")
  /\ ~Incomplete(row) /\ ~Pending(row)
  /\ \/ ~Room(row) /\ EndsIn(c, row, {"needs-human"})
     \/ Room(row) /\ Cloud /\ EndsIn(c, row, {"paused"})   \* reserve() raises
     \/ /\ Room(row)
        /\ Save(c, [row EXCEPT !.calls = @ + 1])
        /\ Go(c, "asking")
  /\ UNCHANGED <<stop, bill, history>>

-----------------------------------------------------------------------------
(***************************************************************************)
(* perform_action.                                                         *)
(***************************************************************************)

\* actions.execute(): the tool acts, and sends what the request limit allows;
\* with the cancel event set it sends nothing.
Perform(c, a, n) ==
  /\ At(c, "intent") /\ mem[c].result[a] = "executing"
  /\ mem[c].requests + n <= MaxRequests
  /\ stop[c] => n = 0
  /\ mem' = [mem EXCEPT ![c].requests = @ + n]
  /\ sent' = sent + n
  /\ did' = did + 1
  /\ performed' = performed \cup {a}
  /\ Go(c, "executed")
  /\ UNCHANGED <<doc, owner, stop, bill, asked>>

\* The tool raised, or the task was stopped meanwhile, or the observation is
\* too large: the outcome is recorded as such and the loop ends.
ToolFails(c, a) ==
  /\ At(c, "executed") /\ mem[c].result[a] = "executing"
  /\ EndsIn(c, [mem[c] EXCEPT !.result[a] = "failed"], {"cancelled", "needs-human"})
  /\ performed' = performed \ {a}
  /\ UNCHANGED <<stop, bill, did, asked, sent>>

\* The observation is stored; a recipe that did not complete is judged by a
\* second save.
ToolSucceeds(c, a) ==
  /\ At(c, "executed") /\ mem[c].result[a] = "executing"
  /\ ~stop[c]
  /\ \E res \in {"ok", "partial"} :
       /\ Save(c, [mem[c] EXCEPT !.result[a] = res])
       /\ Go(c, IF res = "partial" /\ a \in Required THEN "partial" ELSE "top")
  /\ UNCHANGED <<stop, bill, history>>

RecipeIncomplete(c) ==
  /\ At(c, "partial")
  /\ EndsIn(c, mem[c], {"needs-human"})
  /\ UNCHANGED <<stop, bill, history>>

-----------------------------------------------------------------------------
(***************************************************************************)
(* The model call and its answer.                                          *)
(***************************************************************************)

\* The request leaves; it is used up whatever becomes of the answer.
Ask(c, u) ==
  /\ At(c, "asking")
  /\ bill' = [bill EXCEPT ![c] = u]
  /\ asked' = asked + 1
  /\ Go(c, "answered")
  /\ UNCHANGED <<doc, owner, mem, stop, performed, did, sent>>

\* Faulty variant: the client tries again until an answer comes.
NoAnswerRetried(c) ==
  /\ At(c, "answered")
  /\ \E u \in Usage : bill' = [bill EXCEPT ![c] = u]
  /\ UNCHANGED <<doc, owner, pc, mem, stop, history>>

\* No answer, or one with an impossible usage: the reservation is charged.
NoAnswer(c) ==
  /\ At(c, "answered")
  /\ EndsIn(c, [mem[c] EXCEPT !.tokens = @ + Reservation], {"paused"})
  /\ bill' = [bill EXCEPT ![c] = 0]
  /\ UNCHANGED <<stop, history>>

\* The usage is charged and the gate looked at again before the answer is.
AnswerGate(c) ==
  LET row == [mem[c] EXCEPT !.tokens = @ + bill[c]] IN
  /\ At(c, "answered")
  /\ Cloud => bill[c] <= Reservation
  /\ \/ GateStops(c, row)
     \/ EndsIn(c, row, {"failed"})   \* the gate itself raises
     \/ ~stop[c] /\ row.tokens > MaxTokens /\ EndsIn(c, row, {"needs-human"})
     \/ /\ ~stop[c] /\ row.tokens <= MaxTokens
        /\ mem' = [mem EXCEPT ![c] = row]
        /\ Go(c, "judging")
        /\ UNCHANGED <<doc, owner>>
  /\ bill' = [bill EXCEPT ![c] = 0]
  /\ UNCHANGED <<stop, history>>

\* The answer is not a decision: one repair, then a person.
Malformed(c) ==
  /\ At(c, "judging")
  /\ IF mem[c].rejected
     THEN EndsIn(c, mem[c], {"needs-human"})
     ELSE Save(c, Rejecting(mem[c])) /\ Go(c, "top")
  /\ UNCHANGED <<stop, bill, history>>

\* The cited evidence covers what the mode demands.
Covers(row, cited) ==
  \A g \in Coverage : \E a \in g \cap cited : row.result[a] = "ok"

\* Faulty variant: what was observed counts, cited or not, complete or not.
FinishOnAnyObservation(c, cited) ==
  LET row == mem[c] IN
  /\ At(c, "judging")
  /\ IF cited # {} THEN EndsIn(c, row, {"completed"})
                   ELSE EndsIn(c, Rejecting(row), {"needs-human"})
  /\ UNCHANGED <<stop, bill, history>>

\* finish, on cited evidence.
Finish(c, cited) ==
  LET row == mem[c] IN
  /\ At(c, "judging")
  /\ IF cited # {} /\ Covers(row, cited)
     THEN EndsIn(c, row, {"completed"})
     ELSE EndsIn(c, Rejecting(row), {"needs-human"})
  /\ UNCHANGED <<stop, bill, history>>

\* request_human_review; without evidence it is a rejected proposal.
AskPerson(c, cited) ==
  /\ At(c, "judging")
  /\ EndsIn(c, IF cited = {} THEN Rejecting(mem[c]) ELSE mem[c], {"needs-human"})
  /\ UNCHANGED <<stop, bill, history>>

\* Faulty variant: only finished actions bar a proposal.
MayBeginUnlessUsed(row, a) == row.steps < MaxSteps /\ a \notin Observed(row)

\* The proposal may be carried out.
MayBegin(row, a) ==
  row.steps < MaxSteps /\ a \notin Observed(row) /\ ~InFlight(row)

\* A proposed tool action.
Propose(c, a) ==
  LET row == mem[c] IN
  /\ At(c, "judging")
  /\ IF MayBegin(row, a) THEN Begin(c, a, row)
                         ELSE EndsIn(c, Rejecting(row), {"needs-human"})
  /\ UNCHANGED <<stop, bill, history>>

\* Any other exception inside the loop.
Fault(c) ==
  /\ pc[c] \in {"top", "clear", "executed", "judging"}
  /\ EndsIn(c, mem[c], {"failed"})
  /\ UNCHANGED <<stop, bill, history>>

-----------------------------------------------------------------------------
(***************************************************************************)
(* The end of a hold, and what may happen at any moment of it.             *)
(***************************************************************************)

\* The report is written and the row saved once more with its name ...
FinalSave(c) ==
  /\ At(c, "report")
  /\ Save(c, mem[c])
  /\ Go(c, "leaving")
  /\ UNCHANGED <<stop, bill, history>>

\* ... or writing it fails.
ReportFails(c) ==
  /\ At(c, "report")
  /\ Go(c, "rejected")
  /\ UNCHANGED <<doc, owner, mem, stop, bill, history>>

\* AgentService._run's handler: the owner is read, then the row is marked.
CheckOwner(c) ==
  /\ At(c, "rejected")
  /\ Go(c, IF owner = c THEN "failing" ELSE "leaving")
  /\ UNCHANGED <<doc, owner, mem, stop, bill, history>>

FailWrite(c) ==
  /\ At(c, "failing")
  /\ doc' = [doc EXCEPT !.state = "failed"]
  /\ Go(c, "leaving")
  /\ UNCHANGED <<owner, mem, stop, bill, history>>

\* The worker forgets the task.
Forget(c) ==
  /\ Go(c, "idle")
  /\ mem' = [mem EXCEPT ![c] = NewRow]
  /\ stop' = [stop EXCEPT ![c] = FALSE]
  /\ bill' = [bill EXCEPT ![c] = 0]

Leave(c) ==
  /\ At(c, "leaving")
  /\ Forget(c)
  /\ UNCHANGED <<doc, owner, history>>

\* The process exits; a restarted one is another owner.
Crash(c) ==
  /\ pc[c] # "idle" \/ owner = c
  /\ Forget(c)
  /\ owner' = IF owner = c THEN Nobody ELSE owner
  /\ UNCHANGED <<doc, history>>

\* Some console finds the active row of an exited process.
Recover ==
  /\ doc.state \in Active /\ owner = Nobody
  /\ doc' = [doc EXCEPT !.state = "interrupted"]
  /\ UNCHANGED <<owner, memory, history>>

\* cancel_run: accepted as long as the console has the task in hand.
CancelRun(c) ==
  /\ ~At(c, "idle")
  /\ stop' = [stop EXCEPT ![c] = TRUE]
  /\ doc' = [doc EXCEPT !.state = "cancelling"]
  /\ UNCHANGED <<owner, pc, mem, bill, history>>

\* The session switch, or closing the dashboard: only the event is set.
SwitchOff(c) ==
  /\ ~At(c, "idle")
  /\ stop' = [stop EXCEPT ![c] = TRUE]
  /\ UNCHANGED <<doc, owner, pc, mem, bill, history>>

WorkerStep(c) ==
  \/ Load(c) \/ Acquire(c) \/ AcquireRefused(c)
  \/ TopGate(c) \/ RecipeTurn(c) \/ ModelTurn(c)
  \/ \E a \in Action, n \in 0..MaxRequests : Perform(c, a, n)
  \/ \E a \in Action : ToolFails(c, a) \/ ToolSucceeds(c, a) \/ Propose(c, a)
  \/ RecipeIncomplete(c)
  \/ \E u \in Usage : Ask(c, u)
  \/ NoAnswer(c) \/ AnswerGate(c) \/ Malformed(c)
  \/ \E cited \in SUBSET Observed(mem[c]) : Finish(c, cited) \/ AskPerson(c, cited)
  \/ Fault(c) \/ FinalSave(c) \/ ReportFails(c)
  \/ CheckOwner(c) \/ FailWrite(c) \/ Leave(c)

Next ==
  \/ \E c \in Console : WorkerStep(c) \/ Resume(c) \/ Crash(c) \/ CancelRun(c) \/ SwitchOff(c)
  \/ Recover

Spec == Init /\ [][Next]_vars

(***************************************************************************)
(* The loop is scheduled, and every call it makes has a timeout.  Nothing  *)
(* is assumed of the operator, of crashes or of recovery.                  *)
(***************************************************************************)
Fairness == \A c \in Console : WF_vars(WorkerStep(c))

\* One console at a time has the task in hand: the person who resumes it does
\* so after the console that had it has let go.
Alone == \A c, d \in Console : ~At(c, "idle") /\ ~At(d, "idle") => c = d

\* What the discipline of AgentLease.tla gives: one console works, and no other
\* is about to write late.  Another may have read the row to resume it.
Idling == {"idle", "queued", "resuming", "loaded", "rejected", "leaving"}
Disciplined ==
  \A c, d \in Console : c # d /\ pc[c] \notin Idling \cup {"report", "failing"}
                         => pc[d] \in Idling

DisciplinedSpec == Init /\ [][Next /\ Disciplined']_vars

AloneSpec == Init /\ [][Next /\ Alone']_vars
AloneFairSpec == AloneSpec /\ Fairness

-----------------------------------------------------------------------------
(***************************************************************************)
(* Properties.                                                             *)
(***************************************************************************)

\* An action about to be performed has not been performed before with an
\* outcome that is ok or unknown, whatever crashed in between.
NoReplay ==
  \A c \in Console, a \in Action :
    At(c, "intent") /\ mem[c].result[a] = "executing" => a \notin performed

\* A task is completed only with a full observation of each thing its mode
\* demands.
CompletedIsCovered ==
  doc.state = "completed" =>
    /\ Observed(doc) # {}
    /\ \A g \in Coverage : \E a \in g : doc.result[a] = "ok"

\* Over all holds of the task, with the crashes between them, the calls really made
\* stay within max_model_calls, the actions really performed within max_steps, and
\* the requests really sent within max_requests, though the counter of an
\* interrupted action is lost; and a cloud task never has more than max_tokens charged.
WorkWithinLimits ==
  /\ asked <= MaxCalls
  /\ did <= MaxSteps
  /\ sent <= MaxRequests
  /\ Cloud => doc.tokens <= MaxTokens

\* What a hold has left of its turns, and of the turn it is in.
PhasesLeft ==
  [idle |-> 0, leaving |-> 1, failing |-> 2, rejected |-> 3, report |-> 4, partial |-> 5,
   clear |-> 5, top |-> 6, executed |-> 7, intent |-> 8, judging |-> 7, answered |-> 8,
   asking |-> 9, loaded |-> 7, queued |-> 8, resuming |-> 8]

TurnsLeft(phase, row) ==
  CASE phase = "idle" -> 0
    [] phase \in {"queued", "resuming", "loaded"} -> MaxSteps + MaxCalls
    [] OTHER -> (MaxSteps - row.steps) + (MaxCalls - row.calls)

HoldLeft(c) == 10 * TurnsLeft(pc[c], mem[c]) + PhasesLeft[pc[c]]

\* Whatever a worker does uses up some of its hold, which its two counters bound:
\* nothing the model or a tool answers, no rejection and no repair gives any back, and
\* no other console does; only a resumption begins another hold.
HoldRunsOut ==
  [][\A c \in Console :
       \/ At(c, "idle")
       \/ UNCHANGED <<pc[c], mem[c], bill[c]>> /\ ~WorkerStep(c)
       \/ HoldLeft(c)' \in 0..(HoldLeft(c) - 1)]_vars

\* The loop ends: some limit stops it, whatever the model answers.
LoopEnds ==
  \A c \in Console : At(c, "top") ~> pc[c] \in {"report", "idle"}
=============================================================================
