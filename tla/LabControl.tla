------------------------------ MODULE LabControl ------------------------------
(***************************************************************************)
(* The operation queue of one dashboard process (dashboard_control.py),    *)
(* with its journal (dashboard_state.py), the container operations it asks *)
(* for (local_labs.py) and the detection it runs (dashboard_detection.py). *)
(*                                                                         *)
(* A request is accepted under the lock, then logged under it, then handed *)
(* to the thread pool outside it; a worker takes it, waits for the         *)
(* operation it replaced, and works outside the lock.  A job is an         *)
(* operation or detection the process still knows of.  "up" stands for     *)
(* start and reset, which differ only in the commands they run.            *)
(*                                                                         *)
(* Saves of the journal succeed.  Containers start and stop only by what   *)
(* this process asks for, and commands cut off by a cancellation or by its *)
(* exit have had their effect when it goes on.  The health of one that     *)
(* runs is not followed: whoever looks may see it READY or not, and Docker *)
(* itself may not answer.                                                  *)
(***************************************************************************)
EXTENDS Naturals, Sequences, FiniteSets

CONSTANTS
  Lab,        \* the labs that are looked at
  Slots,      \* jobs of one lab kept at a time (bound)
  Workers,    \* threads of the pool
  Requests    \* submissions served at a time (bound)

ASSUME ControlAssumption ==
  /\ IsFiniteSet(Lab)
  /\ Slots \in Nat \ {0, 1}
  /\ Workers \in Nat
  /\ Requests \in Nat

VARIABLES
  job,      \* the jobs, by lab and slot
  tail,     \* tail[l]: slot of the latest operation of lab l, or 0
  probe,    \* probe[l]: slot of the latest detection of lab l, or 0
  seen,     \* labs that a request has found READY and is about to submit
  queue,    \* what has been handed to the pool and not been taken
  gate,     \* is the process open to submissions
  shut,     \* has the pool been shut down
  agent,    \* is an agent task of this process active
  up,       \* up[l]: does the container of lab l run
  journal   \* the journal file

vars == <<job, tail, probe, seen, queue, gate, shut, agent, up, journal>>

-----------------------------------------------------------------------------
Id     == Lab \X (1..Slots)
Action == {"up", "stop", "detect"}
Active == {"queued", "running", "cancelling"}
Ended  == {"completed", "failed", "cancelled"}
State  == Active \cup Ended
Up     == {"running", "stopped"}

\* What status() may say.  "UNHEALTHY" stands for every answer that is shown as blocked,
\* "STOPPED" for that of a container that does not run or is not there.
Status == {"READY", "STARTING", "UNHEALTHY", "STOPPED"}

\* Where a job stands: with the request that submitted it, in the pool's queue,
\* with a worker, or over.  The hand-over of a lost one has failed.
Submitting == {"accepted", "logged"}
Working    == {"taken", "begun", "acting", "acted", "settled", "over"}
Stage      == {"free", "queued", "lost", "ended"} \cup Submitting \cup Working

Job   == [action : Action, stage : Stage, state : State, cancel : BOOLEAN,
          prev : 0..Slots, res : Ended \cup {"none"}]
Blank == [action |-> "stop", stage |-> "free", state |-> "cancelled",
          cancel |-> FALSE, prev |-> 0, res |-> "none"]

\* What the journal keeps of an operation: the active states are one to it.
Entry  == [action : {"up", "stop", "detect"}, state : Ended \cup {"active"}]
Absent == [action |-> "none", state |-> "none"]

TypeOK ==
  /\ job \in [Id -> Job]
  /\ tail \in [Lab -> 0..Slots] /\ probe \in [Lab -> 0..Slots]
  /\ seen \subseteq Lab
  /\ queue \in Seq(Id)
  /\ gate \in {"open", "frozen", "closing"}
  /\ shut \in BOOLEAN /\ agent \in BOOLEAN
  /\ up \in [Lab -> Up]
  /\ journal \in [Lab -> [life : Entry \cup {Absent}, det : Entry \cup {Absent}]]

Init ==
  /\ job = [i \in Id |-> Blank]
  /\ tail = [l \in Lab |-> 0] /\ probe = [l \in Lab |-> 0]
  /\ seen = {} /\ queue = <<>>
  /\ gate = "open" /\ shut = FALSE /\ agent = FALSE
  /\ up \in [Lab -> Up]
  /\ journal = [l \in Lab |-> [life |-> Absent, det |-> Absent]]

-----------------------------------------------------------------------------
\* _operations[l] and _detections[l], as far as they are looked at.
LifeState(l) == IF tail[l] = 0 THEN "none" ELSE job[<<l, tail[l]>>].state
DetState(l)  == IF probe[l] = 0 THEN "none" ELSE job[<<l, probe[l]>>].state

\* What a container is shown as while no operation is there to be shown.
HealthShown == [READY     |-> "completed", STARTING |-> "running",
                UNHEALTHY |-> "blocked",   STOPPED  |-> "idle"]

\* _map_state(): Docker first, then the operation, then the container.
OperationShown(l, docker, status) ==
  IF ~docker THEN "blocked"
  ELSE IF LifeState(l) \in {"queued", "running", "failed"} THEN LifeState(l)
  ELSE HealthShown[status]

\* snapshot(): the task of the lab, as the page shows it.  Docker and the container were
\* looked at before the lock is taken, so they may have said anything.
Shown(l, docker, status) ==
  IF DetState(l) = "none" \/ LifeState(l) \in {"queued", "running", "failed"}
  THEN OperationShown(l, docker, status)
  ELSE IF DetState(l) = "cancelling" THEN "running" ELSE DetState(l)

\* Faulty variant: a detection being cancelled counts as over.
ActiveWorkButCancelling ==
  \/ agent
  \/ \E l \in Lab : {LifeState(l), DetState(l)} \cap {"queued", "running"} # {}

\* lifecycle()["activeWork"].
ActiveWork ==
  \/ agent
  \/ \E l \in Lab : {LifeState(l), DetState(l)} \cap Active # {}

\* _persist_locked: the journal is replaced by what is in memory.
EntryOf(l, k) ==
  IF k = 0 THEN Absent
  ELSE LET j == job[<<l, k>>] IN
       [action |-> j.action, state |-> IF j.state \in Active THEN "active" ELSE j.state]
Memory  == [l \in Lab |-> [life |-> EntryOf(l, tail[l]), det |-> EntryOf(l, probe[l])]]
Persist == journal' = Memory'

\* Jobs of the lab that neither table holds any more are forgotten once ended.
Forgotten(j) == IF j.stage = "ended" THEN Blank ELSE j

Free(l)     == {k \in 1..Slots : job[<<l, k>>].stage = "free"}
FreeSlot(l) == CHOOSE k \in Free(l) : TRUE
Serving     == Cardinality(seen) + Cardinality({i \in Id : job[i].stage \in Submitting})
Busy        == {i \in Id : job[i].stage \in Working}

New(a, before) == [Blank EXCEPT !.action = a, !.stage = "accepted", !.state = "queued",
                                !.prev = before]

-----------------------------------------------------------------------------
(***************************************************************************)
(* Submitting.                                                             *)
(***************************************************************************)

\* Faulty variant: a stop may also replace the stop that is there.
MayReplaceAny(l, a) == LifeState(l) \in {"queued", "running"} => a = "stop"

\* An operation that is queued or running gives way to a stop only, and a stop to nothing.
MayReplace(l, a) ==
  LifeState(l) \in {"queued", "running"} => a = "stop" /\ job[<<l, tail[l]>>].action # "stop"

\* Faulty variant: the new operation does not wait for the one it replaces.
SubmitWithoutPrevious(l, a) ==
  LET k == tail[l]
      waits == LifeState(l) \in {"queued", "running"} IN
  /\ gate = "open" /\ ~agent /\ DetState(l) \notin Active
  /\ MayReplace(l, a)
  /\ Free(l) # {} /\ Serving < Requests
  /\ tail' = [tail EXCEPT ![l] = FreeSlot(l)]
  /\ job' = [i \in Id |->
               IF i = <<l, FreeSlot(l)>> THEN New(a, 0)
               ELSE IF i = <<l, k>> /\ waits THEN [job[i] EXCEPT !.cancel = TRUE]
               ELSE IF i = <<l, k>> THEN Forgotten(job[i])
               ELSE job[i]]
  /\ UNCHANGED <<probe, seen, queue, gate, shut, agent, up, journal>>

\* submit(): a stop replaces an operation that is queued or running, cancels it
\* and waits for it; anything else needs a lab with nothing going on.
Submit(l, a) ==
  LET k == tail[l]
      waits == LifeState(l) \in {"queued", "running"} IN
  /\ gate = "open" /\ ~agent /\ DetState(l) \notin Active
  /\ MayReplace(l, a)
  /\ Free(l) # {} /\ Serving < Requests
  /\ tail' = [tail EXCEPT ![l] = FreeSlot(l)]
  /\ job' = [i \in Id |->
               IF i = <<l, FreeSlot(l)>> THEN New(a, IF waits THEN k ELSE 0)
               ELSE IF i = <<l, k>> /\ waits THEN [job[i] EXCEPT !.cancel = TRUE]
               ELSE IF i = <<l, k>> THEN Forgotten(job[i])
               ELSE job[i]]
  /\ UNCHANGED <<probe, seen, queue, gate, shut, agent, up, journal>>

\* submit_detection() looks at the container before it takes the lock.
FindReady(l) ==
  /\ up[l] = "running" /\ l \notin seen /\ Serving < Requests
  /\ seen' = seen \cup {l}
  /\ UNCHANGED <<job, tail, probe, queue, gate, shut, agent, up, journal>>

MayDetect(l) ==
  /\ gate = "open" /\ ~agent
  /\ LifeState(l) \notin {"queued", "running"} /\ DetState(l) \notin Active

SubmitDetection(l) ==
  /\ l \in seen /\ MayDetect(l) /\ Free(l) # {}
  /\ seen' = seen \ {l}
  /\ probe' = [probe EXCEPT ![l] = FreeSlot(l)]
  /\ job' = [i \in Id |-> IF i = <<l, FreeSlot(l)>> THEN New("detect", 0)
                          ELSE IF i = <<l, probe[l]>> THEN Forgotten(job[i])
                          ELSE job[i]]
  /\ UNCHANGED <<tail, queue, gate, shut, agent, up, journal>>

DetectionRefused(l) ==
  /\ l \in seen /\ ~MayDetect(l)
  /\ seen' = seen \ {l}
  /\ UNCHANGED <<job, tail, probe, queue, gate, shut, agent, up, journal>>

\* cancel_detection(), and the event it logs.
CancelDetection(l) ==
  /\ DetState(l) \in Active
  /\ job' = [job EXCEPT ![<<l, probe[l]>>].cancel = TRUE,
                        ![<<l, probe[l]>>].state = "cancelling"]
  /\ UNCHANGED <<tail, probe, seen, queue, gate, shut, agent, up>>
  /\ Persist

\* Faulty variant: the journal is not saved with the event.
LogUnsaved(i) ==
  /\ job[i].stage = "accepted"
  /\ job' = [job EXCEPT ![i].stage = "logged"]
  /\ UNCHANGED <<tail, probe, seen, queue, gate, shut, agent, up, journal>>

\* The request logs what it accepted, which saves the journal ...
Log(i) ==
  /\ job[i].stage = "accepted"
  /\ job' = [job EXCEPT ![i].stage = "logged"]
  /\ UNCHANGED <<tail, probe, seen, queue, gate, shut, agent, up>>
  /\ Persist

\* ... and hands it over, or fails to when the pool has been shut down.
HandOver(i) ==
  /\ job[i].stage = "logged"
  /\ job' = [job EXCEPT ![i].stage = IF shut THEN "lost" ELSE "queued"]
  /\ queue' = IF shut THEN queue ELSE Append(queue, i)
  /\ UNCHANGED <<tail, probe, seen, gate, shut, agent, up, journal>>

-----------------------------------------------------------------------------
(***************************************************************************)
(* The workers of the pool.                                                *)
(***************************************************************************)
Take(i) ==
  /\ queue # <<>> /\ i = Head(queue) /\ Cardinality(Busy) < Workers
  /\ queue' = Tail(queue)
  /\ job' = [job EXCEPT ![i].stage = "taken"]
  /\ UNCHANGED <<tail, probe, seen, gate, shut, agent, up, journal>>

\* Under the lock: a job cancelled while it waited is over, any other runs.
BeginCancelled(i) ==
  /\ job[i].stage = "taken" /\ job[i].prev = 0 /\ job[i].cancel
  /\ job' = [job EXCEPT ![i].stage = "over", ![i].state = "cancelled"]
  /\ UNCHANGED <<tail, probe, seen, queue, gate, shut, agent, up>>
  /\ Persist

BeginDetection(i) ==
  /\ job[i].stage = "taken" /\ job[i].action = "detect" /\ ~job[i].cancel
  /\ job' = [job EXCEPT ![i].stage = "begun", ![i].state = "running"]
  /\ UNCHANGED <<tail, probe, seen, queue, gate, shut, agent, up, journal>>

\* An operation logs its beginning before it asks for anything.
Begin(i) ==
  /\ job[i].stage = "taken" /\ job[i].action # "detect" /\ job[i].prev = 0 /\ ~job[i].cancel
  /\ job' = [job EXCEPT ![i].stage = "acting", ![i].state = "running"]
  /\ UNCHANGED <<tail, probe, seen, queue, gate, shut, agent, up>>
  /\ Persist

\* Faulty variant: the container is not looked at again.
PassPrecheckOnce(i) ==
  /\ job[i].stage = "begun" /\ job[i].action = "detect" /\ ~job[i].cancel
  /\ job' = [job EXCEPT ![i].stage = "acting"]
  /\ UNCHANGED <<tail, probe, seen, queue, gate, shut, agent, up>>
  /\ Persist

\* A detection looks at the container again, and logs that it will go on.
PassPrecheck(i) ==
  /\ job[i].stage = "begun" /\ job[i].action = "detect" /\ ~job[i].cancel
  /\ up[i[1]] = "running"
  /\ job' = [job EXCEPT ![i].stage = "acting"]
  /\ UNCHANGED <<tail, probe, seen, queue, gate, shut, agent, up>>
  /\ Persist

\* Cancelled, or not seen READY, which a container that runs may be at any moment.
FailPrecheck(i) ==
  /\ job[i].stage = "begun" /\ job[i].action = "detect"
  /\ job' = [job EXCEPT ![i].stage = "acted",
                        ![i].res = IF job[i].cancel THEN "cancelled" ELSE "failed"]
  /\ UNCHANGED <<tail, probe, seen, queue, gate, shut, agent, up, journal>>

\* operate() for start and reset, and the look at the cancel flag after it.  They
\* complete when the lab has answered a request, whatever Docker says of its health;
\* cancelled or failing, they leave the container in any state.
OperateUp(i) ==
  /\ job[i].stage = "acting" /\ job[i].action = "up"
  /\ \E u \in Up, r \in Ended :
       /\ r = "completed" => u = "running" /\ ~job[i].cancel
       /\ r = "cancelled" => job[i].cancel
       /\ up' = [up EXCEPT ![i[1]] = u]
       /\ job' = [job EXCEPT ![i].stage = "acted", ![i].res = r]
  /\ UNCHANGED <<tail, probe, seen, queue, gate, shut, agent, journal>>

\* operate() for stop, which nobody cancels.
OperateStop(i) ==
  /\ job[i].stage = "acting" /\ job[i].action = "stop"
  /\ \E u \in {up[i[1]], "stopped"}, r \in {"completed", "failed", "cancelled"} :
       /\ r = "completed" => u = "stopped" /\ ~job[i].cancel
       /\ r = "cancelled" => job[i].cancel
       /\ up' = [up EXCEPT ![i[1]] = u]
       /\ job' = [job EXCEPT ![i].stage = "acted", ![i].res = r]
  /\ UNCHANGED <<tail, probe, seen, queue, gate, shut, agent, journal>>

\* The rest of a detection: it may come to its end though it is cancelled, and
\* its progress saves the journal with the rest of memory.
Probe(i) ==
  /\ job[i].stage = "acting" /\ job[i].action = "detect"
  /\ \E r \in Ended :
       /\ r = "cancelled" => job[i].cancel
       /\ job' = [job EXCEPT ![i].stage = "acted", ![i].res = r]
  /\ UNCHANGED <<tail, probe, seen, queue, gate, shut, agent, up>>
  /\ Persist

\* The result is entered under the lock; a detection's is saved with it.
Settle(i) ==
  /\ job[i].stage = "acted"
  /\ job' = [job EXCEPT ![i].stage = "settled", ![i].state = job[i].res, ![i].res = "none"]
  /\ UNCHANGED <<tail, probe, seen, queue, gate, shut, agent, up>>
  /\ IF job[i].action = "detect" THEN Persist ELSE UNCHANGED journal

\* What is left of a job once "done" is set: what the tables still show of it.
Kept(i) == IF i[2] \in {tail[i[1]], probe[i[1]]}
           THEN [job[i] EXCEPT !.stage = "ended", !.cancel = FALSE, !.prev = 0]
           ELSE Blank

\* Nobody waits for it any more.
Release(i) ==
  job' = [n \in Id |->
            IF n = i THEN Kept(i)
            ELSE IF n[1] = i[1] /\ job[n].prev = i[2] THEN [job[n] EXCEPT !.prev = 0]
            ELSE job[n]]

Report(i) ==
  /\ job[i].stage = "settled"
  /\ Release(i)
  /\ UNCHANGED <<tail, probe, seen, queue, gate, shut, agent, up>>
  /\ Persist

\* Faulty variant: the way out of a cancelled job does not set "done".
DoneUnnoticed(i) ==
  /\ job[i].stage = "over"
  /\ job' = [job EXCEPT ![i] = Kept(i)]
  /\ UNCHANGED <<tail, probe, seen, queue, gate, shut, agent, up, journal>>

\* The way out of a job cancelled before it began, which has logged already.
Done(i) ==
  /\ job[i].stage = "over"
  /\ Release(i)
  /\ UNCHANGED <<tail, probe, seen, queue, gate, shut, agent, up, journal>>

-----------------------------------------------------------------------------
(***************************************************************************)
(* The agent service of the process, its shutdown and its restart.         *)
(***************************************************************************)
AgentStart ==
  /\ gate = "open" /\ ~ActiveWork
  /\ \E l \in Lab : up[l] = "running"
  /\ agent' = TRUE
  /\ UNCHANGED <<job, tail, probe, seen, queue, gate, shut, up, journal>>

AgentEnd ==
  /\ agent /\ agent' = FALSE
  /\ UNCHANGED <<job, tail, probe, seen, queue, gate, shut, up, journal>>

PrepareShutdown ==
  /\ gate = "open" /\ ~ActiveWork
  /\ gate' = "frozen"
  /\ UNCHANGED <<job, tail, probe, seen, queue, shut, agent, up>>
  /\ Persist

Latest(i) == i[2] \in {tail[i[1]], probe[i[1]]}

\* close(): what is latest and is not a stop is cancelled.  (The flag of a job
\* that is not active any more is never read.)
Close ==
  /\ ~shut
  /\ shut' = TRUE
  /\ gate' = IF gate = "open" THEN "closing" ELSE gate
  /\ job' = [i \in Id |-> IF Latest(i) /\ job[i].state \in Active /\ job[i].action # "stop"
                          THEN [job[i] EXCEPT !.cancel = TRUE] ELSE job[i]]
  /\ UNCHANGED <<tail, probe, seen, queue, agent, up>>
  /\ Persist

\* restored_state(): what was active has failed.
Restored(e) ==
  [Blank EXCEPT !.action = e.action, !.stage = "ended",
                !.state = IF e.state = "active" THEN "failed" ELSE e.state]

\* The process exits, at any point, and another one reads the journal.
Restart ==
  LET cut == {l \in Lab : \E k \in 1..Slots :
                 job[<<l, k>>].stage = "acting" /\ job[<<l, k>>].action # "detect"} IN
  /\ job' = [i \in Id |->
               IF i[2] = 1 /\ journal[i[1]].life # Absent THEN Restored(journal[i[1]].life)
               ELSE IF i[2] = 2 /\ journal[i[1]].det # Absent THEN Restored(journal[i[1]].det)
               ELSE Blank]
  /\ tail' = [l \in Lab |-> IF journal[l].life # Absent THEN 1 ELSE 0]
  /\ probe' = [l \in Lab |-> IF journal[l].det # Absent THEN 2 ELSE 0]
  /\ seen' = {} /\ queue' = <<>>
  /\ gate' = "open" /\ shut' = FALSE /\ agent' = FALSE
  /\ \E u \in [cut -> Up] : up' = [l \in Lab |-> IF l \in cut THEN u[l] ELSE up[l]]
  /\ Persist

\* A lab that is not looked at logs something, which saves all of the journal.
OtherEvent ==
  /\ UNCHANGED <<job, tail, probe, seen, queue, gate, shut, agent, up>>
  /\ Persist

-----------------------------------------------------------------------------
\* What a page may ask of a lab.
Request ==
  \E l \in Lab : \/ \E a \in {"up", "stop"} : Submit(l, a)
                 \/ FindReady(l) \/ SubmitDetection(l) \/ DetectionRefused(l)
                 \/ CancelDetection(l)

\* What is done for a job, by the request that submitted it and then by a worker.
Advance(i) ==
  \/ Log(i) \/ HandOver(i)
  \/ Take(i) \/ BeginCancelled(i) \/ Begin(i) \/ BeginDetection(i)
  \/ PassPrecheck(i) \/ FailPrecheck(i)
  \/ OperateUp(i) \/ OperateStop(i) \/ Probe(i)
  \/ Settle(i) \/ Report(i) \/ Done(i)

Next == \/ Request \/ \E i \in Id : Advance(i)
        \/ AgentStart \/ AgentEnd
        \/ PrepareShutdown \/ Close \/ Restart \/ OtherEvent

\* Threads that have something to do do it; nobody has to ask for anything.
Fairness == \A i \in Id : WF_vars(Advance(i))

Spec == Init /\ [][Next]_vars /\ Fairness

-----------------------------------------------------------------------------
(***************************************************************************)
(* Properties.                                                             *)
(***************************************************************************)
OnLab(l)   == {k \in 1..Slots : job[<<l, k>>].stage = "acting"}
Pending(i) == job[i].stage \in Submitting \cup {"queued", "taken", "begun", "acting", "acted"}

\* No two operations or detections are at work on one lab, and the agent never
\* works beside one: submission decides this once, under the lock, for work
\* that is done much later, by other threads, without it.
OneActsOnLab ==
  /\ \A l \in Lab : Cardinality(OnLab(l)) <= 1
  /\ agent => \A l \in Lab : OnLab(l) = {}

\* What has completed is what the container is: a stop that completed was not overtaken
\* by the start it replaced, before the process exited or after.  And while anything is at
\* work on a lab the page does not show it as idle or over, whatever it was told of the
\* container and whichever of the operation, the one it replaced and the detection is
\* looked at.  A failed operation is the exception, which hides the detection that runs
\* after it, and a Docker that does not answer, which hides the operation as blocked.
ShownIsReal ==
  \A l \in Lab :
    /\ LifeState(l) = "completed" =>
         (job[<<l, tail[l]>>].action = "stop" <=> up[l] = "stopped")
    /\ OnLab(l) # {} =>
         \A docker \in BOOLEAN, status \in Status :
           Shown(l, docker, status) \in
             {"queued", "running", "failed"} \cup (IF docker THEN {} ELSE {"blocked"})

\* What was found READY before it was queued, and has been stopped since, is not probed.
ProbesWhatRuns ==
  \A i \in Id : job[i].action = "detect" /\ job[i].stage = "acting" => up[i[1]] = "running"

\* Once the process has agreed to be shut down no lab is at work or to be
\* worked on, and it stays so; only what is over may still be logged.
QuietShutdown ==
  gate = "frozen" => ~agent /\ \A i \in Id : ~Pending(i)

\* A restart neither forgets nor embellishes: for each lab with an operation or
\* a detection that was answered for and not finished, what it shows has failed.
CutOffIsShown ==
  [][Restart => \A i \in Id : job[i].stage # "accepted" /\ Pending(i) =>
       IF job[i].action = "detect" THEN DetState(i[1])' = "failed"
                                   ELSE LifeState(i[1])' = "failed"]_vars

\* Waits(i): the worker of the job is blocked until the operation it replaced is done.
Waits(i) == job[i].stage = "taken" /\ job[i].prev # 0
OnItsWay == Submitting \cup {"queued"} \cup Working

\* Nobody waits in a circle, whichever of two requests reaches the pool first: a pool with
\* more workers than labs always has one that does not wait, and what is waited for waits
\* for nobody and, while submissions are open, has not ended unnoticed or been lost.
WaitersLeaveRoom ==
  /\ Workers > Cardinality(Lab) => Cardinality({i \in Id : Waits(i)}) < Workers
  /\ \A i \in Id : Waits(i) =>
       /\ ~Waits(<<i[1], job[i].prev>>)
       /\ gate = "open" => job[<<i[1], job[i].prev>>].stage \in OnItsWay

\* Whatever is accepted is finished, unless the process is told to end: threads
\* that wait for another job's end do not wait for ever.
AcceptedEnds ==
  \A i \in Id : job[i].stage = "accepted" ~> (job[i].stage \in {"ended", "free"} \/ shut)

\* The jobs at work on a lab, and the lock on labs and agent that they implement, step by
\* step: submission grants it long before, in the tables, and nothing takes it later.
Acting == {i \in Id : job[i].stage = "acting"}
Guard  == INSTANCE LabGuard WITH Slot <- 1..Slots, working <- Acting
ImplementsGuard == Guard!Spec
=============================================================================
