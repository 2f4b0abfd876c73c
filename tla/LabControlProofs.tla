--------------------------- MODULE LabControlProofs ---------------------------
(***************************************************************************)
(* Theorems about LabControl, for every set of labs, every size of the     *)
(* pool and every number of jobs and requests at a time.                   *)
(***************************************************************************)
EXTENDS LabControl, FiniteSetTheorems, SequenceTheorems, TLAPS

USE ControlAssumption

-----------------------------------------------------------------------------
(***************************************************************************)
(* How the parts of a job, the two tables and the queue of the pool fit    *)
(* together.                                                               *)
(***************************************************************************)
Before == Submitting \cup {"queued", "taken", "lost"}
AtWork == {"begun", "acting", "acted"}
After  == {"settled", "over"}
Live   == Before \cup AtWork \cup After

\* A job that has not begun is shown as queued, one at work as running, one that has
\* settled as ended; a detection may be shown as cancelling until it has.
Shape(j) ==
  /\ j.stage \in Before => j.state = "queued" \/ (j.action = "detect" /\ j.state = "cancelling")
  /\ j.stage \in AtWork => j.state = "running" \/ (j.action = "detect" /\ j.state = "cancelling")
  /\ j.stage \in After \cup {"ended"} => j.state \in Ended
  /\ j.stage = "acted" => j.res \in Ended
  /\ j.stage = "begun" => j.action = "detect"
  /\ j.prev # 0 => j.action = "stop" /\ j.stage \in Before

\* A job that has not settled is the one in its table, or the one that one waits for.
Refs(l) ==
  /\ tail[l] # 0  => job[<<l, tail[l]>>].stage # "free" /\ job[<<l, tail[l]>>].action # "detect"
  /\ probe[l] # 0 => job[<<l, probe[l]>>].stage # "free" /\ job[<<l, probe[l]>>].action = "detect"
  /\ \A k \in 1..Slots :
       /\ job[<<l, k>>].prev # 0 =>
            /\ k = tail[l]
            /\ job[<<l, job[<<l, k>>].prev>>].stage \in Live
            /\ job[<<l, job[<<l, k>>].prev>>].action = "up"
       /\ job[<<l, k>>].stage \in Before \cup AtWork =>
            IF job[<<l, k>>].action = "detect" THEN k = probe[l]
            ELSE k = tail[l] \/ (tail[l] # 0 /\ job[<<l, tail[l]>>].prev = k)

\* The pool's queue holds what is queued, once.
Queued ==
  /\ \A n \in DOMAIN queue : queue[n] \in Id /\ job[queue[n]].stage = "queued"
  /\ \A m, n \in DOMAIN queue : queue[m] = queue[n] => m = n

\* The journal keeps operations and detections apart.
Logged == \A l \in Lab : /\ journal[l].life.action # "detect"
                         /\ journal[l].det # Absent => journal[l].det.action = "detect"

\* After the shutdown of the pool nothing is submitted any more.
Basics ==
  /\ TypeOK /\ Queued /\ Logged
  /\ \A i \in Id : Shape(job[i])
  /\ \A l \in Lab : Refs(l)
  /\ (shut \/ \E i \in Id : job[i].stage = "lost") => gate # "open"

LEMMA Stages ==
  /\ Before \subseteq Stage /\ AtWork \subseteq Stage /\ After \subseteq Stage /\ Live \subseteq Stage
  /\ Before \cap AtWork = {} /\ Before \cap After = {} /\ AtWork \cap After = {}
  /\ {"free", "ended"} \cap Live = {}
  /\ Active \subseteq State /\ Ended \subseteq State /\ Active \cap Ended = {}
BY DEF Before, AtWork, After, Live, Stage, Submitting, Working, State, Active, Ended

LEMMA Pairs ==
  /\ \A i \in Id : i[1] \in Lab /\ i[2] \in 1..Slots /\ i = <<i[1], i[2]>>
  /\ \A l \in Lab, k \in 1..Slots : <<l, k>> \in Id
BY DEF Id

\* What the steps make of a job is again a job, and keeps what it is and whom it waits for.
Alters(v, j, s, t, r) ==
  /\ v \in Job /\ v.action = j.action /\ v.prev = j.prev
  /\ v.stage = s /\ v.state = t /\ v.res = r

LEMMA JobType ==
  ASSUME NEW j \in Job
  PROVE  /\ \A s \in Stage : Alters([j EXCEPT !.stage = s], j, s, j.state, j.res)
         /\ \A s \in Stage, t \in State :
              Alters([j EXCEPT !.stage = s, !.state = t], j, s, t, j.res)
         /\ \A s \in Stage, r \in Ended :
              Alters([j EXCEPT !.stage = s, !.res = r], j, s, j.state, r)
         /\ \A s \in Stage, t \in State :
              Alters([j EXCEPT !.stage = s, !.state = t, !.res = "none"], j, s, t, "none")
         /\ Alters([j EXCEPT !.cancel = TRUE, !.state = "cancelling"], j, j.stage, "cancelling", j.res)
         /\ Alters([j EXCEPT !.cancel = TRUE], j, j.stage, j.state, j.res)
         /\ [j EXCEPT !.stage = "ended", !.cancel = FALSE, !.prev = 0] \in Job
         /\ [j EXCEPT !.prev = 0] \in Job
<1> j.action \in Action /\ j.stage \in Stage /\ j.state \in State /\ j.cancel \in BOOLEAN
    /\ j.prev \in 0..Slots /\ j.res \in Ended \cup {"none"} /\ 0 \in 0..Slots
    /\ j = [action |-> j.action, stage |-> j.stage, state |-> j.state, cancel |-> j.cancel,
            prev |-> j.prev, res |-> j.res]
  BY DEF Job
<1> "cancelling" \in State /\ "ended" \in Stage
  BY DEF State, Active, Stage
<1> USE DEF Job, Alters
<1>1. \A s \in Stage : Alters([j EXCEPT !.stage = s], j, s, j.state, j.res)
  OBVIOUS
<1>2. \A s \in Stage, t \in State : Alters([j EXCEPT !.stage = s, !.state = t], j, s, t, j.res)
  OBVIOUS
<1>3. \A s \in Stage, r \in Ended : Alters([j EXCEPT !.stage = s, !.res = r], j, s, j.state, r)
  OBVIOUS
<1>4. \A s \in Stage, t \in State :
        Alters([j EXCEPT !.stage = s, !.state = t, !.res = "none"], j, s, t, "none")
  OBVIOUS
<1>5. Alters([j EXCEPT !.cancel = TRUE, !.state = "cancelling"], j, j.stage, "cancelling", j.res)
  OBVIOUS
<1>6. Alters([j EXCEPT !.cancel = TRUE], j, j.stage, j.state, j.res)
  OBVIOUS
<1>7. [j EXCEPT !.stage = "ended", !.cancel = FALSE, !.prev = 0] \in Job
  OBVIOUS
<1>8. [j EXCEPT !.prev = 0] \in Job
  OBVIOUS
<1> HIDE DEF Job, Alters
<1> QED
  BY <1>1, <1>2, <1>3, <1>4, <1>5, <1>6, <1>7, <1>8

LEMMA BlankType == Blank \in Job /\ \A a \in Action, k \in 0..Slots : New(a, k) \in Job
<1> /\ {"stop", "detect", "up"} = Action /\ {"free", "accepted"} \subseteq Stage
    /\ {"cancelled", "queued"} \subseteq State /\ 0 \in 0..Slots
  BY DEF Action, Stage, State, Ended, Active, Submitting
<1>1. Blank \in Job
  BY DEF Blank, Job
<1>2. ASSUME NEW a \in Action, NEW k \in 0..Slots PROVE New(a, k) \in Job
  BY <1>2 DEF Blank, Job, New
<1> QED
  BY <1>1, <1>2

-----------------------------------------------------------------------------
(***************************************************************************)
(* The steps that change one job, which stays what it is.                  *)
(***************************************************************************)
Moves(i) ==
  /\ UNCHANGED <<tail, probe, seen, gate, shut, agent>>
  /\ \A n \in Id \ {i} : job'[n] = job[n]
  /\ job'[i].action = job[i].action /\ job'[i].prev = job[i].prev
  /\ job[i].stage \in Live /\ job'[i].stage \in Live
  /\ job'[i].stage \in Before \cup AtWork => job[i].stage \in Before \cup AtWork

Step(i) ==
  \/ Log(i) \/ HandOver(i) \/ Take(i) \/ BeginCancelled(i) \/ Begin(i) \/ BeginDetection(i)
  \/ PassPrecheck(i) \/ FailPrecheck(i) \/ OperateUp(i) \/ OperateStop(i) \/ Probe(i) \/ Settle(i)

LEMMA RefsMove ==
  ASSUME TypeOK, NEW i \in Id, Moves(i), NEW l \in Lab, Refs(l) PROVE Refs(l)'
<1>1. ASSUME NEW k \in 1..Slots
      PROVE  /\ job'[<<l, k>>].action = job[<<l, k>>].action
             /\ job'[<<l, k>>].prev = job[<<l, k>>].prev
             /\ job[<<l, k>>].stage \in Live => job'[<<l, k>>].stage \in Live
             /\ job[<<l, k>>].stage # "free" => job'[<<l, k>>].stage # "free"
             /\ job'[<<l, k>>].stage \in Before \cup AtWork => job[<<l, k>>].stage \in Before \cup AtWork
  BY Pairs, Stages DEF Moves
<1>2. tail' = tail /\ probe' = probe /\ tail[l] \in 0..Slots /\ probe[l] \in 0..Slots
  BY DEF Moves, TypeOK
<1>3. \A k \in 1..Slots : job[<<l, k>>].prev \in 0..Slots
  BY Pairs DEF TypeOK, Job
<1> QED
  BY <1>1, <1>2, <1>3 DEF Refs

\* A step gives one job another value.
LEMMA MoveBy ==
  ASSUME TypeOK, NEW i \in Id, NEW v, NEW s, NEW t, NEW r, Alters(v, job[i], s, t, r),
         UNCHANGED <<tail, probe, seen, gate, shut, agent>>,
         job' = [job EXCEPT ![i] = v], job[i].stage \in Live, s \in Live,
         s \in Before \cup AtWork => job[i].stage \in Before \cup AtWork
  PROVE  /\ Moves(i) /\ job' \in [Id -> Job]
         /\ Alters(job'[i], job[i], s, t, r)
BY DEF TypeOK, Moves, Alters

LEMMA StepMoves ==
  ASSUME Basics, NEW i \in Id, Step(i)
  PROVE  /\ Moves(i) /\ job' \in [Id -> Job] /\ Shape(job'[i])
         /\ up' \in [Lab -> Up] /\ (journal' = journal \/ journal' = Memory')
         /\ job'[i].stage = "lost" => shut
<1> DEFINE j == job[i]
<1> /\ TypeOK /\ job \in [Id -> Job] /\ j \in Job /\ Shape(j) /\ i[1] \in Lab /\ up \in [Lab -> Up]
  BY Pairs DEF Basics, TypeOK
<1> j.action \in Action /\ j.stage \in Stage /\ j.res \in Ended \cup {"none"}
  BY DEF Job
<1> HIDE DEF j
<1> /\ "accepted" \in Before /\ "logged" \in Before /\ "queued" \in Before /\ "taken" \in Before
    /\ "lost" \in Before /\ "begun" \in AtWork /\ "acting" \in AtWork /\ "acted" \in AtWork
    /\ "settled" \in After /\ "over" \in After
    /\ "running" \in State /\ "cancelled" \in Ended
  BY DEF Before, Submitting, AtWork, After, State, Active, Ended
<1> /\ Before \subseteq Stage /\ AtWork \subseteq Stage /\ After \subseteq Stage /\ Ended \subseteq State
    /\ Live = Before \cup AtWork \cup After
    /\ Before \cap AtWork = {} /\ Before \cap After = {} /\ AtWork \cap After = {}
    /\ "ended" \notin Live
  BY Stages DEF Live
<1>0. ASSUME NEW s \in Live, NEW t, NEW r, NEW v, Alters(v, j, s, t, r), job' = [job EXCEPT ![i] = v],
             j.stage \in Live, s \in Before \cup AtWork => j.stage \in Before \cup AtWork,
             s \in Before => j.stage \in Before /\ t = j.state,
             s \in AtWork => t = "running" \/ (j.stage \in AtWork /\ t = j.state),
             s \in After => t \in Ended, s = "acted" => r \in Ended,
             s = "begun" => j.action = "detect", s = "lost" => shut, j.prev # 0 => s \in Before,
             UNCHANGED <<tail, probe, seen, gate, shut, agent>>, up' \in [Lab -> Up],
             journal' = journal \/ journal' = Memory'
      PROVE  /\ Moves(i) /\ job' \in [Id -> Job] /\ Shape(job'[i])
             /\ up' \in [Lab -> Up] /\ (journal' = journal \/ journal' = Memory')
             /\ job'[i].stage = "lost" => shut
  <2>1. Moves(i) /\ job' \in [Id -> Job] /\ Alters(job'[i], j, s, t, r)
    BY <1>0, MoveBy DEF j
  <2>2. Shape(job'[i])
    BY <1>0, <2>1 DEF Alters, Shape
  <2>3. job'[i].stage = "lost" => shut
    BY <1>0, <2>1 DEF Alters
  <2> QED
    BY <1>0, <2>1, <2>2, <2>3
<1>1. CASE Log(i)
  <2>1. job' = [job EXCEPT ![i] = [j EXCEPT !.stage = "logged"]]
    BY <1>1 DEF Log, j
  <2>2. j.stage = "accepted"
    BY <1>1 DEF Log, j
  <2>3. /\ UNCHANGED <<tail, probe, seen, gate, shut, agent>>
        /\ up' \in [Lab -> Up] /\ (journal' = journal \/ journal' = Memory')
    BY <1>1 DEF Log, Persist
  <2>4. Alters([j EXCEPT !.stage = "logged"], j, "logged", j.state, j.res)
    BY <2>2, JobType
  <2>5. /\ "logged" \in Live /\ "logged" \in Before /\ j.stage \in Live /\ j.stage \in Before
        /\ "logged" # "lost" /\ "logged" \notin AtWork /\ "logged" \notin After /\ "logged" \notin {"acted", "begun"}
    BY <2>1, <2>2
  <2> QED
    BY ONLY <1>0, <2>1, <2>3, <2>4, <2>5
<1>2. CASE HandOver(i)
  <2>1. j.stage = "logged"
    BY <1>2 DEF HandOver, j
  <2>2. /\ UNCHANGED <<tail, probe, seen, gate, shut, agent>>
        /\ up' \in [Lab -> Up] /\ (journal' = journal \/ journal' = Memory')
    BY <1>2 DEF HandOver
  <2>3. CASE shut
    <3>1. job' = [job EXCEPT ![i] = [j EXCEPT !.stage = "lost"]]
      BY <1>2, <2>3 DEF HandOver, j
    <3>2. Alters([j EXCEPT !.stage = "lost"], j, "lost", j.state, j.res)
      BY JobType
    <3>3. /\ "lost" \in Live /\ "lost" \in Before /\ j.stage \in Live /\ j.stage \in Before
          /\ "lost" \notin AtWork /\ "lost" \notin After /\ "lost" \notin {"acted", "begun"}
      BY <2>1
    <3> QED
      BY ONLY <1>0, <2>2, <2>3, <3>1, <3>2, <3>3
  <2>4. CASE ~shut
    <3>1. job' = [job EXCEPT ![i] = [j EXCEPT !.stage = "queued"]]
      BY <1>2, <2>4 DEF HandOver, j
    <3>2. Alters([j EXCEPT !.stage = "queued"], j, "queued", j.state, j.res)
      BY JobType
    <3>3. /\ "queued" \in Live /\ "queued" \in Before /\ j.stage \in Live /\ j.stage \in Before
          /\ "queued" \notin AtWork /\ "queued" \notin After /\ "queued" \notin {"acted", "begun"}
      BY <2>1
    <3> QED
      BY ONLY <1>0, <2>2, <2>4, <3>1, <3>2, <3>3
  <2> QED
    BY <2>3, <2>4
<1>3. CASE Take(i)
  <2>1. job' = [job EXCEPT ![i] = [j EXCEPT !.stage = "taken"]]
    BY <1>3 DEF Take, j
  <2>2. j.stage = "queued"
    <3>1. queue \in Seq(Id) /\ queue # <<>> /\ i = Head(queue)
      BY <1>3 DEF Take, TypeOK
    <3>2. 1 \in DOMAIN queue /\ queue[1] = i
      BY <3>1
    <3> QED
      BY <3>2 DEF Basics, Queued, j
  <2>3. /\ UNCHANGED <<tail, probe, seen, gate, shut, agent>>
        /\ up' \in [Lab -> Up] /\ (journal' = journal \/ journal' = Memory')
    BY <1>3 DEF Take
  <2>4. Alters([j EXCEPT !.stage = "taken"], j, "taken", j.state, j.res)
    BY <2>2, JobType
  <2>5. /\ "taken" \in Live /\ "taken" \in Before /\ j.stage \in Live /\ j.stage \in Before
        /\ "taken" # "lost" /\ "taken" \notin AtWork /\ "taken" \notin After /\ "taken" \notin {"acted", "begun"}
    BY <2>1, <2>2
  <2> QED
    BY ONLY <1>0, <2>1, <2>3, <2>4, <2>5
<1>4. CASE BeginCancelled(i)
  <2>1. job' = [job EXCEPT ![i] = [j EXCEPT !.stage = "over", !.state = "cancelled"]]
    BY <1>4 DEF BeginCancelled, j
  <2>2. j.stage = "taken" /\ j.prev = 0
    BY <1>4 DEF BeginCancelled, j
  <2>3. /\ UNCHANGED <<tail, probe, seen, gate, shut, agent>>
        /\ up' \in [Lab -> Up] /\ (journal' = journal \/ journal' = Memory')
    BY <1>4 DEF BeginCancelled, Persist
  <2>4. Alters([j EXCEPT !.stage = "over", !.state = "cancelled"], j, "over", "cancelled", j.res)
    BY <2>2, JobType
  <2> QED
    BY <1>0, <2>1, <2>2, <2>3, <2>4 DEF Shape
<1>5. CASE Begin(i)
  <2>1. job' = [job EXCEPT ![i] = [j EXCEPT !.stage = "acting", !.state = "running"]]
    BY <1>5 DEF Begin, j
  <2>2. j.stage = "taken" /\ j.prev = 0
    BY <1>5 DEF Begin, j
  <2>3. /\ UNCHANGED <<tail, probe, seen, gate, shut, agent>>
        /\ up' \in [Lab -> Up] /\ (journal' = journal \/ journal' = Memory')
    BY <1>5 DEF Begin, Persist
  <2>4. Alters([j EXCEPT !.stage = "acting", !.state = "running"], j, "acting", "running", j.res)
    BY <2>2, JobType
  <2> QED
    BY <1>0, <2>1, <2>2, <2>3, <2>4 DEF Shape
<1>6. CASE BeginDetection(i)
  <2>1. job' = [job EXCEPT ![i] = [j EXCEPT !.stage = "begun", !.state = "running"]]
    BY <1>6 DEF BeginDetection, j
  <2>2. j.stage = "taken" /\ j.action = "detect"
    BY <1>6 DEF BeginDetection, j
  <2>3. /\ UNCHANGED <<tail, probe, seen, gate, shut, agent>>
        /\ up' \in [Lab -> Up] /\ (journal' = journal \/ journal' = Memory')
    BY <1>6 DEF BeginDetection
  <2>4. Alters([j EXCEPT !.stage = "begun", !.state = "running"], j, "begun", "running", j.res)
    BY <2>2, JobType
  <2> QED
    BY <1>0, <2>1, <2>2, <2>3, <2>4 DEF Shape
<1>7. CASE PassPrecheck(i)
  <2>1. job' = [job EXCEPT ![i] = [j EXCEPT !.stage = "acting"]]
    BY <1>7 DEF PassPrecheck, j
  <2>2. j.stage = "begun"
    BY <1>7 DEF PassPrecheck, j
  <2>3. /\ UNCHANGED <<tail, probe, seen, gate, shut, agent>>
        /\ up' \in [Lab -> Up] /\ (journal' = journal \/ journal' = Memory')
    BY <1>7 DEF PassPrecheck, Persist
  <2>4. Alters([j EXCEPT !.stage = "acting"], j, "acting", j.state, j.res)
    BY <2>2, JobType
  <2> QED
    BY <1>0, <2>1, <2>2, <2>3, <2>4 DEF Shape
<1>8. CASE FailPrecheck(i)
  <2>1. PICK r \in Ended : job' = [job EXCEPT ![i] = [j EXCEPT !.stage = "acted", !.res = r]]
    BY <1>8 DEF FailPrecheck, j, Ended
  <2>2. j.stage = "begun"
    BY <1>8 DEF FailPrecheck, j
  <2>3. /\ UNCHANGED <<tail, probe, seen, gate, shut, agent>>
        /\ up' \in [Lab -> Up] /\ (journal' = journal \/ journal' = Memory')
    BY <1>8 DEF FailPrecheck
  <2>4. Alters([j EXCEPT !.stage = "acted", !.res = r], j, "acted", j.state, r)
    BY <2>2, JobType
  <2> QED
    BY <1>0, <2>1, <2>2, <2>3, <2>4 DEF Shape
<1>9. CASE OperateUp(i)
  <2>1. PICK r \in Ended : job' = [job EXCEPT ![i] = [j EXCEPT !.stage = "acted", !.res = r]]
    BY <1>9 DEF OperateUp, j, Ended
  <2>2. j.stage = "acting"
    BY <1>9 DEF OperateUp, j
  <2>3. /\ UNCHANGED <<tail, probe, seen, gate, shut, agent>>
        /\ up' \in [Lab -> Up] /\ (journal' = journal \/ journal' = Memory')
    BY <1>9 DEF OperateUp
  <2>4. Alters([j EXCEPT !.stage = "acted", !.res = r], j, "acted", j.state, r)
    BY <2>2, JobType
  <2> QED
    BY <1>0, <2>1, <2>2, <2>3, <2>4 DEF Shape
<1>10. CASE OperateStop(i)
  <2>1. PICK r \in Ended : job' = [job EXCEPT ![i] = [j EXCEPT !.stage = "acted", !.res = r]]
    BY <1>10 DEF OperateStop, j, Ended
  <2>2. j.stage = "acting"
    BY <1>10 DEF OperateStop, j
  <2>3. /\ UNCHANGED <<tail, probe, seen, gate, shut, agent>>
        /\ up' \in [Lab -> Up] /\ (journal' = journal \/ journal' = Memory')
    BY <1>10 DEF OperateStop, Up
  <2>4. Alters([j EXCEPT !.stage = "acted", !.res = r], j, "acted", j.state, r)
    BY <2>2, JobType
  <2> QED
    BY <1>0, <2>1, <2>2, <2>3, <2>4 DEF Shape
<1>11. CASE Probe(i)
  <2>1. PICK r \in Ended : job' = [job EXCEPT ![i] = [j EXCEPT !.stage = "acted", !.res = r]]
    BY <1>11 DEF Probe, j, Ended
  <2>2. j.stage = "acting"
    BY <1>11 DEF Probe, j
  <2>3. /\ UNCHANGED <<tail, probe, seen, gate, shut, agent>>
        /\ up' \in [Lab -> Up] /\ (journal' = journal \/ journal' = Memory')
    BY <1>11 DEF Probe, Persist
  <2>4. Alters([j EXCEPT !.stage = "acted", !.res = r], j, "acted", j.state, r)
    BY <2>2, JobType
  <2> QED
    BY <1>0, <2>1, <2>2, <2>3, <2>4 DEF Shape
<1>12. CASE Settle(i)
  <2>1. job' = [job EXCEPT ![i] = [j EXCEPT !.stage = "settled", !.state = j.res, !.res = "none"]]
    BY <1>12 DEF Settle, j
  <2>2. j.stage = "acted"
    BY <1>12 DEF Settle, j
  <2>3. /\ UNCHANGED <<tail, probe, seen, gate, shut, agent>>
        /\ up' \in [Lab -> Up] /\ (journal' = journal \/ journal' = Memory')
    BY <1>12 DEF Settle, Persist
  <2>4. Alters([j EXCEPT !.stage = "settled", !.state = j.res, !.res = "none"], j, "settled", j.res, "none")
    BY <2>2, JobType DEF Shape
  <2> QED
    BY <1>0, <2>1, <2>2, <2>3, <2>4 DEF Shape
<1> QED
  BY <1>1, <1>2, <1>3, <1>4, <1>5, <1>6, <1>7, <1>8, <1>9, <1>10, <1>11, <1>12 DEF Step

-----------------------------------------------------------------------------
(***************************************************************************)
(* The queue of the pool.                                                  *)
(***************************************************************************)
LEMMA QueuedKept ==
  ASSUME TypeOK, Queued, queue' = queue,
         \A n \in Id : job[n].stage = "queued" => job'[n].stage = "queued"
  PROVE  Queued'
BY DEF Queued

LEMMA QueuedMove ==
  ASSUME Basics, NEW i \in Id, Step(i), Moves(i) PROVE Queued' /\ queue' \in Seq(Id)
<1> queue \in Seq(Id) /\ TypeOK /\ Queued
  BY DEF Basics, TypeOK
<1>1. CASE Take(i)
  <2>1. queue # <<>> /\ i = Head(queue) /\ queue' = Tail(queue) /\ queue' \in Seq(Id)
    BY <1>1 DEF Take
  <2>2. /\ 1 \in DOMAIN queue /\ queue[1] = i
        /\ \A n \in DOMAIN queue' : n + 1 \in DOMAIN queue /\ n + 1 # 1 /\ queue'[n] = queue[n + 1]
    BY <2>1
  <2>3. \A n \in DOMAIN queue' : queue[n + 1] # i
    BY <2>2 DEF Queued
  <2>4. \A n \in DOMAIN queue' : queue'[n] \in Id /\ job'[queue'[n]].stage = "queued"
    BY <2>2, <2>3 DEF Queued, Moves
  <2>5. \A m, n \in DOMAIN queue' : m + 1 = n + 1 => m = n
    BY <2>1
  <2>6. \A m, n \in DOMAIN queue' : queue'[m] = queue'[n] => m = n
    BY <2>2, <2>5 DEF Queued
  <2> QED
    BY <2>1, <2>4, <2>6 DEF Queued
<1>2. CASE HandOver(i)
  <2>1. CASE shut
    <3>1. queue' = queue /\ job[i].stage = "logged"
      BY <1>2, <2>1 DEF HandOver
    <3> QED
      BY <3>1, QueuedKept DEF Moves
  <2>2. CASE ~shut
    <3>1. /\ queue' = Append(queue, i) /\ queue' \in Seq(Id) /\ job[i].stage = "logged"
          /\ job'[i].stage = "queued"
      BY <1>2, <2>2 DEF HandOver, TypeOK, Job
    <3>2. \A n \in DOMAIN queue : queue[n] # i
      BY <3>1 DEF Queued
    <3>3. \A n \in DOMAIN queue' : (n \in DOMAIN queue /\ queue'[n] = queue[n])
                                 \/ (n = Len(queue) + 1 /\ queue'[n] = i)
      BY <3>1
    <3>4. \A n \in DOMAIN queue' : queue'[n] \in Id /\ job'[queue'[n]].stage = "queued"
      BY <3>1, <3>2, <3>3 DEF Queued, Moves
    <3>5. \A m, n \in DOMAIN queue' : queue'[m] = queue'[n] => m = n
      BY <3>2, <3>3 DEF Queued
    <3> QED
      BY <3>1, <3>4, <3>5 DEF Queued
  <2> QED
    BY <2>1, <2>2
<1>3. CASE ~Take(i) /\ ~HandOver(i)
  <2>1. queue' = queue /\ job[i].stage # "queued"
    BY <1>3 DEF Step, Log, BeginCancelled, Begin, BeginDetection, PassPrecheck, FailPrecheck,
                OperateUp, OperateStop, Probe, Settle
  <2> QED
    BY <2>1, QueuedKept DEF Moves
<1> QED
  BY <1>1, <1>2, <1>3

-----------------------------------------------------------------------------
(***************************************************************************)
(* The steps that end a job, and those that make one.                      *)
(***************************************************************************)
Releases(i) == Report(i) \/ Done(i)

\* What has not settled has just been accepted, or is what it was.
Same(n) == /\ job'[n].stage = job[n].stage /\ job'[n].action = job[n].action
           /\ job'[n].res = job[n].res
Quietly == \A n \in Id : job'[n].stage \in Before \cup AtWork => job'[n].stage = "accepted" \/ Same(n)

LEMMA ReleaseStep ==
  ASSUME Basics, NEW i \in Id, Releases(i)
  PROVE  /\ job' \in [Id -> Job] /\ Queued' /\ queue' = queue
         /\ \A n \in Id : Shape(job'[n])
         /\ \A l \in Lab : Refs(l)'
         /\ \A n \in Id : job'[n].stage # "lost" \/ job[n].stage = "lost"
         /\ Quietly
         /\ \A n \in Id : n[2] \in {tail[n[1]], probe[n[1]]} =>
              job'[n].state = job[n].state /\ job'[n].action = job[n].action
         /\ \A n \in Id : job'[n].stage = job[n].stage \/ job'[n].stage \in {"ended", "free"}
<1> /\ TypeOK /\ Queued /\ job \in [Id -> Job] /\ \A n \in Id : job[n] \in Job /\ Shape(job[n])
    /\ \A l \in Lab : Refs(l) /\ tail[l] \in 0..Slots /\ probe[l] \in 0..Slots
  BY DEF Basics, TypeOK
<1>1. /\ job[i].stage \in After /\ Release(i) /\ UNCHANGED <<tail, probe, queue>>
  BY DEF Releases, Report, Done, After
<1>2. job[i].prev = 0
  BY <1>1, Stages DEF Shape
<1>3. /\ job'[i] = IF i[2] \in {tail[i[1]], probe[i[1]]}
                    THEN [job[i] EXCEPT !.stage = "ended", !.cancel = FALSE, !.prev = 0] ELSE Blank
      /\ \A n \in Id \ {i} : job'[n] = IF n[1] = i[1] /\ job[n].prev = i[2]
                                       THEN [job[n] EXCEPT !.prev = 0] ELSE job[n]
  BY <1>1 DEF Release, Kept
<1>4. job' \in [Id -> Job]
  <2>1. \A n \in Id : job'[n] \in Job
    BY <1>3, JobType, BlankType
  <2>2. \E f : job' = [n \in Id |-> f[n]]
    <3>1. job' = [n \in Id |-> job'[n]]
      BY <1>1 DEF Release
    <3> QED
      BY <3>1
  <2> QED
    BY <2>1, <2>2
<1>5. \A n \in Id \ {i} :
        /\ job'[n].stage = job[n].stage /\ job'[n].state = job[n].state
        /\ job'[n].action = job[n].action /\ job'[n].res = job[n].res
        /\ job'[n].prev = IF n[1] = i[1] /\ job[n].prev = i[2] THEN 0 ELSE job[n].prev
  BY <1>3 DEF Job
<1>6. IF i[2] \in {tail[i[1]], probe[i[1]]}
      THEN job'[i].stage = "ended" /\ job'[i].prev = 0 /\ job'[i].state = job[i].state
           /\ job'[i].action = job[i].action
      ELSE job'[i].stage = "free" /\ job'[i].prev = 0
  BY <1>3 DEF Job, Blank
<1>7. job'[i].stage \in {"ended", "free"} /\ job'[i].prev = 0
  BY <1>6
<1>8. \A n \in Id : Shape(job'[n])
  <2>1. Shape(job'[i])
    BY <1>1, <1>6, Stages DEF Shape, Before, AtWork, After, Submitting
  <2>2. \A n \in Id \ {i} : Shape(job'[n])
    BY <1>5 DEF Shape
  <2> QED
    BY <2>1, <2>2
<1>9. ASSUME NEW l \in Lab PROVE Refs(l)'
  <2> /\ i[1] \in Lab /\ i[2] \in 1..Slots /\ i = <<i[1], i[2]>>
      /\ \A k \in 1..Slots : <<l, k>> \in Id /\ (<<l, k>> = i <=> l = i[1] /\ k = i[2])
      /\ \A k \in 1..Slots : <<l, k>>[1] = l /\ <<l, k>>[2] = k /\ job[<<l, k>>].prev \in 0..Slots
    BY Pairs DEF Job
  <2>0. Refs(l) /\ tail[l] \in 0..Slots /\ probe[l] \in 0..Slots /\ Slots \in Nat
    OBVIOUS
  <2>1. tail[l] # 0 => job'[<<l, tail[l]>>].stage # "free" /\ job'[<<l, tail[l]>>].action # "detect"
    <3>1. tail[l] # 0 => tail[l] \in 1..Slots /\ job[<<l, tail[l]>>].stage # "free"
                         /\ job[<<l, tail[l]>>].action # "detect"
      BY ONLY <2>0 DEF Refs
    <3>2. tail[l] # 0 /\ <<l, tail[l]>> = i => i[2] = tail[i[1]]
      BY <3>1
    <3> QED
      BY <1>5, <1>6, <3>1, <3>2
  <2>2. probe[l] # 0 => job'[<<l, probe[l]>>].stage # "free" /\ job'[<<l, probe[l]>>].action = "detect"
    <3>1. probe[l] # 0 => probe[l] \in 1..Slots /\ job[<<l, probe[l]>>].stage # "free"
                          /\ job[<<l, probe[l]>>].action = "detect"
      BY ONLY <2>0 DEF Refs
    <3>2. probe[l] # 0 /\ <<l, probe[l]>> = i => i[2] = probe[i[1]]
      BY <3>1
    <3> QED
      BY <1>5, <1>6, <3>1, <3>2
  <2>3. ASSUME NEW k \in 1..Slots, job'[<<l, k>>].prev # 0
        PROVE  /\ k = tail[l]
               /\ job'[<<l, job'[<<l, k>>].prev>>].stage \in Live
               /\ job'[<<l, job'[<<l, k>>].prev>>].action = "up"
    <3>1. <<l, k>> # i /\ job'[<<l, k>>].prev = job[<<l, k>>].prev
          /\ (l = i[1] => job[<<l, k>>].prev # i[2])
      BY <1>5, <1>7, <2>3
    <3>2. job[<<l, k>>].prev \in 1..Slots /\ <<l, job[<<l, k>>].prev>> # i
      BY <2>3, <3>1
    <3>3. /\ k = tail[l] /\ job[<<l, job[<<l, k>>].prev>>].stage \in Live
          /\ job[<<l, job[<<l, k>>].prev>>].action = "up"
      BY <2>3, <3>1 DEF Refs
    <3> QED
      BY <1>5, <3>1, <3>2, <3>3
  <2>4. ASSUME NEW k \in 1..Slots, job'[<<l, k>>].stage \in Before \cup AtWork
        PROVE  IF job'[<<l, k>>].action = "detect" THEN k = probe[l]
               ELSE k = tail[l] \/ (tail[l] # 0 /\ job'[<<l, tail[l]>>].prev = k)
    <3>1. <<l, k>> # i
      BY <1>7, <2>4, Stages DEF Before, AtWork, Submitting
    <3>2. job[<<l, k>>].stage \in Before \cup AtWork /\ job'[<<l, k>>].action = job[<<l, k>>].action
      BY <1>5, <2>4, <3>1
    <3>3. tail[l] # 0 /\ job[<<l, tail[l]>>].prev = k => job'[<<l, tail[l]>>].prev = k
      BY <1>2, <1>5, <3>1
    <3>4. IF job[<<l, k>>].action = "detect" THEN k = probe[l]
          ELSE k = tail[l] \/ (tail[l] # 0 /\ job[<<l, tail[l]>>].prev = k)
      BY ONLY <2>0, <3>2, k \in 1..Slots DEF Refs
    <3> QED
      BY <3>2, <3>3, <3>4
  <2> QED
    BY <1>1, <2>1, <2>2, <2>3, <2>4 DEF Refs
<1>10. Queued' /\ \A n \in Id : job'[n].stage # "lost" \/ job[n].stage = "lost"
  <2>1. job[i].stage # "queued"
    BY <1>1 DEF After
  <2> QED
    BY <1>1, <1>5, <1>7, <2>1, QueuedKept
<1>11. Quietly
  <2>1. job'[i].stage \notin Before \cup AtWork
    BY <1>7 DEF Before, AtWork, Submitting
  <2> QED
    BY <1>5, <2>1 DEF Quietly, Same
<1>12. \A n \in Id : n[2] \in {tail[n[1]], probe[n[1]]} =>
         job'[n].state = job[n].state /\ job'[n].action = job[n].action
  BY <1>5, <1>6
<1>13. \A n \in Id : job'[n].stage = job[n].stage \/ job'[n].stage \in {"ended", "free"}
  BY <1>5, <1>7
<1> QED
  BY <1>1, <1>4, <1>8, <1>9, <1>10, <1>11, <1>12, <1>13

\* A table whose job is shown as over holds one that has settled or ended, or none.
LEMMA Shown1 ==
  ASSUME Basics, NEW l \in Lab
  PROVE  /\ tail[l] # 0 /\ LifeState(l) \in {"queued", "running"} =>
              job[<<l, tail[l]>>].stage \in Before \cup AtWork
         /\ tail[l] # 0 /\ LifeState(l) \notin {"queued", "running"} =>
              job[<<l, tail[l]>>].stage \in After \cup {"ended"}
         /\ probe[l] # 0 /\ DetState(l) \in Active =>
              job[<<l, probe[l]>>].stage \in Before \cup AtWork
         /\ probe[l] # 0 /\ DetState(l) \notin Active =>
              job[<<l, probe[l]>>].stage \in After \cup {"ended"}
<1>1. Refs(l) /\ tail[l] \in 0..Slots /\ probe[l] \in 0..Slots /\ Slots \in Nat
  BY DEF Basics, TypeOK
<1>2. ASSUME NEW k \in 1..Slots, job[<<l, k>>].stage # "free"
      PROVE  LET j == job[<<l, k>>] IN
             /\ j.stage \in Before \cup AtWork \cup After \cup {"ended"}
             /\ j.stage \in Before \cup AtWork => j.state \in Active
             /\ j.stage \in Before \cup AtWork /\ j.action # "detect" => j.state \in {"queued", "running"}
             /\ j.stage \in After \cup {"ended"} => j.state \notin Active
  <2>1. <<l, k>> \in Id
    BY Pairs
  <2>2. job[<<l, k>>].stage \in Stage /\ Shape(job[<<l, k>>])
    BY <2>1 DEF Basics, TypeOK, Job
  <2> QED
    BY <1>2, <2>2 DEF Shape, Stage, Before, AtWork, After, Submitting, Working, Active, Ended
<1>3. tail[l] # 0 => tail[l] \in 1..Slots /\ job[<<l, tail[l]>>].stage # "free"
                     /\ job[<<l, tail[l]>>].action # "detect"
  BY ONLY <1>1 DEF Refs
<1>4. probe[l] # 0 => probe[l] \in 1..Slots /\ job[<<l, probe[l]>>].stage # "free"
  BY ONLY <1>1 DEF Refs
<1> QED
  BY <1>2, <1>3, <1>4 DEF LifeState, DetState, Active

\* Nothing of a lab waits but the operation in its table.
LEMMA NobodyWaits ==
  ASSUME Basics, NEW l \in Lab, NEW k \in 1..Slots,
         \/ k # tail[l] \/ job[<<l, k>>].action # "stop"
         \/ LifeState(l) \notin {"queued", "running"}
  PROVE  job[<<l, k>>].prev = 0
<1>1. <<l, k>> \in Id /\ Refs(l) /\ Shape(job[<<l, k>>])
  BY Pairs DEF Basics
<1>2. job[<<l, k>>].prev # 0 => k = tail[l]
  BY ONLY <1>1, k \in 1..Slots DEF Refs
<1>3. job[<<l, k>>].prev # 0 => job[<<l, k>>].action = "stop" /\ job[<<l, k>>].stage \in Before
  BY <1>1 DEF Shape
<1>4. Before \cap (After \cup {"ended"}) = {}
  BY DEF Before, After, Submitting
<1>5. tail[l] # 0 /\ LifeState(l) \notin {"queued", "running"} =>
        job[<<l, tail[l]>>].stage \in After \cup {"ended"}
  BY Shown1
<1>6. k # 0
  OBVIOUS
<1> QED
  BY ONLY <1>2, <1>3, <1>4, <1>5, <1>6, \/ k # tail[l] \/ job[<<l, k>>].action # "stop"
                                       \/ LifeState(l) \notin {"queued", "running"}

FreeIsFree(l) == Free(l) # {} => FreeSlot(l) \in 1..Slots /\ job[<<l, FreeSlot(l)>>].stage = "free"

LEMMA FreeSlots == ASSUME NEW l \in Lab PROVE FreeIsFree(l)
BY DEF FreeIsFree, Free, FreeSlot

\* Where everything else of a lab stays as it is, so does what its jobs and tables say.
LEMMA RefsElsewhere ==
  ASSUME NEW l \in Lab, Refs(l), tail'[l] = tail[l], probe'[l] = probe[l], TypeOK,
         \A k \in 1..Slots : job'[<<l, k>>] = job[<<l, k>>]
  PROVE  Refs(l)'
<1> tail[l] \in 0..Slots /\ probe[l] \in 0..Slots /\ Slots \in Nat
    /\ \A k \in 1..Slots : job[<<l, k>>].prev \in 0..Slots
  BY Pairs DEF TypeOK, Job
<1> QED
  BY DEF Refs

LEMMA SubmitStep ==
  ASSUME Basics, NEW l \in Lab, NEW a \in {"up", "stop"}, Submit(l, a)
  PROVE  /\ job' \in [Id -> Job] /\ tail' \in [Lab -> 0..Slots] /\ Queued' /\ queue' = queue
         /\ \A n \in Id : Shape(job'[n])
         /\ \A m \in Lab : Refs(m)'
         /\ \A n \in Id : job'[n].stage # "lost" \/ job[n].stage = "lost"
         /\ Quietly
         /\ tail'[l] # 0 /\ job'[<<l, tail'[l]>>].state = "queued"
         /\ probe[l] # 0 => job'[<<l, probe[l]>>] = job[<<l, probe[l]>>]
         /\ \A m \in Lab \ {l} : /\ tail'[m] = tail[m]
                               /\ \A i \in 1..Slots : job'[<<m, i>>] = job[<<m, i>>]
<1> DEFINE k == tail[l]
           f == FreeSlot(l)
           waits == LifeState(l) \in {"queued", "running"}
<1> /\ TypeOK /\ Queued /\ job \in [Id -> Job] /\ \A n \in Id : job[n] \in Job /\ Shape(job[n])
    /\ k \in 0..Slots /\ probe[l] \in 0..Slots /\ Slots \in Nat /\ Refs(l)
    /\ tail \in [Lab -> 0..Slots]
  BY DEF Basics, TypeOK
<1>1. /\ f \in 1..Slots /\ job[<<l, f>>].stage = "free" /\ <<l, f>> \in Id
      /\ waits => a = "stop" /\ job[<<l, k>>].action # "stop"
      /\ tail' = [tail EXCEPT ![l] = f] /\ UNCHANGED <<probe, queue>>
      /\ DetState(l) \notin Active
  BY FreeSlots, Pairs DEF Submit, MayReplace, FreeIsFree
<1>2. job' = [i \in Id |->
               IF i = <<l, f>> THEN New(a, IF waits THEN k ELSE 0)
               ELSE IF i = <<l, k>> /\ waits THEN [job[i] EXCEPT !.cancel = TRUE]
               ELSE IF i = <<l, k>> THEN Forgotten(job[i])
               ELSE job[i]]
  BY DEF Submit
<1>3. k # 0 => k \in 1..Slots /\ <<l, k>> \in Id /\ k # f
               /\ job[<<l, k>>].stage # "free" /\ job[<<l, k>>].action # "detect"
  <2>1. k # 0 => k \in 1..Slots /\ job[<<l, k>>].stage # "free" /\ job[<<l, k>>].action # "detect"
    BY ONLY Refs(l), k \in 0..Slots, Slots \in Nat DEF Refs
  <2> QED
    BY <1>1, <2>1, Pairs
<1>4. waits => k # 0 /\ job[<<l, k>>].stage \in Before \cup AtWork /\ job[<<l, k>>].action = "up"
  <2>1. waits => k # 0
    BY DEF LifeState
  <2>2. waits => job[<<l, k>>].action \in Action /\ job[<<l, k>>].action # "detect"
    BY <1>3, <2>1 DEF Job
  <2> QED
    BY <1>1, <2>1, <2>2, Shown1 DEF Action
<1>5. k # 0 /\ ~waits => job[<<l, k>>].stage \in After \cup {"ended"}
  BY Shown1
<1>6. probe[l] # 0 => probe[l] \in 1..Slots /\ probe[l] # k /\ probe[l] # f
                      /\ job[<<l, probe[l]>>].stage # "free" /\ job[<<l, probe[l]>>].action = "detect"
  <2>1. probe[l] # 0 => probe[l] \in 1..Slots /\ job[<<l, probe[l]>>].stage # "free"
                        /\ job[<<l, probe[l]>>].action = "detect"
    BY ONLY Refs(l), probe[l] \in 0..Slots, Slots \in Nat DEF Refs
  <2> QED
    BY <1>1, <1>3, <2>1
<1> DEFINE new == job'[<<l, f>>]
           old == job'[<<l, k>>]
<1>7. /\ new \in Job /\ new.action = a /\ new.stage = "accepted" /\ new.state = "queued"
      /\ new.prev = IF waits THEN k ELSE 0
  <2>1. new = New(a, IF waits THEN k ELSE 0) /\ 0 \in 0..Slots /\ a \in Action
    BY <1>1, <1>2 DEF Action
  <2> QED
    <3>1. (IF waits THEN k ELSE 0) \in 0..Slots
      BY <2>1
    <3>2. new \in Job
      BY <2>1, <3>1, BlankType
    <3> QED
      BY <2>1, <3>2 DEF New, Blank
<1>8. waits => /\ old \in Job /\ old.action = "up" /\ old.stage = job[<<l, k>>].stage
               /\ old.state = job[<<l, k>>].state /\ old.res = job[<<l, k>>].res
               /\ old.prev = job[<<l, k>>].prev
  <2>1. waits => old = [job[<<l, k>>] EXCEPT !.cancel = TRUE]
    BY <1>2, <1>3, <1>4
  <2> QED
    <3>1. ASSUME waits
          PROVE  job[<<l, k>>] \in Job /\ old = [job[<<l, k>>] EXCEPT !.cancel = TRUE]
      BY <1>3, <1>4, <2>1, <3>1
    <3>2. ASSUME waits
          PROVE  Alters(old, job[<<l, k>>], job[<<l, k>>].stage, job[<<l, k>>].state, job[<<l, k>>].res)
      BY <3>1, <3>2, JobType
    <3> QED
      BY <1>4, <3>2 DEF Alters
<1>9. k # 0 /\ ~waits => \/ old = job[<<l, k>>] /\ old.stage \in After
                         \/ old = Blank
  BY <1>2, <1>3, <1>5 DEF Forgotten
<1>10. \A n \in Id : n # <<l, f>> /\ (n # <<l, k>> \/ k = 0) => job'[n] = job[n]
  BY <1>2, Pairs
<1>11. job' \in [Id -> Job]
  <2>1. \A n \in Id : job'[n] \in Job
    BY <1>3, <1>7, <1>8, <1>9, <1>10, BlankType
  <2> QED
    BY <1>2, <2>1
<1>12. \A n \in Id : Shape(job'[n])
  <2>1. Shape(new)
    BY <1>1, <1>4, <1>7, Stages DEF Shape, Before, Submitting
  <2>2. k # 0 => Shape(old)
    <3>1. CASE waits
      BY <1>3, <1>4, <1>8, <3>1 DEF Shape
    <3>2. CASE ~waits
      BY <1>3, <1>9, <3>2 DEF Shape, Blank, Before, AtWork, After, Submitting
    <3> QED
      BY <3>1, <3>2
  <2> QED
    BY <1>10, <2>1, <2>2
<1>13. \A n \in Id : job'[n].stage # "lost" \/ job[n].stage = "lost"
  BY <1>7, <1>8, <1>9, <1>10 DEF Blank
<1>14. Queued'
  <2>1. ASSUME NEW n \in Id, job[n].stage = "queued" PROVE job'[n].stage = "queued"
    <3>1. n # <<l, f>>
      BY <1>1, <2>1
    <3>2. k # 0 /\ n = <<l, k>> => waits
      BY <1>5, <2>1 DEF After
    <3> QED
      BY <1>8, <1>10, <2>1, <3>1, <3>2
  <2> QED
    BY <1>1, <2>1, QueuedKept
<1>15. ASSUME NEW m \in Lab PROVE Refs(m)'
  <2>1. CASE m # l
    <3>1. tail'[m] = tail[m] /\ probe'[m] = probe[m] /\ Refs(m)
      BY <1>1, <2>1 DEF Basics
    <3>2. \A i \in 1..Slots : job'[<<m, i>>] = job[<<m, i>>]
      BY <1>10, <2>1, Pairs
    <3> QED
      BY <3>1, <3>2, RefsElsewhere
  <2>2. CASE m = l
    <3>1. tail'[l] = f /\ probe'[l] = probe[l] /\ f # 0
      BY <1>1
    <3>2. probe[l] # 0 => job'[<<l, probe[l]>>] = job[<<l, probe[l]>>]
      BY <1>6, <1>10, Pairs
    <3>3. ASSUME NEW i \in 1..Slots PROVE job[<<l, i>>].prev = 0
      <4>1. job[<<l, i>>].prev # 0 => i = k /\ k # 0 /\ waits /\ job[<<l, k>>].action = "stop"
        BY NobodyWaits
      <4> QED
        BY <1>1, <4>1
    <3>4. ASSUME NEW i \in 1..Slots, job'[<<l, i>>].prev # 0
          PROVE  i = f /\ waits /\ job'[<<l, i>>].prev = k
      <4>1. CASE i = f
        BY <1>7, <3>4, <4>1
      <4>2. CASE i # f /\ i = k
        BY <1>8, <1>9, <3>3, <3>4, <4>2 DEF Blank
      <4>3. CASE i # f /\ i # k
        BY <1>10, <3>3, <3>4, <4>3, Pairs
      <4> QED
        BY <4>1, <4>2, <4>3
    <3>5. ASSUME NEW i \in 1..Slots, job'[<<l, i>>].stage \in Before \cup AtWork
          PROVE  IF job'[<<l, i>>].action = "detect" THEN i = probe[l]
                 ELSE i = f \/ new.prev = i
      <4>1. CASE i = f
        BY <1>7, <4>1
      <4>2. CASE i # f /\ i = k
        BY <1>7, <1>8, <1>9, <3>5, <4>2, Stages DEF Blank, Before, AtWork, After, Submitting
      <4>3. CASE i # f /\ i # k
        <5>1. job'[<<l, i>>] = job[<<l, i>>]
          BY <1>10, <4>3, Pairs
        <5>2. job[<<l, i>>].action = "detect" => i = probe[l]
          BY ONLY <3>5, <5>1, Refs(l), i \in 1..Slots DEF Refs
        <5>3. job[<<l, i>>].action # "detect" => k # 0 /\ job[<<l, k>>].prev = i
          BY ONLY <3>5, <4>3, <5>1, Refs(l), i \in 1..Slots DEF Refs
        <5> QED
          BY <1>3, <3>3, <5>1, <5>2, <5>3
      <4> QED
        BY <4>1, <4>2, <4>3
    <3>6. waits => old.stage \in Live /\ old.action = "up"
      BY <1>4, <1>8 DEF Live
    <3> QED
      BY <1>6, <1>7, <2>2, <3>1, <3>2, <3>4, <3>5, <3>6 DEF Refs
  <2> QED
    BY <2>1, <2>2
<1>16. Quietly
  <2>1. ASSUME NEW n \in Id, job'[n].stage \in Before \cup AtWork, n # <<l, f>> PROVE Same(n)
    <3>1. CASE k # 0 /\ n = <<l, k>> /\ waits
      BY <1>3, <1>4, <1>8, <3>1 DEF Same
    <3>2. CASE k # 0 /\ n = <<l, k>> /\ ~waits
      BY <1>9, <2>1, <3>2, Stages DEF Blank, Before, AtWork, After, Submitting
    <3>3. CASE k = 0 \/ n # <<l, k>>
      BY <1>10, <2>1, <3>3 DEF Same
    <3> QED
      BY <3>1, <3>2, <3>3
  <2> QED
    BY <1>7, <2>1 DEF Quietly
<1>17. probe[l] # 0 => job'[<<l, probe[l]>>] = job[<<l, probe[l]>>]
  BY <1>6, <1>10, Pairs
<1>18. ASSUME NEW m \in Lab \ {l}
       PROVE  tail'[m] = tail[m] /\ \A i \in 1..Slots : job'[<<m, i>>] = job[<<m, i>>]
  BY <1>1, <1>10, Pairs
<1>19. tail'[l] # 0 /\ job'[<<l, tail'[l]>>].state = "queued"
  BY <1>1, <1>7
<1> QED
  BY <1>1, <1>11, <1>12, <1>13, <1>14, <1>15, <1>16, <1>17, <1>18, <1>19

LEMMA SubmitDetectionStep ==
  ASSUME Basics, NEW l \in Lab, SubmitDetection(l)
  PROVE  /\ job' \in [Id -> Job] /\ probe' \in [Lab -> 0..Slots] /\ Queued' /\ queue' = queue
         /\ \A n \in Id : Shape(job'[n])
         /\ \A m \in Lab : Refs(m)'
         /\ \A n \in Id : job'[n].stage # "lost" \/ job[n].stage = "lost"
         /\ Quietly
         /\ tail[l] # 0 => job'[<<l, tail[l]>>] = job[<<l, tail[l]>>]
         /\ \A m \in Lab \ {l} : /\ probe'[m] = probe[m]
                               /\ \A i \in 1..Slots : job'[<<m, i>>] = job[<<m, i>>]
<1> DEFINE k == probe[l]
           f == FreeSlot(l)
<1> /\ TypeOK /\ Queued /\ job \in [Id -> Job] /\ \A n \in Id : job[n] \in Job /\ Shape(job[n])
    /\ k \in 0..Slots /\ tail[l] \in 0..Slots /\ Slots \in Nat /\ Refs(l)
    /\ probe \in [Lab -> 0..Slots]
  BY DEF Basics, TypeOK
<1>1. /\ f \in 1..Slots /\ job[<<l, f>>].stage = "free" /\ <<l, f>> \in Id
      /\ probe' = [probe EXCEPT ![l] = f] /\ UNCHANGED <<tail, queue>>
      /\ DetState(l) \notin Active
  BY FreeSlots, Pairs DEF SubmitDetection, MayDetect, FreeIsFree
<1>2. job' = [i \in Id |-> IF i = <<l, f>> THEN New("detect", 0)
                          ELSE IF i = <<l, k>> THEN Forgotten(job[i]) ELSE job[i]]
  BY DEF SubmitDetection
<1>3. k # 0 => k \in 1..Slots /\ <<l, k>> \in Id /\ k # f
               /\ job[<<l, k>>].stage # "free" /\ job[<<l, k>>].action = "detect"
  <2>1. k # 0 => k \in 1..Slots /\ job[<<l, k>>].stage # "free" /\ job[<<l, k>>].action = "detect"
    BY ONLY Refs(l), k \in 0..Slots, Slots \in Nat DEF Refs
  <2> QED
    BY <1>1, <2>1, Pairs
<1>5. k # 0 => job[<<l, k>>].stage \in After \cup {"ended"}
  BY <1>1, Shown1
<1>6. tail[l] # 0 => tail[l] \in 1..Slots /\ tail[l] # k /\ tail[l] # f
                     /\ job[<<l, tail[l]>>].stage # "free" /\ job[<<l, tail[l]>>].action # "detect"
  <2>1. tail[l] # 0 => tail[l] \in 1..Slots /\ job[<<l, tail[l]>>].stage # "free"
                       /\ job[<<l, tail[l]>>].action # "detect"
    BY ONLY Refs(l), tail[l] \in 0..Slots, Slots \in Nat DEF Refs
  <2> QED
    BY <1>1, <1>3, <2>1
<1> DEFINE new == job'[<<l, f>>]
           old == job'[<<l, k>>]
<1>7. /\ new \in Job /\ new.action = "detect" /\ new.stage = "accepted" /\ new.state = "queued"
      /\ new.prev = 0
  <2>1. new = New("detect", 0) /\ 0 \in 0..Slots /\ "detect" \in Action
    BY <1>1, <1>2 DEF Action
  <2>2. new \in Job
    BY <2>1, BlankType
  <2> QED
    BY <2>1, <2>2 DEF New, Blank
<1>9. k # 0 => \/ old = job[<<l, k>>] /\ old.stage \in After
              \/ old = Blank
  BY <1>2, <1>3, <1>5 DEF Forgotten
<1>10. \A n \in Id : n # <<l, f>> /\ (n # <<l, k>> \/ k = 0) => job'[n] = job[n]
  BY <1>2, Pairs
<1>11. job' \in [Id -> Job]
  <2>1. \A n \in Id : job'[n] \in Job
    BY <1>3, <1>7, <1>9, <1>10, BlankType
  <2> QED
    BY <1>2, <2>1
<1>12. \A n \in Id : Shape(job'[n])
  <2>1. Shape(new)
    BY <1>1, <1>7, Stages DEF Shape, Before, Submitting
  <2>2. k # 0 => Shape(old)
    BY <1>3, <1>9 DEF Shape, Blank, Before, AtWork, After, Submitting
  <2> QED
    BY <1>10, <2>1, <2>2
<1>13. \A n \in Id : job'[n].stage # "lost" \/ job[n].stage = "lost"
  BY <1>7, <1>9, <1>10 DEF Blank
<1>14. Queued'
  <2>1. ASSUME NEW n \in Id, job[n].stage = "queued" PROVE job'[n].stage = "queued"
    BY <1>1, <1>5, <1>10, <2>1 DEF After
  <2> QED
    BY <1>1, <2>1, QueuedKept
<1>15. ASSUME NEW m \in Lab PROVE Refs(m)'
  <2>1. CASE m # l
    <3>1. tail'[m] = tail[m] /\ probe'[m] = probe[m] /\ Refs(m)
      BY <1>1, <2>1 DEF Basics
    <3>2. \A i \in 1..Slots : job'[<<m, i>>] = job[<<m, i>>]
      BY <1>10, <2>1, Pairs
    <3> QED
      BY <3>1, <3>2, RefsElsewhere
  <2>2. CASE m = l
    <3>1. probe'[l] = f /\ tail'[l] = tail[l] /\ f # 0
      BY <1>1
    <3>2. tail[l] # 0 => job'[<<l, tail[l]>>] = job[<<l, tail[l]>>]
      BY <1>6, <1>10, Pairs
    <3>4. ASSUME NEW i \in 1..Slots, job'[<<l, i>>].prev # 0
          PROVE  /\ i = tail[l] /\ job'[<<l, job'[<<l, i>>].prev>>].stage \in Live
                 /\ job'[<<l, job'[<<l, i>>].prev>>].action = "up"
      <4>1. job'[<<l, i>>] = job[<<l, i>>]
        <5>1. CASE i = f
          BY <1>7, <3>4, <5>1
        <5>2. CASE i # f /\ i = k
          BY <1>9, <3>4, <5>2 DEF Blank
        <5>3. CASE i # f /\ i # k
          BY <1>10, <5>3, Pairs
        <5> QED
          BY <5>1, <5>2, <5>3
      <4> DEFINE n == job[<<l, i>>].prev
      <4>2. n \in 1..Slots
        BY <3>4, <4>1, Pairs DEF Job
      <4>3. i = tail[l] /\ job[<<l, n>>].stage \in Live /\ job[<<l, n>>].action = "up"
        BY ONLY <3>4, <4>1, Refs(l), i \in 1..Slots DEF Refs
      <4>4. n # f /\ n # k
        BY <1>1, <1>3, <4>2, <4>3, Stages
      <4>5. job'[<<l, n>>] = job[<<l, n>>]
        BY <1>10, <4>2, <4>4, Pairs
      <4> QED
        BY <4>1, <4>3, <4>5
    <3>5. ASSUME NEW i \in 1..Slots, job'[<<l, i>>].stage \in Before \cup AtWork
          PROVE  IF job'[<<l, i>>].action = "detect" THEN i = f
                 ELSE i = tail[l] \/ (tail[l] # 0 /\ job'[<<l, tail[l]>>].prev = i)
      <4>1. CASE i = f
        BY <1>7, <4>1
      <4>2. CASE i # f /\ i = k
        BY <1>9, <3>5, <4>2, Stages DEF Blank, Before, AtWork, After, Submitting
      <4>3. CASE i # f /\ i # k
        <5>1. job'[<<l, i>>] = job[<<l, i>>]
          BY <1>10, <4>3, Pairs
        <5>2. job[<<l, i>>].action = "detect" => i = k
          BY ONLY <3>5, <5>1, Refs(l), i \in 1..Slots DEF Refs
        <5>3. job[<<l, i>>].action # "detect" => i = tail[l] \/ (tail[l] # 0 /\ job[<<l, tail[l]>>].prev = i)
          BY ONLY <3>5, <5>1, Refs(l), i \in 1..Slots DEF Refs
        <5> QED
          BY <3>2, <4>3, <5>1, <5>2, <5>3
      <4> QED
        BY <4>1, <4>2, <4>3
    <3> QED
      BY <1>6, <1>7, <2>2, <3>1, <3>2, <3>4, <3>5 DEF Refs
  <2> QED
    BY <2>1, <2>2
<1>16. Quietly
  <2>1. ASSUME NEW n \in Id, job'[n].stage \in Before \cup AtWork, n # <<l, f>> PROVE Same(n)
    <3>1. CASE k # 0 /\ n = <<l, k>>
      BY <1>9, <2>1, <3>1, Stages DEF Blank, Before, AtWork, After, Submitting
    <3>2. CASE k = 0 \/ n # <<l, k>>
      BY <1>10, <2>1, <3>2 DEF Same
    <3> QED
      BY <3>1, <3>2
  <2> QED
    BY <1>7, <2>1 DEF Quietly
<1>17. tail[l] # 0 => job'[<<l, tail[l]>>] = job[<<l, tail[l]>>]
  BY <1>6, <1>10, Pairs
<1>18. ASSUME NEW m \in Lab \ {l}
       PROVE  probe'[m] = probe[m] /\ \A i \in 1..Slots : job'[<<m, i>>] = job[<<m, i>>]
  BY <1>1, <1>10, Pairs
<1> QED
  BY <1>1, <1>11, <1>12, <1>13, <1>14, <1>15, <1>16, <1>17, <1>18

\* A cancellation is a move: what is cancelled has not settled.
LEMMA CancelStep ==
  ASSUME Basics, NEW l \in Lab, CancelDetection(l)
  PROVE  LET i == <<l, probe[l]>> IN
         /\ i \in Id /\ Moves(i) /\ job' \in [Id -> Job] /\ Shape(job'[i])
         /\ job[i].stage \in Before \cup AtWork
         /\ Alters(job'[i], job[i], job[i].stage, "cancelling", job[i].res)
<1> DEFINE i == <<l, probe[l]>>
<1> /\ TypeOK /\ job \in [Id -> Job] /\ Refs(l) /\ probe[l] \in 0..Slots /\ Slots \in Nat
  BY DEF Basics, TypeOK
<1>1. probe[l] # 0 /\ DetState(l) \in Active
  BY DEF CancelDetection, DetState, Active
<1>2. i \in Id /\ job[i].action = "detect" /\ job[i].stage \in Before \cup AtWork
  <2>1. probe[l] \in 1..Slots /\ job[i].action = "detect"
    BY ONLY <1>1, Refs(l), probe[l] \in 0..Slots, Slots \in Nat DEF Refs
  <2> QED
    BY <1>1, <2>1, Pairs, Shown1
<1>3. job[i] \in Job /\ Shape(job[i])
  BY <1>2 DEF Basics
<1> DEFINE v == [job[i] EXCEPT !.cancel = TRUE, !.state = "cancelling"]
<1>4. /\ job' = [job EXCEPT ![i] = v] /\ UNCHANGED <<tail, probe, seen, gate, shut, agent>>
  BY <1>2 DEF CancelDetection
<1>5. Alters(v, job[i], job[i].stage, "cancelling", job[i].res)
  BY <1>3, JobType
<1> HIDE DEF v, i
<1>6. Moves(i) /\ job' \in [Id -> Job] /\ Alters(job'[i], job[i], job[i].stage, "cancelling", job[i].res)
  BY <1>2, <1>4, <1>5, MoveBy DEF Live
<1>7. Shape(job'[i])
  <2>1. job[i].stage \notin After \cup {"ended"}
    BY <1>2, Stages DEF Live
  <2> QED
    BY <1>2, <1>3, <1>6, <2>1 DEF Alters, Shape
<1> QED
  BY <1>2, <1>6, <1>7 DEF i

\* Closing sets the flags of jobs that go on as they are.
LEMMA CloseStep ==
  ASSUME Basics, Close
  PROVE  /\ job' \in [Id -> Job] /\ Queued' /\ queue' = queue
         /\ \A n \in Id : Shape(job'[n])
         /\ \A l \in Lab : Refs(l)'
         /\ \A n \in Id : Alters(job'[n], job[n], job[n].stage, job[n].state, job[n].res)
<1> /\ TypeOK /\ Queued /\ job \in [Id -> Job] /\ \A n \in Id : job[n] \in Job /\ Shape(job[n])
    /\ \A l \in Lab : Refs(l)
  BY DEF Basics, TypeOK
<1>1. UNCHANGED <<tail, probe, queue>>
  BY DEF Close
<1>2. \A n \in Id : job'[n] = job[n] \/ job'[n] = [job[n] EXCEPT !.cancel = TRUE]
  BY DEF Close
<1>3. \A n \in Id : Alters(job'[n], job[n], job[n].stage, job[n].state, job[n].res)
  <2>1. \A n \in Id : Alters(job[n], job[n], job[n].stage, job[n].state, job[n].res)
    BY DEF Alters
  <2> QED
    BY <1>2, <2>1, JobType
<1>4. job' \in [Id -> Job]
  BY <1>3 DEF Close, Alters
<1>5. \A n \in Id : Shape(job'[n])
  BY <1>3 DEF Alters, Shape
<1>6. Queued'
  BY <1>1, <1>3, QueuedKept DEF Alters
<1>7. ASSUME NEW l \in Lab PROVE Refs(l)'
  <2>1. \A k \in 1..Slots : /\ job'[<<l, k>>].stage = job[<<l, k>>].stage
                            /\ job'[<<l, k>>].action = job[<<l, k>>].action
                            /\ job'[<<l, k>>].prev = job[<<l, k>>].prev
                            /\ job[<<l, k>>].prev \in 0..Slots
    BY <1>3, Pairs DEF Alters, Job
  <2>2. Refs(l) /\ tail' = tail /\ probe' = probe /\ tail[l] \in 0..Slots /\ probe[l] \in 0..Slots
        /\ Slots \in Nat
    BY <1>1 DEF TypeOK
  <2> QED
    BY ONLY <2>1, <2>2 DEF Refs
<1> QED
  BY <1>1, <1>3, <1>4, <1>5, <1>6, <1>7

LEMMA RestartStep ==
  ASSUME Basics, Restart
  PROVE  /\ job' \in [Id -> Job] /\ tail' \in [Lab -> 0..Slots] /\ probe' \in [Lab -> 0..Slots]
         /\ up' \in [Lab -> Up] /\ Queued' /\ queue' \in Seq(Id)
         /\ \A n \in Id : Shape(job'[n]) /\ job'[n].stage \in {"free", "ended"}
         /\ \A l \in Lab : Refs(l)'
<1>1. \A l \in Lab : /\ journal[l].life \in Entry \cup {Absent} /\ journal[l].det \in Entry \cup {Absent}
                     /\ journal[l].life.action # "detect"
                     /\ journal[l].det # Absent => journal[l].det.action = "detect"
  BY DEF Basics, TypeOK, Logged
<1>2. /\ tail' = [l \in Lab |-> IF journal[l].life # Absent THEN 1 ELSE 0]
      /\ probe' = [l \in Lab |-> IF journal[l].det # Absent THEN 2 ELSE 0]
      /\ 1 \in 1..Slots /\ 2 \in 1..Slots /\ queue' = <<>>
  BY DEF Restart
<1>3. job' = [i \in Id |->
               IF i[2] = 1 /\ journal[i[1]].life # Absent THEN Restored(journal[i[1]].life)
               ELSE IF i[2] = 2 /\ journal[i[1]].det # Absent THEN Restored(journal[i[1]].det)
               ELSE Blank]
  BY DEF Restart
<1>4. ASSUME NEW e \in Entry
      PROVE  /\ Restored(e) \in Job /\ Restored(e).stage = "ended" /\ Restored(e).action = e.action
             /\ Restored(e).prev = 0 /\ Restored(e).state \in Ended
  <2>1. /\ e.action \in Action /\ e.state \in Ended \cup {"active"}
        /\ "failed" \in Ended /\ "ended" \in Stage /\ Ended \subseteq State /\ 0 \in 0..Slots
    BY DEF Entry, Action, Ended, Stage, State
  <2> QED
    BY <2>1 DEF Restored, Blank, Job
<1>5. /\ Blank \in Job /\ Blank.stage = "free" /\ Blank.prev = 0 /\ Blank.state \in Ended
  BY BlankType DEF Blank, Ended
<1>6. \A n \in Id : /\ job'[n] \in Job /\ job'[n].prev = 0 /\ job'[n].state \in Ended
                    /\ job'[n].stage \in {"free", "ended"}
  BY <1>1, <1>3, <1>4, <1>5, Pairs
<1>7. job' \in [Id -> Job]
  BY <1>3, <1>6
<1>8. \A n \in Id : Shape(job'[n])
  BY <1>6, Stages DEF Shape, Before, AtWork, After, Submitting
<1>9. ASSUME NEW l \in Lab PROVE Refs(l)'
  <2>1. tail'[l] # 0 => job'[<<l, tail'[l]>>].stage # "free" /\ job'[<<l, tail'[l]>>].action # "detect"
    BY <1>1, <1>2, <1>3, <1>4, Pairs
  <2>2. probe'[l] # 0 => job'[<<l, probe'[l]>>].stage # "free" /\ job'[<<l, probe'[l]>>].action = "detect"
    BY <1>1, <1>2, <1>3, <1>4, Pairs
  <2>3. \A k \in 1..Slots : /\ job'[<<l, k>>].prev = 0
                            /\ job'[<<l, k>>].stage \notin Before \cup AtWork
    BY <1>6, Pairs DEF Before, AtWork, Submitting
  <2> QED
    BY <2>1, <2>2, <2>3 DEF Refs
<1>10. tail' \in [Lab -> 0..Slots] /\ probe' \in [Lab -> 0..Slots]
  BY <1>2
<1>11. Queued' /\ queue' \in Seq(Id)
  BY <1>2 DEF Queued
<1>12. up' \in [Lab -> Up]
  BY DEF Restart, Basics, TypeOK
<1> QED
  BY <1>6, <1>7, <1>8, <1>9, <1>10, <1>11, <1>12

-----------------------------------------------------------------------------
(***************************************************************************)
(* All of it is kept by every step.                                        *)
(***************************************************************************)

\* What is saved is what the tables show.
LEMMA Saved ==
  ASSUME journal' = Memory', job' \in [Id -> Job], tail' \in [Lab -> 0..Slots],
         probe' \in [Lab -> 0..Slots], \A l \in Lab : Refs(l)'
  PROVE  /\ journal' \in [Lab -> [life : Entry \cup {Absent}, det : Entry \cup {Absent}]]
         /\ Logged'
<1> DEFINE e(l, k) == IF k = 0 THEN Absent
                      ELSE [action |-> job'[<<l, k>>].action,
                            state |-> IF job'[<<l, k>>].state \in Active THEN "active"
                                      ELSE job'[<<l, k>>].state]
<1>1. ASSUME NEW l \in Lab, NEW k \in 0..Slots
      PROVE  /\ e(l, k) \in Entry \cup {Absent}
             /\ k = 0 => e(l, k) = Absent
             /\ k # 0 => e(l, k).action = job'[<<l, k>>].action
  <2>1. CASE k = 0
    BY <2>1
  <2>2. CASE k # 0
    <3>1. job'[<<l, k>>] \in Job
      BY <2>2, Pairs
    <3>2. job'[<<l, k>>].action \in {"up", "stop", "detect"} /\ job'[<<l, k>>].state \in Active \cup Ended
      BY <3>1 DEF Job, Action, State
    <3> QED
      BY <2>2, <3>2 DEF Entry
  <2> QED
    BY <2>1, <2>2
<1>2. journal' = [l \in Lab |-> [life |-> e(l, tail'[l]), det |-> e(l, probe'[l])]]
  BY DEF Memory, EntryOf
<1>3. ASSUME NEW l \in Lab
      PROVE  /\ tail'[l] # 0 => job'[<<l, tail'[l]>>].action # "detect"
             /\ probe'[l] # 0 => job'[<<l, probe'[l]>>].action = "detect"
             /\ tail'[l] \in 0..Slots /\ probe'[l] \in 0..Slots
  BY DEF Refs
<1> HIDE DEF e
<1>4. \A l \in Lab : /\ journal'[l].life = e(l, tail'[l]) /\ journal'[l].det = e(l, probe'[l])
  BY <1>2
<1>5. Absent.action # "detect"
  BY DEF Absent
<1>6. journal' \in [Lab -> [life : Entry \cup {Absent}, det : Entry \cup {Absent}]]
  <2>1. ASSUME NEW l \in Lab
        PROVE  e(l, tail'[l]) \in Entry \cup {Absent} /\ e(l, probe'[l]) \in Entry \cup {Absent}
    BY <1>1, <1>3
  <2> QED
    BY <1>2, <2>1
<1>7. Logged'
  <2>1. \A l \in Lab : e(l, tail'[l]).action # "detect"
    BY <1>1, <1>3, <1>5
  <2>2. \A l \in Lab : e(l, probe'[l]) # Absent => e(l, probe'[l]).action = "detect"
    BY <1>1, <1>3
  <2> QED
    BY <1>4, <2>1, <2>2 DEF Logged
<1> QED
  BY <1>6, <1>7

LEMMA BasicsInit == Init => Basics
<1> SUFFICES ASSUME Init PROVE Basics
  OBVIOUS
<1>1. /\ job = [i \in Id |-> Blank] /\ tail = [l \in Lab |-> 0] /\ probe = [l \in Lab |-> 0]
      /\ seen = {} /\ queue = <<>> /\ gate = "open" /\ shut = FALSE /\ agent = FALSE
      /\ up \in [Lab -> Up] /\ journal = [l \in Lab |-> [life |-> Absent, det |-> Absent]]
      /\ 0 \in 0..Slots
  BY DEF Init
<1>2. Blank \in Job /\ Blank.stage = "free" /\ Blank.prev = 0
  BY BlankType DEF Blank
<1>3. TypeOK
  <2>1. job \in [Id -> Job] /\ tail \in [Lab -> 0..Slots] /\ probe \in [Lab -> 0..Slots]
    BY <1>1, <1>2
  <2>2. journal \in [Lab -> [life : Entry \cup {Absent}, det : Entry \cup {Absent}]]
    BY <1>1
  <2>3. queue \in Seq(Id)
    BY <1>1
  <2> QED
    BY <1>1, <2>1, <2>2, <2>3 DEF TypeOK
<1>4. Queued /\ Logged
  BY <1>1 DEF Queued, Logged, Absent
<1>5. \A i \in Id : Shape(job[i])
  BY <1>1, <1>2 DEF Shape, Before, AtWork, After, Submitting
<1>6. \A l \in Lab : Refs(l)
  BY <1>1, <1>2, Pairs DEF Refs, Before, AtWork, Submitting
<1> QED
  BY <1>1, <1>2, <1>3, <1>4, <1>5, <1>6 DEF Basics

\* The steps that touch no job and no table.
Elsewhere ==
  \/ \E l \in Lab : FindReady(l) \/ DetectionRefused(l)
  \/ AgentStart \/ AgentEnd \/ PrepareShutdown \/ OtherEvent \/ UNCHANGED vars

LEMMA Steps ==
  ASSUME [Next]_vars
  PROVE  \/ Elsewhere \/ Close \/ Restart
         \/ \E l \in Lab, a \in {"up", "stop"} : Submit(l, a)
         \/ \E l \in Lab : SubmitDetection(l)
         \/ \E l \in Lab : CancelDetection(l)
         \/ \E i \in Id : Step(i)
         \/ \E i \in Id : Releases(i)
BY DEF Next, Request, Advance, Elsewhere, Step, Releases

\* What is left to show of a step, once it is known what it does to jobs and tables.
LEMMA BasicsBy ==
  ASSUME job' \in [Id -> Job], tail' \in [Lab -> 0..Slots], probe' \in [Lab -> 0..Slots],
         seen' \subseteq Lab, queue' \in Seq(Id), gate' \in {"open", "frozen", "closing"},
         shut' \in BOOLEAN, agent' \in BOOLEAN, up' \in [Lab -> Up],
         Queued', \A n \in Id : Shape(job'[n]), \A l \in Lab : Refs(l)',
         (shut' \/ \E n \in Id : job'[n].stage = "lost") => gate' # "open",
         journal' = Memory' \/ (journal' = journal /\ Basics)
  PROVE  Basics'
<1>1. /\ journal' \in [Lab -> [life : Entry \cup {Absent}, det : Entry \cup {Absent}]]
      /\ Logged'
  <2>1. CASE journal' = Memory'
    BY <2>1, Saved
  <2>2. CASE journal' = journal /\ Basics
    BY <2>2 DEF Basics, TypeOK, Logged
  <2> QED
    BY <2>1, <2>2
<1>2. TypeOK'
  BY <1>1 DEF TypeOK
<1> QED
  BY <1>1, <1>2 DEF Basics

LEMMA BasicsStep == Basics /\ [Next]_vars => Basics'
<1> SUFFICES ASSUME Basics, [Next]_vars PROVE Basics'
  OBVIOUS
<1> /\ TypeOK /\ Queued /\ \A n \in Id : Shape(job[n])
    /\ \A l \in Lab : Refs(l)
    /\ (shut \/ \E i \in Id : job[i].stage = "lost") => gate # "open"
  BY DEF Basics
<1> /\ job \in [Id -> Job] /\ tail \in [Lab -> 0..Slots] /\ probe \in [Lab -> 0..Slots]
    /\ seen \subseteq Lab /\ queue \in Seq(Id) /\ gate \in {"open", "frozen", "closing"}
    /\ shut \in BOOLEAN /\ agent \in BOOLEAN /\ up \in [Lab -> Up]
  BY DEF TypeOK
<1>1. CASE Elsewhere
  <2>1. UNCHANGED <<job, tail, probe, queue, shut, up>>
    BY <1>1 DEF Elsewhere, FindReady, DetectionRefused, AgentStart, AgentEnd, PrepareShutdown,
                OtherEvent, vars
  <2>2. /\ seen' \subseteq Lab /\ agent' \in BOOLEAN /\ gate' \in {"open", "frozen", "closing"}
        /\ gate' = "open" => gate = "open"
        /\ journal' = Memory' \/ journal' = journal
    BY <1>1 DEF Elsewhere, FindReady, DetectionRefused, AgentStart, AgentEnd, PrepareShutdown,
                OtherEvent, Persist, vars
  <2>3. Queued' /\ \A n \in Id : Shape(job'[n])
    BY <2>1, QueuedKept
  <2>4. \A l \in Lab : Refs(l)'
    BY <2>1, RefsElsewhere
  <2> QED
    BY <2>1, <2>2, <2>3, <2>4, BasicsBy
<1>2. CASE Close
  <2>1. /\ UNCHANGED <<tail, probe, seen, queue, agent, up>> /\ shut' = TRUE /\ journal' = Memory'
        /\ gate' \in {"frozen", "closing"}
    BY <1>2 DEF Close, Persist
  <2> QED
    BY <1>2, <2>1, CloseStep, BasicsBy
<1>3. CASE Restart
  <2>1. /\ seen' = {} /\ agent' = FALSE /\ shut' = FALSE /\ journal' = Memory' /\ gate' = "open"
    BY <1>3 DEF Restart, Persist
  <2>2. \A n \in Id : job'[n].stage # "lost"
    BY <1>3, RestartStep
  <2> QED
    BY <1>3, <2>1, <2>2, RestartStep, BasicsBy
<1>4. ASSUME NEW l \in Lab, NEW a \in {"up", "stop"}, Submit(l, a) PROVE Basics'
  <2>1. UNCHANGED <<probe, seen, gate, shut, agent, up, journal>> /\ gate = "open"
    BY <1>4 DEF Submit
  <2> QED
    BY <1>4, <2>1, SubmitStep, BasicsBy
<1>5. ASSUME NEW l \in Lab, SubmitDetection(l) PROVE Basics'
  <2>1. UNCHANGED <<tail, gate, shut, agent, up, journal>> /\ seen' \subseteq Lab /\ gate = "open"
    BY <1>5 DEF SubmitDetection, MayDetect
  <2> QED
    BY <1>5, <2>1, SubmitDetectionStep, BasicsBy
<1>6. ASSUME NEW l \in Lab, CancelDetection(l) PROVE Basics'
  <2> DEFINE i == <<l, probe[l]>>
  <2>1. UNCHANGED <<tail, probe, seen, queue, gate, shut, agent, up>> /\ journal' = Memory'
    BY <1>6 DEF CancelDetection, Persist
  <2>2. /\ i \in Id /\ Moves(i) /\ job' \in [Id -> Job] /\ Shape(job'[i])
        /\ job'[i].stage = job[i].stage
    BY <1>6, CancelStep DEF Alters
  <2>3. \A n \in Id : Shape(job'[n]) /\ job'[n].stage = job[n].stage
    BY <2>2 DEF Moves
  <2>4. Queued' /\ \A m \in Lab : Refs(m)'
    BY <2>1, <2>2, <2>3, QueuedKept, RefsMove
  <2> QED
    BY <2>1, <2>2, <2>3, <2>4, BasicsBy
<1>7. ASSUME NEW i \in Id, Step(i) PROVE Basics'
  <2>1. /\ Moves(i) /\ job' \in [Id -> Job] /\ Shape(job'[i])
        /\ up' \in [Lab -> Up] /\ (journal' = journal \/ journal' = Memory')
    BY <1>7, StepMoves
  <2>2. \A n \in Id : Shape(job'[n])
    BY <2>1 DEF Moves
  <2>3. Queued' /\ queue' \in Seq(Id) /\ \A m \in Lab : Refs(m)'
    BY <1>7, <2>1, QueuedMove, RefsMove
  <2>4. job'[i].stage = "lost" => shut
    BY <1>7, StepMoves
  <2>5. (shut' \/ \E n \in Id : job'[n].stage = "lost") => gate' # "open"
    BY <2>1, <2>4 DEF Moves
  <2> QED
    BY <2>1, <2>2, <2>3, <2>5, BasicsBy DEF Moves
<1>8. ASSUME NEW i \in Id, Releases(i) PROVE Basics'
  <2>1. /\ UNCHANGED <<tail, probe, seen, queue, gate, shut, agent, up>>
        /\ journal' = journal \/ journal' = Memory'
    BY <1>8 DEF Releases, Report, Done, Persist
  <2> QED
    BY <1>8, <2>1, ReleaseStep, BasicsBy
<1> QED
  BY <1>1, <1>2, <1>3, <1>4, <1>5, <1>6, <1>7, <1>8, Steps

LEMMA BasicsAlways == Spec => []Basics
BY BasicsInit, BasicsStep, PTL DEF Spec

-----------------------------------------------------------------------------
(***************************************************************************)
(* What the tables say of the jobs.                                        *)
(***************************************************************************)
Waiting == {"queued", "running"}

\* A job that has not settled shows in its table, and of one kind only one is at work.
Showing ==
  \A l \in Lab :
    /\ LifeState(l) \in {"none"} \cup Waiting \cup Ended
    /\ \A k \in 1..Slots : job[<<l, k>>].stage \in Before \cup AtWork =>
         IF job[<<l, k>>].action = "detect" THEN DetState(l) \in Active ELSE LifeState(l) \in Waiting
    /\ \A k, m \in 1..Slots :
         /\ job[<<l, k>>].stage \in AtWork /\ job[<<l, m>>].stage \in AtWork
         /\ job[<<l, k>>].action = "detect" <=> job[<<l, m>>].action = "detect"
         => k = m

LEMMA BasicsShow == Basics => Showing
<1> SUFFICES ASSUME Basics, NEW l \in Lab
             PROVE  /\ LifeState(l) \in {"none"} \cup Waiting \cup Ended
                    /\ \A k \in 1..Slots : job[<<l, k>>].stage \in Before \cup AtWork =>
                         IF job[<<l, k>>].action = "detect" THEN DetState(l) \in Active
                         ELSE LifeState(l) \in Waiting
                    /\ \A k, m \in 1..Slots :
                         /\ job[<<l, k>>].stage \in AtWork /\ job[<<l, m>>].stage \in AtWork
                         /\ job[<<l, k>>].action = "detect" <=> job[<<l, m>>].action = "detect"
                         => k = m
  BY DEF Showing
<1> Refs(l) /\ tail[l] \in 0..Slots /\ probe[l] \in 0..Slots /\ Slots \in Nat
  BY DEF Basics, TypeOK
<1>1. tail[l] # 0 => LET j == job[<<l, tail[l]>>] IN
        /\ tail[l] \in 1..Slots /\ j.stage # "free" /\ j.action # "detect" /\ j.state \in State
        /\ Shape(j) /\ j.stage \in Stage
  <2>1. tail[l] # 0 => /\ tail[l] \in 1..Slots /\ job[<<l, tail[l]>>].stage # "free"
                       /\ job[<<l, tail[l]>>].action # "detect"
    BY ONLY Refs(l), tail[l] \in 0..Slots, Slots \in Nat DEF Refs
  <2> QED
    BY <2>1, Pairs DEF Basics, TypeOK, Job
<1>2. tail[l] # 0 => LifeState(l) \in Waiting \cup Ended
  BY <1>1 DEF LifeState, Shape, Stage, Before, AtWork, After, Submitting, Working, Waiting
<1>3. ASSUME NEW k \in 1..Slots, job[<<l, k>>].stage \in Before \cup AtWork,
             job[<<l, k>>].action # "detect"
      PROVE  /\ LifeState(l) \in Waiting /\ tail[l] # 0
             /\ k = tail[l] \/ (job[<<l, tail[l]>>].prev = k /\ job[<<l, tail[l]>>].stage \in Before)
  <2>1. k = tail[l] \/ (tail[l] # 0 /\ job[<<l, tail[l]>>].prev = k)
    BY ONLY <1>3, Refs(l) DEF Refs
  <2>2. tail[l] # 0 /\ job[<<l, tail[l]>>].prev = k => job[<<l, tail[l]>>].stage \in Before
    BY <1>1 DEF Shape
  <2>3. tail[l] # 0 /\ job[<<l, tail[l]>>].stage \in Before \cup AtWork
    BY <1>3, <2>1, <2>2
  <2>4. LifeState(l) \in Waiting
    BY <1>1, <2>3 DEF LifeState, Shape, Waiting
  <2> QED
    BY <2>1, <2>2, <2>3, <2>4
<1>4. ASSUME NEW k \in 1..Slots, job[<<l, k>>].stage \in Before \cup AtWork,
             job[<<l, k>>].action = "detect"
      PROVE  DetState(l) \in Active /\ k = probe[l]
  <2>1. k = probe[l]
    BY ONLY <1>4, Refs(l) DEF Refs
  <2>2. Shape(job[<<l, k>>]) /\ probe[l] # 0
    BY <2>1, Pairs DEF Basics
  <2> QED
    BY <1>4, <2>1, <2>2 DEF DetState, Shape, Active
<1>5. ASSUME NEW k \in 1..Slots, NEW m \in 1..Slots,
             job[<<l, k>>].stage \in AtWork, job[<<l, m>>].stage \in AtWork,
             job[<<l, k>>].action = "detect" <=> job[<<l, m>>].action = "detect"
      PROVE  k = m
  BY <1>3, <1>4, <1>5, Stages
<1> QED
  BY <1>2, <1>3, <1>4, <1>5 DEF LifeState

\* Nothing comes up as active in a table, or as completed.
NoNew == \A l \in Lab : /\ LifeState(l)' \in Waiting => LifeState(l) \in Waiting
                        /\ DetState(l)' \in Active => DetState(l) \in Active
NoEnd(l) == LifeState(l)' = "completed" =>
              LifeState(l) = "completed" /\ job'[<<l, tail'[l]>>].action = job[<<l, tail[l]>>].action

LEMMA TablePairs ==
  ASSUME TypeOK, NEW l \in Lab
  PROVE  /\ tail[l] # 0 => <<l, tail[l]>> \in Id /\ <<l, tail[l]>>[1] = l
                           /\ <<l, tail[l]>>[2] = tail[l]
         /\ probe[l] # 0 => <<l, probe[l]>> \in Id /\ <<l, probe[l]>>[1] = l
                            /\ <<l, probe[l]>>[2] = probe[l]
<1>1. tail[l] \in 0..Slots /\ probe[l] \in 0..Slots /\ Slots \in Nat
  BY DEF TypeOK
<1> QED
  BY <1>1, Pairs

LEMMA NoNewBy ==
  ASSUME TypeOK, tail' = tail, probe' = probe,
         \A n \in Id : /\ job'[n].state \in Waiting /\ n[2] = tail[n[1]] => job[n].state \in Waiting
                       /\ job'[n].state \in Active /\ n[2] = probe[n[1]] => job[n].state \in Active
  PROVE  NoNew
<1>1. ASSUME NEW l \in Lab PROVE LifeState(l)' \in Waiting => LifeState(l) \in Waiting
  BY TablePairs DEF LifeState, Waiting
<1>2. ASSUME NEW l \in Lab PROVE DetState(l)' \in Active => DetState(l) \in Active
  BY TablePairs DEF DetState, Active
<1> QED
  BY <1>1, <1>2 DEF NoNew

LEMMA NoEndBy ==
  ASSUME TypeOK, tail' = tail, NEW l \in Lab,
         \A n \in Id : n = <<l, tail[l]>> =>
           /\ job'[n].action = job[n].action
           /\ job'[n].state = "completed" => job[n].state = "completed"
  PROVE  NoEnd(l)
BY TablePairs DEF LifeState, NoEnd

\* The steps that submit nothing make nothing active.
LEMMA NoNewStep ==
  ASSUME Basics, \/ Elsewhere \/ Close \/ Restart
                 \/ \E l \in Lab : CancelDetection(l)
                 \/ \E i \in Id : Step(i) \/ Releases(i)
  PROVE  NoNew
<1> TypeOK /\ (\A n \in Id : Shape(job[n]) /\ job[n] \in Job)
  BY DEF Basics, TypeOK
<1>1. CASE Elsewhere
  <2>1. UNCHANGED <<job, tail, probe>>
    BY <1>1 DEF Elsewhere, FindReady, DetectionRefused, AgentStart, AgentEnd, PrepareShutdown,
                OtherEvent, vars
  <2> QED
    BY <2>1, NoNewBy
<1>2. CASE Close
  BY <1>2, CloseStep, NoNewBy DEF Close, Alters
<1>3. CASE Restart
  <2>1. \A n \in Id : job'[n].stage \in {"free", "ended"} /\ Shape(job'[n])
    BY <1>3, RestartStep
  <2>2. /\ tail' \in [Lab -> 0..Slots] /\ probe' \in [Lab -> 0..Slots]
        /\ \A l \in Lab : Refs(l)'
    BY <1>3, RestartStep
  <2>3. ASSUME NEW l \in Lab PROVE LifeState(l)' \notin Waiting
    <3>1. CASE tail'[l] = 0
      BY <3>1 DEF LifeState, Waiting
    <3>2. CASE tail'[l] # 0
      <4>1. tail'[l] \in 1..Slots /\ job'[<<l, tail'[l]>>].stage # "free"
        <5>1. Refs(l)' /\ tail'[l] \in 0..Slots /\ Slots \in Nat
          BY <2>2
        <5> QED
          BY ONLY <3>2, <5>1 DEF Refs
      <4>2. job'[<<l, tail'[l]>>].state \in Ended
        BY <2>1, <4>1, Pairs DEF Shape
      <4> QED
        BY <3>2, <4>2 DEF LifeState, Waiting, Ended
    <3> QED
      BY <3>1, <3>2
  <2>4. ASSUME NEW l \in Lab PROVE DetState(l)' \notin Active
    <3>1. CASE probe'[l] = 0
      BY <3>1 DEF DetState, Active
    <3>2. CASE probe'[l] # 0
      <4>1. probe'[l] \in 1..Slots /\ job'[<<l, probe'[l]>>].stage # "free"
        <5>1. Refs(l)' /\ probe'[l] \in 0..Slots /\ Slots \in Nat
          BY <2>2
        <5> QED
          BY ONLY <3>2, <5>1 DEF Refs
      <4>2. job'[<<l, probe'[l]>>].state \in Ended
        BY <2>1, <4>1, Pairs DEF Shape
      <4> QED
        BY <3>2, <4>2 DEF DetState, Active, Ended
    <3> QED
      BY <3>1, <3>2
  <2> QED
    BY <2>3, <2>4 DEF NoNew
<1>4. ASSUME NEW n \in Id, Moves(n), Shape(job'[n]), job'[n] \in Job
      PROVE  NoNew
  <2>1. tail' = tail /\ probe' = probe
    BY <1>4 DEF Moves
  <2>2. job'[n].state \in Active => job'[n].stage \in Before \cup AtWork
    BY <1>4 DEF Moves, Live, Shape, Active, Ended
  <2>3. job'[n].state \in Active => job[n].state \in Active
    BY <1>4, <2>2 DEF Moves, Shape, Active
  <2>4. job'[n].state \in Waiting /\ job[n].action # "detect" => job[n].state \in Waiting
    BY <1>4, <2>2 DEF Moves, Shape, Active, Waiting
  <2>5. n[2] = tail[n[1]] => job[n].action # "detect"
    <3>1. n[1] \in Lab /\ n[2] \in 1..Slots /\ n = <<n[1], n[2]>> /\ Refs(n[1])
      BY Pairs DEF Basics
    <3>2. n[2] = tail[n[1]] => job[<<n[1], tail[n[1]]>>].action # "detect"
      BY <3>1 DEF Refs
    <3> QED
      BY <3>1, <3>2
  <2>6. \A m \in Id \ {n} : job'[m] = job[m]
    BY <1>4 DEF Moves
  <2> QED
    BY <2>1, <2>3, <2>4, <2>5, <2>6, NoNewBy
<1>5. ASSUME NEW l \in Lab, CancelDetection(l) PROVE NoNew
  BY <1>4, <1>5, CancelStep DEF Alters
<1>6. ASSUME NEW i \in Id, Step(i) PROVE NoNew
  BY <1>4, <1>6, StepMoves
<1>7. ASSUME NEW i \in Id, Releases(i) PROVE NoNew
  <2>1. tail' = tail /\ probe' = probe
    BY <1>7 DEF Releases, Report, Done
  <2>2. \A n \in Id : n[2] \in {tail[n[1]], probe[n[1]]} => job'[n].state = job[n].state
    BY <1>7, ReleaseStep
  <2> QED
    BY <2>1, <2>2, NoNewBy
<1> QED
  BY <1>1, <1>2, <1>3, <1>5, <1>6, <1>7

\* An operation and a detection are never active together on a lab, nor either beside the
\* agent.
Exclusive ==
  /\ \A l \in Lab : ~(LifeState(l) \in Waiting /\ DetState(l) \in Active)
  /\ agent => \A l \in Lab : LifeState(l) \notin Waiting /\ DetState(l) \notin Active

LEMMA ExclusiveStep == Basics /\ Exclusive /\ [Next]_vars => Exclusive'
<1> SUFFICES ASSUME Basics, Exclusive, [Next]_vars PROVE Exclusive'
  OBVIOUS
<1>1. CASE NoNew /\ (agent' => agent)
  BY <1>1 DEF NoNew, Exclusive
<1>2. CASE AgentStart
  <2>1. /\ UNCHANGED <<job, tail, probe>>
        /\ \A l \in Lab : {LifeState(l), DetState(l)} \cap Active = {}
    BY <1>2 DEF AgentStart, ActiveWork
  <2>2. \A l \in Lab : LifeState(l)' = LifeState(l) /\ DetState(l)' = DetState(l)
    BY <2>1 DEF LifeState, DetState
  <2> QED
    BY <2>1, <2>2 DEF Exclusive, Waiting, Active
<1>3. ASSUME NEW l \in Lab, NEW a \in {"up", "stop"}, Submit(l, a) PROVE Exclusive'
  <2>1. UNCHANGED <<probe, agent>> /\ ~agent /\ DetState(l) \notin Active
    BY <1>3 DEF Submit
  <2>2. DetState(l)' = DetState(l)
    BY <1>3, <2>1, SubmitStep DEF DetState
  <2>3. ASSUME NEW m \in Lab \ {l} PROVE LifeState(m)' = LifeState(m) /\ DetState(m)' = DetState(m)
    <3>1. /\ tail'[m] = tail[m] /\ probe'[m] = probe[m]
          /\ \A i \in 1..Slots : job'[<<m, i>>] = job[<<m, i>>]
      BY <1>3, <2>1, SubmitStep
    <3>2. tail[m] \in 0..Slots /\ probe[m] \in 0..Slots /\ Slots \in Nat
      BY DEF Basics, TypeOK
    <3> QED
      BY <3>1, <3>2 DEF LifeState, DetState
  <2> QED
    BY <2>1, <2>2, <2>3 DEF Exclusive
<1>4. ASSUME NEW l \in Lab, SubmitDetection(l) PROVE Exclusive'
  <2>1. UNCHANGED <<tail, agent>> /\ ~agent /\ LifeState(l) \notin Waiting
    BY <1>4 DEF SubmitDetection, MayDetect, Waiting
  <2>2. LifeState(l)' = LifeState(l)
    BY <1>4, <2>1, SubmitDetectionStep DEF LifeState
  <2>3. ASSUME NEW m \in Lab \ {l} PROVE LifeState(m)' = LifeState(m) /\ DetState(m)' = DetState(m)
    <3>1. /\ tail'[m] = tail[m] /\ probe'[m] = probe[m]
          /\ \A i \in 1..Slots : job'[<<m, i>>] = job[<<m, i>>]
      BY <1>4, <2>1, SubmitDetectionStep
    <3>2. tail[m] \in 0..Slots /\ probe[m] \in 0..Slots /\ Slots \in Nat
      BY DEF Basics, TypeOK
    <3> QED
      BY <3>1, <3>2 DEF LifeState, DetState
  <2> QED
    BY <2>1, <2>2, <2>3 DEF Exclusive
<1>5. ASSUME Elsewhere, ~AgentStart PROVE agent' => agent
  BY <1>5 DEF Elsewhere, FindReady, DetectionRefused, AgentEnd, PrepareShutdown, OtherEvent, vars
<1>6. ASSUME Close \/ Restart PROVE agent' => agent
  BY <1>6 DEF Close, Restart
<1>7. ASSUME NEW l \in Lab, CancelDetection(l) PROVE agent' => agent
  BY <1>7 DEF CancelDetection
<1>8. ASSUME NEW i \in Id, Step(i) \/ Releases(i) PROVE agent' => agent
  BY <1>8, StepMoves DEF Moves, Releases, Report, Done
<1> QED
  BY <1>1, <1>2, <1>3, <1>4, <1>5, <1>6, <1>7, <1>8, NoNewStep, Steps

-----------------------------------------------------------------------------
(***************************************************************************)
(* What the journal and the containers are, beside the jobs.               *)
(***************************************************************************)

\* What a step of a job does to its container, its result and the journal.
LEMMA StepEffects ==
  ASSUME Basics, NEW i \in Id, Step(i)
  PROVE  /\ job[i].stage # "lost" /\ (job[i].stage = "accepted" => journal' = Memory')
         /\ \/ up' = up
            \/ /\ job[i].stage = "acting" /\ job[i].action # "detect" /\ job'[i].stage = "acted"
               /\ \A l \in Lab \ {i[1]} : up'[l] = up[l]
         /\ job'[i].stage = "acted" /\ job'[i].res = "completed" /\ job[i].action # "detect" =>
              (job[i].action = "stop" <=> up'[i[1]] = "stopped")
         /\ job'[i].stage = "acting" /\ job[i].action = "detect" => up' = up /\ up[i[1]] = "running"
         /\ job'[i].stage = "settled" /\ job'[i].state = "completed" =>
              job[i].stage = "acted" /\ job[i].res = "completed" /\ up' = up
         /\ job'[i].stage = "over" => job'[i].state = "cancelled"
<1> job[i] \in Job /\ job \in [Id -> Job] /\ Shape(job[i]) /\ up \in [Lab -> Up] /\ i[1] \in Lab
  BY Pairs DEF Basics, TypeOK
<1>1. CASE Log(i)
  BY <1>1 DEF Log, Job, Persist
<1>2. CASE HandOver(i)
  BY <1>2 DEF HandOver, Job
<1>3. CASE Take(i)
  <2>1. job[i].stage = "queued"
    <3>1. queue \in Seq(Id) /\ queue # <<>> /\ i = Head(queue)
      BY <1>3 DEF Take, Basics, TypeOK
    <3>2. 1 \in DOMAIN queue /\ queue[1] = i
      BY <3>1
    <3> QED
      BY <3>2 DEF Basics, Queued
  <2> QED
    BY <1>3, <2>1 DEF Take, Job
<1>4. CASE BeginCancelled(i)
  BY <1>4 DEF BeginCancelled, Job
<1>5. CASE Begin(i)
  BY <1>5 DEF Begin, Job
<1>6. CASE BeginDetection(i)
  BY <1>6 DEF BeginDetection, Job
<1>7. CASE PassPrecheck(i)
  BY <1>7 DEF PassPrecheck, Job
<1>8. CASE FailPrecheck(i)
  BY <1>8 DEF FailPrecheck, Job
<1>9. CASE OperateUp(i)
  BY <1>9 DEF OperateUp, Job
<1>10. CASE OperateStop(i)
  BY <1>10 DEF OperateStop, Job
<1>11. CASE Probe(i)
  BY <1>11 DEF Probe, Job
<1>12. CASE Settle(i)
  BY <1>12 DEF Settle, Job
<1> QED
  BY <1>1, <1>2, <1>3, <1>4, <1>5, <1>6, <1>7, <1>8, <1>9, <1>10, <1>11, <1>12 DEF Step

LEMMA QuietlyStep ==
  ASSUME Basics, \/ Elsewhere \/ Close
                 \/ \E l \in Lab : CancelDetection(l) \/ SubmitDetection(l)
                 \/ \E l \in Lab, a \in {"up", "stop"} : Submit(l, a)
                 \/ \E i \in Id : Releases(i)
  PROVE  Quietly /\ up' = up /\ (journal' = journal \/ journal' = Memory')
<1>1. CASE Elsewhere
  <2>1. UNCHANGED <<job, up>> /\ (journal' = journal \/ journal' = Memory')
    BY <1>1 DEF Elsewhere, FindReady, DetectionRefused, AgentStart, AgentEnd, PrepareShutdown,
                OtherEvent, Persist, vars
  <2> QED
    BY <2>1 DEF Quietly, Same
<1>2. CASE Close
  BY <1>2, CloseStep DEF Close, Persist, Alters, Quietly, Same
<1>3. ASSUME NEW l \in Lab, CancelDetection(l)
      PROVE Quietly /\ up' = up /\ (journal' = journal \/ journal' = Memory')
  <2>1. up' = up /\ journal' = Memory'
    BY <1>3 DEF CancelDetection, Persist
  <2>2. Quietly
    BY <1>3, CancelStep DEF Alters, Moves, Quietly, Same
  <2> QED
    BY <2>1, <2>2
<1>4. ASSUME NEW l \in Lab, SubmitDetection(l) PROVE Quietly /\ up' = up /\ journal' = journal
  BY <1>4, SubmitDetectionStep DEF SubmitDetection
<1>5. ASSUME NEW l \in Lab, NEW a \in {"up", "stop"}, Submit(l, a)
      PROVE  Quietly /\ up' = up /\ journal' = journal
  BY <1>5, SubmitStep DEF Submit
<1>6. ASSUME NEW i \in Id, Releases(i)
      PROVE Quietly /\ up' = up /\ (journal' = journal \/ journal' = Memory')
  BY <1>6, ReleaseStep DEF Releases, Report, Done, Persist
<1> QED
  BY <1>1, <1>2, <1>3, <1>4, <1>5, <1>6

\* Whatever has been logged and has not settled is active in the journal too.
Saving == (Before \cup AtWork) \ {"accepted", "lost"}
Journalled ==
  \A i \in Id : job[i].stage \in Saving =>
    IF job[i].action = "detect" THEN journal[i[1]].det.state = "active"
    ELSE journal[i[1]].life.state = "active"

LEMMA JournalSaved ==
  ASSUME journal' = Memory', Showing', tail' \in [Lab -> 0..Slots], probe' \in [Lab -> 0..Slots]
  PROVE  Journalled'
<1> SUFFICES ASSUME NEW i \in Id, job'[i].stage \in Saving
             PROVE  IF job'[i].action = "detect" THEN journal'[i[1]].det.state = "active"
                    ELSE journal'[i[1]].life.state = "active"
  BY DEF Journalled
<1>1. i[1] \in Lab /\ i[2] \in 1..Slots /\ i = <<i[1], i[2]>>
  BY Pairs
<1>2. IF job'[i].action = "detect" THEN DetState(i[1])' \in Active ELSE LifeState(i[1])' \in Waiting
  BY <1>1 DEF Showing, Saving
<1>3. LifeState(i[1])' \in Waiting =>
        tail'[i[1]] # 0 /\ job'[<<i[1], tail'[i[1]]>>].state \in Active
  BY DEF LifeState, Waiting, Active
<1>4. DetState(i[1])' \in Active =>
        probe'[i[1]] # 0 /\ job'[<<i[1], probe'[i[1]]>>].state \in Active
  BY DEF DetState, Active
<1>5. /\ LifeState(i[1])' \in Waiting => journal'[i[1]].life.state = "active"
      /\ DetState(i[1])' \in Active => journal'[i[1]].det.state = "active"
  BY <1>1, <1>3, <1>4 DEF Memory, EntryOf
<1> QED
  BY <1>2, <1>5

LEMMA JournalledStep == Basics /\ Basics' /\ Showing' /\ Journalled /\ [Next]_vars => Journalled'
<1> SUFFICES ASSUME Basics, Basics', Showing', Journalled, [Next]_vars PROVE Journalled'
  OBVIOUS
<1>1. CASE journal' = Memory'
  BY <1>1, JournalSaved DEF Basics, TypeOK
<1>2. CASE journal' = journal /\ Quietly
  BY <1>2 DEF Journalled, Quietly, Same, Saving
<1>3. ASSUME NEW i \in Id, Step(i), journal' # Memory' PROVE Journalled'
  <2>1. /\ journal' = journal /\ Moves(i) /\ job[i].stage \notin {"lost", "accepted"}
    BY <1>3, StepMoves, StepEffects
  <2>2. ASSUME NEW n \in Id, job'[n].stage \in Saving
        PROVE  job[n].stage \in Saving /\ job'[n].action = job[n].action
    BY <2>1, <2>2 DEF Moves, Saving
  <2> QED
    BY <2>1, <2>2 DEF Journalled
<1>4. CASE Restart
  BY <1>1, <1>4 DEF Restart, Persist
<1> QED
  BY <1>1, <1>2, <1>3, <1>4, QuietlyStep, Steps

\* The steps that are not a job's own let no operation come up as completed.
LEMMA NoEndStep ==
  ASSUME Basics, \/ Elsewhere \/ Close
                 \/ \E l \in Lab : CancelDetection(l) \/ SubmitDetection(l)
                 \/ \E l \in Lab, a \in {"up", "stop"} : Submit(l, a)
                 \/ \E i \in Id : Releases(i),
         NEW m \in Lab
  PROVE  NoEnd(m)
<1> TypeOK /\ Refs(m) /\ tail[m] \in 0..Slots /\ Slots \in Nat
  BY DEF Basics, TypeOK
<1> tail[m] # 0 => job[<<m, tail[m]>>].action # "detect"
  BY ONLY Refs(m) DEF Refs
<1>1. CASE Elsewhere
  <2>1. UNCHANGED <<job, tail>>
    BY <1>1 DEF Elsewhere, FindReady, DetectionRefused, AgentStart, AgentEnd, PrepareShutdown,
                OtherEvent, vars
  <2> QED
    BY <2>1, NoEndBy
<1>2. CASE Close
  BY <1>2, CloseStep, NoEndBy DEF Close, Alters
<1>3. ASSUME NEW l \in Lab, CancelDetection(l) PROVE NoEnd(m)
  <2>1. /\ tail' = tail
        /\ \A n \in Id : job'[n].action = job[n].action
                        /\ (job'[n].state = "completed" => job[n].state = "completed")
    BY <1>3, CancelStep DEF CancelDetection, Alters, Moves
  <2> QED
    BY <2>1, NoEndBy
<1>4. ASSUME NEW l \in Lab, SubmitDetection(l) PROVE NoEnd(m)
  <2>1. tail' = tail
    BY <1>4 DEF SubmitDetection
  <2>2. tail[m] # 0 => job'[<<m, tail[m]>>] = job[<<m, tail[m]>>]
    <3>1. /\ tail[l] # 0 => job'[<<l, tail[l]>>] = job[<<l, tail[l]>>]
          /\ \A n \in Lab \ {l} : \A i \in 1..Slots : job'[<<n, i>>] = job[<<n, i>>]
      BY <1>4, SubmitDetectionStep
    <3>2. tail[m] # 0 => tail[m] \in 1..Slots
      OBVIOUS
    <3> QED
      BY <3>1, <3>2
  <2> QED
    BY <2>1, <2>2 DEF NoEnd, LifeState
<1>5. ASSUME NEW l \in Lab, NEW a \in {"up", "stop"}, Submit(l, a) PROVE NoEnd(m)
  <2>1. CASE m = l
    <3>1. LifeState(l)' = "queued"
      BY <1>5, SubmitStep DEF LifeState
    <3> QED
      BY <2>1, <3>1 DEF NoEnd
  <2>2. CASE m # l
    <3>1. tail'[m] = tail[m] /\ \A i \in 1..Slots : job'[<<m, i>>] = job[<<m, i>>]
      <4>1. \A n \in Lab \ {l} : /\ tail'[n] = tail[n]
                                /\ \A i \in 1..Slots : job'[<<n, i>>] = job[<<n, i>>]
        BY <1>5, SubmitStep
      <4> QED
        BY <2>2, <4>1
    <3> QED
      BY <3>1 DEF NoEnd, LifeState
  <2> QED
    BY <2>1, <2>2
<1>6. ASSUME NEW i \in Id, Releases(i) PROVE NoEnd(m)
  <2>1. tail' = tail
    BY <1>6 DEF Releases, Report, Done
  <2>2. \A n \in Id : n[2] \in {tail[n[1]], probe[n[1]]} =>
          job'[n].state = job[n].state /\ job'[n].action = job[n].action
    BY <1>6, ReleaseStep
  <2> QED
    BY <2>1, <2>2, NoEndBy
<1> QED
  BY <1>1, <1>2, <1>3, <1>4, <1>5, <1>6

\* What has completed is so: in the table, in the journal, and before it is entered.  What
\* a detection looks at runs.
Fits(action, l) == action = "stop" <=> up[l] = "stopped"
TableFits(l)    == LifeState(l) = "completed" => Fits(job[<<l, tail[l]>>].action, l)
JournalFits(l)  == journal[l].life.state = "completed" => Fits(journal[l].life.action, l)
ResultFits(i)   == job[i].stage = "acted" /\ job[i].res = "completed" /\ job[i].action # "detect"
                   => Fits(job[i].action, i[1])
ProbeFits(i)    == job[i].stage = "acting" /\ job[i].action = "detect" => up[i[1]] = "running"
Real == /\ \A l \in Lab : TableFits(l) /\ JournalFits(l)
        /\ \A i \in Id : ResultFits(i) /\ ProbeFits(i)

\* The journal that is saved fits if the table does.
LEMMA SavedFits ==
  ASSUME journal' = Memory', NEW l \in Lab, TableFits(l)' PROVE JournalFits(l)'
<1>1. journal'[l].life = EntryOf(l, tail[l])'
  BY DEF Memory
<1>2. CASE tail'[l] = 0
  <2>1. journal'[l].life.state # "completed"
    BY <1>1, <1>2 DEF EntryOf, Absent
  <2> QED
    BY <2>1 DEF JournalFits
<1>3. CASE tail'[l] # 0
  <2>1. /\ journal'[l].life.action = job'[<<l, tail'[l]>>].action
        /\ journal'[l].life.state = "completed" => job'[<<l, tail'[l]>>].state = "completed"
    BY <1>1, <1>3 DEF EntryOf
  <2>2. LifeState(l)' = job'[<<l, tail'[l]>>].state
    BY <1>3 DEF LifeState
  <2> QED
    BY <2>1, <2>2 DEF JournalFits, TableFits, Fits
<1> QED
  BY <1>2, <1>3

LEMMA RealQuietly ==
  ASSUME Real, Quietly, up' = up, journal' = journal \/ journal' = Memory', \A l \in Lab : NoEnd(l)
  PROVE  Real'
<1>1. ASSUME NEW l \in Lab PROVE TableFits(l)'
  BY DEF Real, TableFits, Fits, NoEnd
<1>2. ASSUME NEW l \in Lab PROVE JournalFits(l)'
  <2>1. CASE journal' = journal
    BY <2>1 DEF Real, JournalFits, Fits
  <2>2. CASE journal' = Memory'
    BY <1>1, <2>2, SavedFits
  <2> QED
    BY <2>1, <2>2
<1>3. ASSUME NEW i \in Id PROVE ResultFits(i)' /\ ProbeFits(i)'
  <2>1. job'[i].stage \in {"acting", "acted"} => Same(i)
    BY DEF Quietly, AtWork
  <2> QED
    BY <2>1 DEF Real, ResultFits, ProbeFits, Fits, Same
<1> QED
  BY <1>1, <1>2, <1>3 DEF Real

LEMMA RealStep ==
  Basics /\ Showing /\ Exclusive /\ Journalled /\ Real /\ [Next]_vars => Real'
<1> SUFFICES ASSUME Basics, Showing, Exclusive, Journalled, Real, [Next]_vars PROVE Real'
  OBVIOUS
<1> TypeOK /\ \A n \in Id : Shape(job[n])
  BY DEF Basics
<1>1. ASSUME NEW i \in Id, Step(i) PROVE Real'
  <2> DEFINE b == i[1]
  <2>1. b \in Lab /\ i[2] \in 1..Slots /\ i = <<b, i[2]>>
    BY Pairs
  <2>2. /\ Moves(i) /\ Shape(job'[i]) /\ (journal' = journal \/ journal' = Memory')
        /\ tail' = tail /\ (\A n \in Id \ {i} : job'[n] = job[n]) /\ job'[i].action = job[i].action
    BY <1>1, StepMoves DEF Moves
  <2>3. \/ up' = up
        \/ /\ job[i].stage = "acting" /\ job[i].action # "detect" /\ job'[i].stage = "acted"
           /\ \A l \in Lab \ {b} : up'[l] = up[l]
    BY <1>1, StepEffects
  <2>4. up' # up => /\ LifeState(b) \in Waiting /\ DetState(b) \notin Active
                    /\ journal[b].life.state = "active"
    <3>1. up' # up => job[<<b, i[2]>>].stage \in AtWork /\ job[<<b, i[2]>>].action # "detect"
                      /\ job[i].stage \in Saving /\ job[i].action # "detect"
      BY <2>1, <2>3 DEF AtWork, Saving
    <3>2. up' # up => LifeState(b) \in Waiting
      BY <2>1, <3>1 DEF Showing
    <3> QED
      BY <2>1, <3>1, <3>2 DEF Exclusive, Journalled
  <2>5. ASSUME NEW l \in Lab PROVE TableFits(l)'
    <3>1. CASE i = <<l, tail[l]>> /\ tail[l] # 0
      <4>1. ASSUME LifeState(l)' = "completed" PROVE Fits(job[i].action, b)'
        <5>1. job'[i].state = "completed"
          BY <2>2, <3>1, <4>1 DEF LifeState
        <5>2. job'[i].stage \in After
          BY <2>2, <5>1 DEF Moves, Live, Shape
        <5>3. job[i].stage = "acted" /\ job[i].res = "completed" /\ up' = up
          BY <1>1, <5>1, <5>2, StepEffects DEF After
        <5>4. job[i].action # "detect"
          <6>1. Refs(l)
            BY DEF Basics
          <6> QED
            BY ONLY <3>1, <6>1 DEF Refs
        <5> QED
          BY <2>2, <5>3, <5>4 DEF Real, ResultFits, Fits
      <4> QED
        BY <2>1, <2>2, <3>1, <4>1 DEF TableFits, Fits
    <3>2. CASE ~(i = <<l, tail[l]>> /\ tail[l] # 0)
      <4>1. NoEnd(l)
        BY <2>2, <3>2, TablePairs DEF NoEnd, LifeState
      <4>2. LifeState(l)' = "completed" => up'[l] = up[l]
        BY <2>3, <2>4, <4>1 DEF NoEnd, Waiting
      <4> QED
        BY <4>1, <4>2 DEF Real, TableFits, NoEnd, Fits
    <3> QED
      BY <3>1, <3>2
  <2>6. ASSUME NEW l \in Lab PROVE JournalFits(l)'
    <3>1. CASE journal' = Memory'
      BY <2>5, <3>1, SavedFits
    <3>2. CASE journal' = journal
      BY <2>3, <2>4, <3>2 DEF Real, JournalFits, Fits
    <3> QED
      BY <2>2, <3>1, <3>2
  <2>7. ASSUME NEW n \in Id \ {i} PROVE ResultFits(n)' /\ ProbeFits(n)'
    <3>1. n[1] \in Lab /\ n[2] \in 1..Slots /\ n = <<n[1], n[2]>> /\ job'[n] = job[n]
      BY <2>2, Pairs
    <3>2. CASE up'[n[1]] = up[n[1]]
      BY <3>1, <3>2 DEF Real, ResultFits, ProbeFits, Fits
    <3>3. CASE up'[n[1]] # up[n[1]]
      <4>1. n[1] = b /\ up' # up /\ n[2] # i[2]
        BY <2>1, <2>3, <3>1, <3>3
      <4>2. job[<<b, i[2]>>].stage \in AtWork /\ job[<<b, i[2]>>].action # "detect"
        BY <2>1, <2>3, <4>1 DEF AtWork
      <4>3. job[<<b, n[2]>>].stage \in AtWork => job[<<b, n[2]>>].action = "detect"
        BY <2>1, <3>1, <4>1, <4>2 DEF Showing
      <4>4. job[<<b, n[2]>>].stage \in AtWork /\ job[<<b, n[2]>>].action = "detect" => DetState(b) \in Active
        BY <2>1, <3>1 DEF Showing
      <4>5. job[n].stage \notin AtWork
        BY <2>4, <3>1, <4>1, <4>3, <4>4
      <4> QED
        BY <3>1, <4>5 DEF ResultFits, ProbeFits, AtWork
    <3> QED
      BY <3>2, <3>3
  <2>8. ResultFits(i)' /\ ProbeFits(i)'
    BY <1>1, <2>2, StepEffects DEF ResultFits, ProbeFits, Fits
  <2> QED
    BY <2>5, <2>6, <2>7, <2>8 DEF Real
<1>2. CASE Restart
  <2>1. /\ tail' = [l \in Lab |-> IF journal[l].life # Absent THEN 1 ELSE 0] /\ journal' = Memory'
        /\ 1 \in 1..Slots
    BY <1>2 DEF Restart, Persist
  <2>2. \A n \in Id : job'[n].stage \in {"free", "ended"}
    BY <1>2, RestartStep
  <2>3. ASSUME NEW l \in Lab, LifeState(l)' = "completed"
        PROVE  /\ journal[l].life.state = "completed" /\ tail'[l] = 1
               /\ job'[<<l, 1>>].action = journal[l].life.action
    <3>1. tail'[l] = 1 /\ journal[l].life # Absent /\ LifeState(l)' = job'[<<l, 1>>].state
      BY <2>1, <2>3 DEF LifeState
    <3>2. job'[<<l, 1>>] = Restored(journal[l].life)
      BY <1>2, <2>1, <3>1, Pairs DEF Restart
    <3> QED
      BY <2>3, <3>1, <3>2 DEF Restored, Blank
  <2>4. ASSUME NEW l \in Lab, journal[l].life.state = "completed" PROVE up'[l] = up[l]
    <3> DEFINE cut == {m \in Lab : \E k \in 1..Slots :
                        job[<<m, k>>].stage = "acting" /\ job[<<m, k>>].action # "detect"}
    <3>1. l \notin cut
      BY <2>4, Pairs DEF Journalled, Saving, AtWork
    <3> QED
      BY <1>2, <3>1 DEF Restart
  <2>5. ASSUME NEW l \in Lab PROVE TableFits(l)' /\ JournalFits(l)'
    <3>1. TableFits(l)'
      <4>1. ASSUME LifeState(l)' = "completed"
            PROVE  /\ tail'[l] = 1 /\ journal[l].life.state = "completed"
                   /\ job'[<<l, 1>>].action = journal[l].life.action /\ up'[l] = up[l]
        BY <2>3, <2>4, <4>1
      <4>2. JournalFits(l)
        BY DEF Real
      <4> QED
        BY <4>1, <4>2 DEF TableFits, JournalFits, Fits
    <3> QED
      BY <2>1, <3>1, SavedFits
  <2> QED
    BY <2>2, <2>5 DEF Real, ResultFits, ProbeFits
<1> QED
  BY <1>1, <1>2, RealQuietly, QuietlyStep, NoEndStep, Steps

\* A process that has agreed to shut down has nothing going on.
LEMMA QuietStep == Basics /\ Showing /\ QuietShutdown /\ [Next]_vars => QuietShutdown'
<1> SUFFICES ASSUME Basics, Showing, QuietShutdown, [Next]_vars, gate' = "frozen"
             PROVE  ~agent' /\ \A i \in Id : ~Pending(i)'
  BY DEF QuietShutdown
<1> TypeOK /\ \A n \in Id : Shape(job[n])
  BY DEF Basics
<1>1. \A i \in Id : Pending(i) => job[i].stage \in Before \cup AtWork
  BY DEF Pending, Before, AtWork
<1>2. CASE PrepareShutdown
  <2>1. /\ UNCHANGED <<job, agent>> /\ ~agent
        /\ \A l \in Lab : LifeState(l) \notin Active /\ DetState(l) \notin Active
    BY <1>2 DEF PrepareShutdown, ActiveWork
  <2>2. ASSUME NEW i \in Id PROVE ~Pending(i)
    BY <1>1, <2>1, Pairs DEF Showing, Waiting, Active
  <2> QED
    BY <2>1, <2>2 DEF Pending
<1>4. ASSUME Elsewhere, ~PrepareShutdown PROVE ~agent' /\ \A i \in Id : ~Pending(i)'
  <2>1. gate' = gate /\ job' = job
    BY <1>4 DEF Elsewhere, FindReady, DetectionRefused, AgentStart, AgentEnd, OtherEvent, vars
  <2>2. agent' => agent
    BY <1>4, <2>1 DEF Elsewhere, FindReady, DetectionRefused, AgentStart, AgentEnd, OtherEvent, vars
  <2> QED
    BY <2>1, <2>2 DEF QuietShutdown, Pending
<1>5. CASE Close
  <2>1. gate = "frozen" /\ agent' = agent
    BY <1>5 DEF Close
  <2>2. \A i \in Id : job'[i].stage = job[i].stage
    BY <1>5, CloseStep DEF Alters
  <2> QED
    BY <2>1, <2>2 DEF QuietShutdown, Pending
<1>6. ASSUME NEW l \in Lab, CancelDetection(l) PROVE ~agent' /\ \A i \in Id : ~Pending(i)'
  <2>1. gate = "frozen" /\ agent' = agent
    BY <1>6 DEF CancelDetection
  <2>2. \A i \in Id : job'[i].stage = job[i].stage
    BY <1>6, CancelStep DEF Alters, Moves
  <2> QED
    BY <2>1, <2>2 DEF QuietShutdown, Pending
<1>7. ASSUME NEW i \in Id, Step(i) PROVE FALSE
  <2>1. gate = "frozen" /\ Moves(i)
    BY <1>7, StepMoves DEF Moves
  <2>2. job[i].stage \in Before \cup AtWork /\ job[i].stage # "lost"
    <3>1. job[i].stage \notin After
      <4>1. CASE Take(i)
        <5>1. queue \in Seq(Id) /\ queue # <<>> /\ i = Head(queue)
          BY <4>1 DEF Take, TypeOK
        <5>2. 1 \in DOMAIN queue /\ queue[1] = i
          BY <5>1
        <5> QED
          BY <5>2 DEF Basics, Queued, After
      <4>2. CASE ~Take(i)
        BY <1>7, <4>2 DEF Step, Log, HandOver, BeginCancelled, Begin, BeginDetection, PassPrecheck,
                FailPrecheck, OperateUp, OperateStop, Probe, Settle, After
      <4> QED
        BY <4>1, <4>2
    <3> QED
      BY <1>7, <2>1, <3>1, StepEffects DEF Moves, Live
  <2>3. Pending(i)
    BY <2>2 DEF Pending, Before, AtWork
  <2> QED
    BY <2>1, <2>3 DEF QuietShutdown
<1>8. ASSUME NEW i \in Id, Releases(i) PROVE ~agent' /\ \A n \in Id : ~Pending(n)'
  <2>1. gate = "frozen" /\ agent' = agent /\ Quietly
    BY <1>8, ReleaseStep DEF Releases, Report, Done
  <2>2. \A n \in Id : ~Pending(n)
    BY <2>1 DEF QuietShutdown
  <2>3. ASSUME NEW n \in Id, Pending(n)' PROVE FALSE
    <3>1. job'[n].stage \in Before \cup AtWork /\ job'[n].stage # "lost"
      BY <2>3 DEF Pending, Before, AtWork, Submitting
    <3>2. job'[n].stage = "accepted"
      BY <2>1, <2>2, <2>3, <3>1 DEF Quietly, Same, Pending
    <3>3. job'[n].stage = job[n].stage \/ job'[n].stage \in {"ended", "free"}
      BY <1>8, ReleaseStep
    <3> QED
      BY <2>2, <3>2, <3>3 DEF Pending, Submitting
  <2> QED
    BY <2>1, <2>2, <2>3 DEF QuietShutdown
<1>9. ~Restart /\ (\A l \in Lab, a \in {"up", "stop"} : ~Submit(l, a)) /\ \A l \in Lab : ~SubmitDetection(l)
  BY DEF Restart, Submit, SubmitDetection, MayDetect
<1> QED
  BY <1>2, <1>4, <1>5, <1>6, <1>7, <1>8, <1>9, Steps

-----------------------------------------------------------------------------
(***************************************************************************)
(* The invariant: all of this together.                                    *)
(***************************************************************************)
Safe == Basics /\ Showing /\ Exclusive /\ Journalled /\ Real /\ QuietShutdown

LEMMA SafeAlways == Spec => []Safe
<1>1. Init => Exclusive /\ Journalled /\ Real /\ QuietShutdown
  <2> SUFFICES ASSUME Init PROVE Exclusive /\ Journalled /\ Real /\ QuietShutdown
    OBVIOUS
  <2>1. /\ \A i \in Id : job[i].stage = "free"
        /\ \A l \in Lab : /\ LifeState(l) = "none" /\ DetState(l) = "none"
                         /\ journal[l].life.state = "none"
        /\ gate = "open" /\ ~agent
    BY DEF Init, Blank, LifeState, DetState, Absent
  <2> QED
    BY <2>1 DEF Exclusive, Waiting, Active, Journalled, Saving, Before, AtWork, Submitting, Real,
                TableFits, JournalFits, ResultFits, ProbeFits, QuietShutdown
<1>2. Safe /\ Basics' /\ Showing' /\ [Next]_vars => Safe'
  BY ExclusiveStep, JournalledStep, RealStep, QuietStep DEF Safe
<1>3. Safe /\ [Next]_vars => Basics'
  BY BasicsStep DEF Safe
<1>4. Init => Safe
  BY <1>1, BasicsInit, BasicsShow DEF Safe
<1> QED
  BY <1>2, <1>3, <1>4, BasicsShow, PTL DEF Spec

-----------------------------------------------------------------------------
(***************************************************************************)
(* The lock on the labs and the agent.                                     *)
(***************************************************************************)

\* On a lab one job is at work, and none is while the agent is.
Guarded == /\ \A i, n \in Acting : i[1] = n[1] => i = n
           /\ agent => Acting = {}

LEMMA OneOnLab == Safe => Guarded
<1> SUFFICES ASSUME Safe PROVE Guarded
  OBVIOUS
<1>1. ASSUME NEW l \in Lab, NEW k \in 1..Slots, NEW m \in 1..Slots,
             job[<<l, k>>].stage \in AtWork, job[<<l, m>>].stage \in AtWork
      PROVE  k = m /\ ~agent
  <2>1. \/ job[<<l, k>>].action = "detect" <=> job[<<l, m>>].action = "detect"
        \/ LifeState(l) \in Waiting /\ DetState(l) \in Active
    BY <1>1 DEF Safe, Showing
  <2>2. k = m
    BY <1>1, <2>1 DEF Safe, Showing, Exclusive
  <2>3. LifeState(l) \in Waiting \/ DetState(l) \in Active
    BY <1>1 DEF Safe, Showing
  <2> QED
    BY <2>2, <2>3 DEF Safe, Exclusive
<1>2. \A i \in Acting : /\ i[1] \in Lab /\ i[2] \in 1..Slots /\ i = <<i[1], i[2]>>
                        /\ job[<<i[1], i[2]>>].stage \in AtWork
  BY Pairs DEF Acting, AtWork
<1>3. ASSUME NEW i \in Acting, NEW n \in Acting, i[1] = n[1] PROVE i = n /\ ~agent
  <2>1. /\ i[1] \in Lab /\ i[2] \in 1..Slots /\ n[2] \in 1..Slots
        /\ job[<<i[1], i[2]>>].stage \in AtWork /\ job[<<i[1], n[2]>>].stage \in AtWork
    <3>1. <<n[1], n[2]>> = <<i[1], n[2]>>
      BY <1>3
    <3> QED
      BY <1>2, <3>1
  <2>2. i[2] = n[2] /\ ~agent
    BY <1>1, <2>1
  <2> QED
    BY <1>2, <1>3, <2>2
<1> QED
  BY <1>3 DEF Guarded

\* What a page asks for, what a job does that is over, and a shutdown leave the jobs at
\* work at work.
LEMMA ActingStays ==
  ASSUME Basics, \/ Elsewhere \/ Close
                 \/ \E l \in Lab : CancelDetection(l) \/ SubmitDetection(l)
                 \/ \E l \in Lab, a \in {"up", "stop"} : Submit(l, a)
                 \/ \E i \in Id : Releases(i)
  PROVE  Acting' = Acting
<1>1. \A n \in Id : job'[n].stage = "acting" => job[n].stage = "acting"
  BY QuietlyStep DEF Quietly, Same, AtWork
<1>2. ASSUME NEW n \in Id, job[n].stage = "acting" PROVE job'[n].stage = "acting"
  <2> job \in [Id -> Job] /\ job[n] \in Job
    BY DEF Basics, TypeOK
  <2>1. CASE Elsewhere
    BY <1>2, <2>1 DEF Elsewhere, FindReady, DetectionRefused, AgentStart, AgentEnd, PrepareShutdown,
                OtherEvent, vars
  <2>2. CASE Close
    BY <1>2, <2>2, CloseStep DEF Alters
  <2>3. ASSUME NEW l \in Lab, CancelDetection(l) PROVE job'[n].stage = "acting"
    BY <1>2, <2>3, CancelStep DEF Moves, Alters
  <2>4. ASSUME NEW l \in Lab, SubmitDetection(l) PROVE job'[n].stage = "acting"
    <3>1. n # <<l, FreeSlot(l)>>
      BY <1>2, <2>4, FreeSlots DEF SubmitDetection, FreeIsFree
    <3>2. job'[n] \in {job[n], Forgotten(job[n])}
      BY <2>4, <3>1 DEF SubmitDetection
    <3> QED
      BY <1>2, <3>2 DEF Forgotten
  <2>5. ASSUME NEW l \in Lab, NEW a \in {"up", "stop"}, Submit(l, a)
        PROVE  job'[n].stage = "acting"
    <3>1. n # <<l, FreeSlot(l)>>
      BY <1>2, <2>5, FreeSlots DEF Submit, FreeIsFree
    <3>2. job'[n] \in {job[n], Forgotten(job[n]), [job[n] EXCEPT !.cancel = TRUE]}
      BY <2>5, <3>1 DEF Submit
    <3>3. [job[n] EXCEPT !.cancel = TRUE].stage = "acting"
      BY <1>2 DEF Job
    <3> QED
      BY <1>2, <3>2, <3>3 DEF Forgotten
  <2>6. ASSUME NEW i \in Id, Releases(i) PROVE job'[n].stage = "acting"
    <3>1. n # i /\ Release(i)
      BY <1>2, <2>6 DEF Releases, Report, Done
    <3>2. job'[n] \in {job[n], [job[n] EXCEPT !.prev = 0]}
      BY <3>1 DEF Release
    <3>3. [job[n] EXCEPT !.prev = 0].stage = "acting"
      BY <1>2 DEF Job
    <3> QED
      BY <1>2, <3>2, <3>3
  <2> QED
    BY <2>1, <2>2, <2>3, <2>4, <2>5, <2>6
<1> QED
  BY <1>1, <1>2 DEF Acting

\* A step of a job brings that job to work, or to the end of it, or neither.
LEMMA ActingMoves ==
  ASSUME Basics, NEW i \in Id, Step(i)
  PROVE  Acting' \in {Acting, Acting \cup {i}, Acting \ {i}}
BY StepMoves DEF Moves, Acting

LEMMA GuardStep ==
  ASSUME Basics, Basics', Guarded', [Next]_vars PROVE [Guard!Next]_<<Acting, agent>>
<1> agent \in BOOLEAN /\ agent' \in BOOLEAN
  BY DEF Basics, TypeOK
<1>1. CASE AgentStart \/ AgentEnd
  <2>1. Acting' = Acting
    BY <1>1, ActingStays DEF Elsewhere
  <2>2. CASE AgentStart
    <3>1. ~agent /\ agent' = TRUE
      BY <2>2 DEF AgentStart, ActiveWork
    <3>2. agent' => Acting' = {}
      BY DEF Guarded
    <3> QED
      BY <2>1, <3>1, <3>2 DEF Guard!Next, Guard!AgentBegin
  <2>3. CASE AgentEnd
    BY <2>1, <2>3 DEF AgentEnd, Guard!Next, Guard!AgentEnd
  <2> QED
    BY <1>1, <2>2, <2>3
<1>2. CASE Restart
  <2>1. Acting' = {} /\ agent' = FALSE
    BY <1>2, RestartStep DEF Acting, Restart
  <2> QED
    BY <2>1 DEF Guard!Next, Guard!Exit
<1>3. ASSUME NEW i \in Id, Step(i) PROVE [Guard!Next]_<<Acting, agent>>
  <2>1. agent' = agent
    BY <1>3, StepMoves DEF Moves
  <2>2. CASE i \in Acting /\ Acting' = Acting \ {i}
    BY <2>1, <2>2 DEF Guard!Next, Guard!End
  <2>3. CASE i \notin Acting /\ Acting' = Acting \cup {i}
    <3>1. (\A n \in Acting' : i[1] = n[1] => i = n) /\ ~agent'
      <4>1. \A m, n \in Acting' : m[1] = n[1] => m = n
        BY DEF Guarded
      <4>2. agent' => Acting' = {}
        BY DEF Guarded
      <4> QED
        BY <2>3, <4>1, <4>2
    <3>2. ~agent /\ \A n \in Acting : n[1] # i[1]
      BY <2>1, <2>3, <3>1
    <3>3. i[1] \in Lab /\ i[2] \in 1..Slots /\ Acting' = Acting \cup {<<i[1], i[2]>>}
      BY <2>3, Pairs
    <3> QED
      BY <2>1, <3>2, <3>3 DEF Guard!Next, Guard!Begin
  <2>4. CASE Acting' = Acting
    BY <2>1, <2>4
  <2>5. Acting' \in {Acting, Acting \cup {i}, Acting \ {i}}
    BY <1>3, ActingMoves
  <2> QED
    BY <2>2, <2>3, <2>4, <2>5
<1>4. CASE Acting' = Acting /\ agent' = agent
  BY <1>4
<1>5. CASE \/ Elsewhere \/ Close
           \/ \E l \in Lab : CancelDetection(l) \/ SubmitDetection(l)
           \/ \E l \in Lab, a \in {"up", "stop"} : Submit(l, a)
           \/ \E i \in Id : Releases(i)
  <2>1. Acting' = Acting
    BY <1>5, ActingStays
  <2>2. AgentStart \/ AgentEnd \/ agent' = agent
    BY <1>5 DEF Elsewhere, Close, CancelDetection, SubmitDetection, Submit, Releases, Report, Done,
                FindReady, DetectionRefused, PrepareShutdown, OtherEvent, vars
  <2> QED
    BY <1>1, <1>4, <2>1, <2>2
<1> QED
  BY <1>2, <1>3, <1>5, Steps

-----------------------------------------------------------------------------
(***************************************************************************)
(* The theorems.                                                           *)
(***************************************************************************)
\* The jobs, the tables, the queue and the journal keep their shape.
THEOREM LabType == Spec => []TypeOK
<1>1. Safe => TypeOK
  BY DEF Safe, Basics
<1> QED
  BY <1>1, SafeAlways, PTL

\* However many labs, requests and threads there are, one operation or detection at most
\* is at work on a lab, and none beside the agent.
THEOREM OneActs == Spec => []OneActsOnLab
<1>1. ASSUME Safe PROVE OneActsOnLab
  <2>1. ASSUME NEW l \in Lab, NEW k \in OnLab(l), NEW m \in OnLab(l) PROVE k = m
    <3>1. k \in 1..Slots /\ m \in 1..Slots /\ job[<<l, k>>].stage \in AtWork /\ job[<<l, m>>].stage \in AtWork
      BY DEF OnLab, AtWork
    <3>2. \/ job[<<l, k>>].action = "detect" <=> job[<<l, m>>].action = "detect"
          \/ LifeState(l) \in Waiting /\ DetState(l) \in Active
      BY <1>1, <3>1 DEF Safe, Showing
    <3> QED
      BY <1>1, <3>1, <3>2 DEF Safe, Showing, Exclusive
  <2>2. ASSUME NEW l \in Lab PROVE Cardinality(OnLab(l)) <= 1
    <3>1. CASE OnLab(l) = {}
      BY <3>1, FS_EmptySet
    <3>2. CASE OnLab(l) # {}
      <4>1. PICK k \in OnLab(l) : OnLab(l) = {k}
        BY <2>1, <3>2
      <4>2. Cardinality({k}) = 1
        BY FS_Singleton
      <4> QED
        BY <4>1, <4>2
    <3> QED
      BY <3>1, <3>2
  <2>3. ASSUME agent, NEW l \in Lab PROVE OnLab(l) = {}
    BY <1>1, <2>3 DEF Safe, Showing, Exclusive, OnLab, AtWork
  <2> QED
    BY <2>2, <2>3 DEF OneActsOnLab
<1> QED
  BY <1>1, SafeAlways, PTL

\* A pool with more workers than labs is never full of jobs that wait, for any number of
\* labs, requests and exits: on each lab only the operation in the table may wait, and it
\* waits for one that does not.
THEOREM NoCircularWait == Spec => []WaitersLeaveRoom
<1>1. ASSUME Safe, NEW i \in Id, Waits(i)
      PROVE  /\ i = <<i[1], tail[i[1]]>>
             /\ ~Waits(<<i[1], job[i].prev>>)
             /\ gate = "open" => job[<<i[1], job[i].prev>>].stage \in OnItsWay
  <2> DEFINE p == <<i[1], job[i].prev>>
  <2>1. i[1] \in Lab /\ i[2] \in 1..Slots /\ i = <<i[1], i[2]>> /\ job[i].prev # 0
    BY <1>1, Pairs DEF Waits
  <2>2. Refs(i[1]) /\ TypeOK
    BY <1>1, <2>1 DEF Safe, Basics
  <2>3. i[2] = tail[i[1]] /\ job[p].stage \in Live /\ job[p].action = "up"
    BY <2>1, <2>2 DEF Refs
  <2>4. p \in Id
    BY <2>1, <2>2, Pairs DEF TypeOK, Job
  <2>5. ~Waits(p)
    BY <1>1, <2>3, <2>4 DEF Safe, Basics, Shape, Waits
  <2>6. gate = "open" => job[p].stage # "lost"
    BY <1>1, <2>4 DEF Safe, Basics
  <2> QED
    BY <2>1, <2>3, <2>5, <2>6 DEF Live, Before, AtWork, After, OnItsWay, Working
<1>2. ASSUME Safe PROVE Cardinality({i \in Id : Waits(i)}) <= Cardinality(Lab)
  <2> DEFINE blocked == {i \in Id : Waits(i)}
             lab == [i \in blocked |-> i[1]]
  <2>1. lab \in [blocked -> Lab]
    BY Pairs
  <2>2. ASSUME NEW i \in blocked, NEW n \in blocked, lab[i] = lab[n] PROVE i = n
    BY <1>1, <1>2, <2>2
  <2>3. lab \in Injection(blocked, Lab)
    BY <2>1, <2>2 DEF Injection, IsInjective
  <2> QED
    BY <2>3, FS_Injection
<1>3. ASSUME Safe PROVE WaitersLeaveRoom
  <2>1. Cardinality({i \in Id : Waits(i)}) \in Nat /\ Cardinality(Lab) \in Nat
    <3>0. IsFiniteSet(1..Slots)
      <4>1. Slots \in Int /\ 1 \in Int
        OBVIOUS
      <4> QED
        BY ONLY <4>1, FS_Interval
    <3>1. IsFiniteSet(Id)
      BY <3>0, FS_Product DEF Id
    <3> QED
      BY <3>1, FS_Subset, FS_CardinalityType
  <2>2. Workers > Cardinality(Lab) => Cardinality({i \in Id : Waits(i)}) < Workers
    BY <1>2, <1>3, <2>1
  <2> QED
    BY <1>1, <1>3, <2>2 DEF WaitersLeaveRoom
<1> QED
  BY <1>3, SafeAlways, PTL

\* The queue implements the lock that the labs need, for any number of labs, jobs and
\* threads: begins and ends of work, and exits of the process, are steps of the lock.
THEOREM LabsAreGuarded == Spec => ImplementsGuard
<1>1. Init => Guard!Init
  BY DEF Init, Guard!Init, Acting, Blank
<1>2. Basics /\ Basics' /\ Guarded' /\ [Next]_vars => [Guard!Next]_<<Acting, agent>>
  BY GuardStep
<1>3. Safe => Basics
  BY DEF Safe
<1> QED
  BY <1>1, <1>2, <1>3, OneOnLab, SafeAlways, PTL DEF Spec, ImplementsGuard, Guard!Spec

\* An operation that has completed is what the container is, before and after restarts, and
\* a lab at work is not shown as idle or over, whatever Docker said of the container; as
\* blocked only when Docker did not answer.
THEOREM CompletedIsReal == Spec => []ShownIsReal
<1> DEFINE AtWorkShown(docker) ==
             {"queued", "running", "failed"} \cup (IF docker THEN {} ELSE {"blocked"})
<1>1. ASSUME Safe, NEW l \in Lab
      PROVE  /\ LifeState(l) = "completed" => (job[<<l, tail[l]>>].action = "stop" <=> up[l] = "stopped")
             /\ OnLab(l) # {} => \A docker \in BOOLEAN, status \in Status :
                                   Shown(l, docker, status) \in AtWorkShown(docker)
  <2>1. LifeState(l) = "completed" => (job[<<l, tail[l]>>].action = "stop" <=> up[l] = "stopped")
    BY <1>1 DEF Safe, Real, TableFits, Fits
  <2>2. ASSUME NEW k \in OnLab(l), NEW docker \in BOOLEAN, NEW status \in Status
        PROVE  Shown(l, docker, status) \in AtWorkShown(docker)
    <3>1. k \in 1..Slots /\ job[<<l, k>>].stage \in AtWork
      BY DEF OnLab, AtWork
    <3>2. LifeState(l) \in Waiting \/ DetState(l) \in Active
      BY <1>1, <3>1 DEF Safe, Showing
    <3> QED
      BY <3>2 DEF Shown, OperationShown, Waiting, Active
  <2> QED
    BY <2>1, <2>2
<1>2. Safe => ShownIsReal
  BY <1>1 DEF ShownIsReal
<1> QED
  BY <1>2, SafeAlways, PTL

\* A detection probes only a container that runs.
THEOREM ProbesAreRunning == Spec => []ProbesWhatRuns
<1>1. Safe => ProbesWhatRuns
  BY DEF Safe, Real, ProbeFits, ProbesWhatRuns
<1> QED
  BY <1>1, SafeAlways, PTL

\* A process that has agreed to shut down is quiet, and stays so.
THEOREM ShutdownIsQuiet == Spec => []QuietShutdown
<1>1. Safe => QuietShutdown
  BY DEF Safe
<1> QED
  BY <1>1, SafeAlways, PTL

\* Whatever was logged and not finished when the process exits is shown as failed by the
\* next one.
THEOREM RestartIsHonest == Spec => CutOffIsShown
<1> DEFINE Honest == Restart => \A i \in Id : job[i].stage # "accepted" /\ Pending(i) =>
                       IF job[i].action = "detect" THEN DetState(i[1])' = "failed"
                                                   ELSE LifeState(i[1])' = "failed"
<1>1. ASSUME Safe, Restart, NEW i \in Id, job[i].stage # "accepted", Pending(i)
      PROVE  IF job[i].action = "detect" THEN DetState(i[1])' = "failed"
             ELSE LifeState(i[1])' = "failed"
  <2>1. i[1] \in Lab /\ i[2] \in 1..Slots /\ <<i[1], 1>> \in Id /\ <<i[1], 2>> \in Id
    BY Pairs
  <2>0. job[i].stage \in Saving
    BY <1>1 DEF Pending, Saving, Before, Submitting, AtWork
  <2>2. IF job[i].action = "detect" THEN journal[i[1]].det.state = "active"
        ELSE journal[i[1]].life.state = "active"
    BY <1>1, <2>0, Pairs DEF Safe, Journalled
  <2>3. CASE job[i].action = "detect"
    <3>1. journal[i[1]].det # Absent
      BY <2>2, <2>3 DEF Absent
    <3>2. probe'[i[1]] = 2 /\ job'[<<i[1], 2>>] = Restored(journal[i[1]].det)
      BY <1>1, <2>1, <3>1 DEF Restart
    <3> QED
      BY <2>2, <2>3, <3>2 DEF DetState, Restored, Blank
  <2>4. CASE job[i].action # "detect"
    <3>1. journal[i[1]].life # Absent
      BY <2>2, <2>4 DEF Absent
    <3>2. tail'[i[1]] = 1 /\ job'[<<i[1], 1>>] = Restored(journal[i[1]].life)
      BY <1>1, <2>1, <3>1 DEF Restart
    <3> QED
      BY <2>2, <2>4, <3>2 DEF LifeState, Restored, Blank
  <2> QED
    BY <2>3, <2>4
<1>2. Safe => Honest
  BY <1>1
<1>3. []Safe => [][Honest]_vars
  BY <1>2, PTL
<1> QED
  BY <1>3, SafeAlways, PTL DEF CutOffIsShown
=============================================================================
