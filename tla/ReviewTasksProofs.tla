--------------------------- MODULE ReviewTasksProofs ---------------------------
(***************************************************************************)
(* Theorems about ReviewTasks, for any number of consoles, command-line    *)
(* processes, tasks, approvals and origins.                                *)
(***************************************************************************)
EXTENDS ReviewTasks, TLAPS

USE ReviewAssumption

-----------------------------------------------------------------------------
(***************************************************************************)
(* Type correctness.                                                       *)
(***************************************************************************)

\* A process has a task that exists in hand; shells are at few places, and take no
\* source audits.
Hands ==
  /\ \A p \in Process : hand[p] # NoTask => from[hand[p]] # Nobody
  /\ \A s \in Shell : /\ pc[s] \in {"idle", "local", "queued", "working", "settled", "leaving"}
                      /\ pc[s] # "idle" => KindOfTask(hand[s]) # "source"

Basics == TypeOK /\ Hands

LEMMA SiteType ==
  ASSUME Basics, NEW p \in Process, pc[p] # "idle"
  PROVE  /\ hand[p] \in Task /\ from[hand[p]] \in Approval
         /\ SiteOfTask(hand[p]) \in Target /\ KindOfTask(hand[p]) \in Kind
BY DEF Basics, TypeOK, Hands, SiteOfTask, KindOfTask

LEMMA BasicsInit == Init => Basics
BY DEF Init, Basics, TypeOK, Hands, Process, RowState, RunState, Active, Settled, PC, Contact

\* Where a process may be, and what the tables may say.
LEMMA Words ==
  /\ {"none", "queued", "running", "cancelling", "ended", "failed", "interrupted"} \subseteq RowState
  /\ Settled \subseteq RowState /\ {"none", "created", "running", "over"} \subseteq RunState
  /\ {"claimed", "working", "idle", "setup", "made", "queued", "acquired", "created", "refused",
      "settled", "reporting", "published", "failing", "leaving", "local"} \subseteq PC
BY DEF RowState, RunState, Active, Settled, PC, Contact

\* A process with a task in hand moves to a step, and keeps the task.
Moves(p, step) ==
  /\ pc[p] # "idle" /\ pc' = [pc EXCEPT ![p] = step]
  /\ UNCHANGED <<from, hand, owner>>

LEMMA MovesBasics ==
  ASSUME Basics, NEW p \in Process, NEW step \in PC \ {"idle"}, Moves(p, step),
         p \in Shell => step \in {"queued", "working", "settled", "leaving"},
         key' \in [Approval -> Console \cup {Nobody}],
         row' \in [Task -> RowState], run' \in [Task -> RunState],
         claim' \in [Target -> Holder \cup {NoClaim}], seen' \in [Process -> RowState],
         worked' \in [Task -> SUBSET Process], lab' \subseteq Task
  PROVE  Basics'
<1>1. pc' \in [Process -> PC] /\ pc'[p] = step /\ \A q \in Process \ {p} : pc'[q] = pc[q]
  BY DEF Moves, Basics, TypeOK
<1>2. TypeOK'
  BY <1>1 DEF Moves, Basics, TypeOK
<1>3. Hands'
  BY <1>1 DEF Moves, Basics, Hands, KindOfTask, Process
<1> QED
  BY <1>2, <1>3 DEF Basics

\* A process lets go of its task.
LEMMA LetsGoBasics ==
  ASSUME Basics, NEW p \in Process, LetsGo(p), UNCHANGED <<from, owner>>,
         key' \in [Approval -> Console \cup {Nobody}],
         row' \in [Task -> RowState], run' \in [Task -> RunState],
         claim' \in [Target -> Holder \cup {NoClaim}], worked' = worked,
         lab' \subseteq Task
  PROVE  Basics'
<1>1. /\ pc' \in [Process -> PC] /\ hand' \in [Process -> Task \cup {NoTask}]
      /\ seen' \in [Process -> RowState]
      /\ pc'[p] = "idle" /\ hand'[p] = NoTask
      /\ \A q \in Process \ {p} : pc'[q] = pc[q] /\ hand'[q] = hand[q]
  BY Words DEF LetsGo, Go, Basics, TypeOK
<1>2. TypeOK'
  BY <1>1 DEF Basics, TypeOK
<1>3. Hands'
  BY <1>1 DEF Basics, Hands, KindOfTask, Process
<1> QED
  BY <1>2, <1>3 DEF Basics
\* Rows of exited processes that are marked leave the table a table.
LEMMA MarkedType == ASSUME Basics, NEW but PROVE Marked(but) \in [Task -> RowState]
BY Words DEF Basics, TypeOK, Marked

\* The steps of a process that has a task in hand and keeps it.
Working(p) ==
  \/ Claim(p) \/ ClaimRefused(p) \/ MakeRun(p) \/ Submit(p)
  \/ AcquireRow(p) \/ CreateRun(p)
  \/ (\E st \in Settled : Settle(p, st)) \/ WorkFails(p) \/ Refused(p)
  \/ FinalUpdate(p) \/ Publish(p) \/ Published(p) \/ ReportFails(p) \/ MarkRunFailed(p)
  \/ ShellBlocked(p) \/ ShellEnds(p)

LEMMA WorkingBasics == ASSUME Basics, NEW p \in Process, Working(p) PROVE Basics'
<1> /\ row \in [Task -> RowState] /\ run \in [Task -> RunState]
    /\ claim \in [Target -> Holder \cup {NoClaim}] /\ seen \in [Process -> RowState]
    /\ worked \in [Task -> SUBSET Process] /\ key \in [Approval -> Console \cup {Nobody}]
    /\ Nobody \in Console \cup {Nobody} /\ lab \subseteq Task
  BY DEF Basics, TypeOK
<1> USE DEF RowBecomes, RunBecomes, Go, At, tables
<1>1. pc[p] \notin {"idle", "local"} /\ hand[p] \in Task /\ SiteOfTask(hand[p]) \in Target
  <2>1. pc[p] \notin {"idle", "local"}
    BY DEF Working, Claim, ClaimRefused, MakeRun, Submit, AcquireRow, CreateRun, Settle,
       WorkFails, Refused, FinalUpdate, Publish, Published, ReportFails, MarkRunFailed,
       ShellBlocked, ShellEnds, ToClaim, Prepared
  <2> QED
    BY <2>1, SiteType
<1>2. p \in Shell => pc[p] \in {"queued", "working", "settled", "leaving"} /\ ~Is(p, "source")
  BY <1>1 DEF Basics, Hands, Is
<1>3. CASE MakeRun(p) \/ CreateRun(p)
  <2>1. PICK step \in {"made", "created"} : Moves(p, step)
    BY <1>1, <1>3 DEF MakeRun, CreateRun, Moves
  <2>2. run' \in [Task -> RunState]
    BY <1>3, Words DEF MakeRun, CreateRun
  <2>3. step \in PC \ {"idle"} /\ p \notin Shell
    BY <1>2, <1>3, Words DEF MakeRun, CreateRun
  <2> QED
    BY <1>3, <2>1, <2>2, <2>3, MovesBasics DEF MakeRun, CreateRun
<1>4. CASE Submit(p)
  <2>1. Moves(p, "queued") /\ "queued" \in PC \ {"idle"}
    BY <1>1, <1>4, Words DEF Submit, Moves
  <2>2. key' \in [Approval -> Console \cup {Nobody}]
    BY <1>4 DEF Submit
  <2> QED
    BY <1>4, <2>1, <2>2, MovesBasics DEF Submit
<1>5. CASE Claim(p)
  <2>1. PICK step \in {"working", "claimed"} :
           Moves(p, step) /\ (p \in Shell => step = "working")
    BY <1>1, <1>5 DEF Claim, Moves
  <2>2. run' \in [Task -> RunState]
    BY <1>5, Words DEF Claim, TakeOver
  <2>3. claim' \in [Target -> Holder \cup {NoClaim}]
    <3>1. [task |-> hand[p], by |-> p] \in Holder
      BY <1>1 DEF Holder
    <3> QED
      BY <1>5, <3>1 DEF Claim
  <2>4. worked' \in [Task -> SUBSET Process]
    BY <1>5 DEF Claim
  <2>5. step \in PC \ {"idle"}
    BY Words
  <2> QED
    BY <1>5, <2>1, <2>2, <2>3, <2>4, <2>5, MovesBasics DEF Claim
<1>6. CASE ClaimRefused(p)
  <2>1. PICK step \in {"leaving", "refused"} :
           Moves(p, step) /\ (p \in Shell => step = "leaving")
    BY <1>1, <1>6 DEF ClaimRefused, Moves
  <2>2. step \in PC \ {"idle"}
    BY Words
  <2> QED
    BY <1>6, <2>1, <2>2, MovesBasics DEF ClaimRefused
<1>7. CASE AcquireRow(p)
  <2>1. PICK step \in {"acquired", "working", "refused"} : Moves(p, step)
    BY <1>1, <1>7 DEF AcquireRow, Moves
  <2>2. row' \in [Task -> RowState]
    BY <1>7, Words, MarkedType DEF AcquireRow
  <2>3. step \in PC \ {"idle"} /\ p \notin Shell
    BY <1>2, <1>7, Words DEF AcquireRow
  <2> QED
    BY <1>7, <2>1, <2>2, <2>3, MovesBasics DEF AcquireRow
<1>8. CASE (\E st \in Settled : Settle(p, st)) \/ Refused(p) \/ ReportFails(p)
  <2>1. PICK step \in {"settled", "failing", "leaving"} : Moves(p, step)
    BY <1>1, <1>8 DEF Settle, Refused, ReportFails, Moves
  <2>2. row' \in [Task -> RowState]
    BY <1>8, Words DEF Settle, Refused, ReportFails
  <2>3. step \in PC \ {"idle"} /\ p \notin Shell
    BY <1>2, <1>8, Words DEF Settle, Refused, ReportFails
  <2> QED
    BY <1>8, <2>1, <2>2, <2>3, MovesBasics DEF Settle, Refused, ReportFails
<1>9. CASE WorkFails(p) \/ FinalUpdate(p)
  <2>1. PICK step \in {"refused", "reporting"} : Moves(p, step)
    BY <1>1, <1>9 DEF WorkFails, FinalUpdate, Moves
  <2>2. seen' \in [Process -> RowState]
    BY <1>1, <1>9 DEF WorkFails, FinalUpdate
  <2>3. step \in PC \ {"idle"} /\ p \notin Shell
    BY <1>9, Words DEF WorkFails, FinalUpdate
  <2> QED
    BY <1>9, <2>1, <2>2, <2>3, MovesBasics DEF WorkFails, FinalUpdate
<1>10. CASE Publish(p) \/ Published(p) \/ MarkRunFailed(p)
  <2>1. PICK step \in {"published", "leaving"} : Moves(p, step)
    BY <1>1, <1>10 DEF Publish, Published, MarkRunFailed, Moves
  <2>2. run' \in [Task -> RunState]
    BY <1>10, Words DEF Publish, Published, MarkRunFailed
  <2>3. step \in PC \ {"idle"} /\ p \notin Shell
    BY <1>2, <1>10, Words DEF Publish, Published, MarkRunFailed
  <2> QED
    BY <1>10, <2>1, <2>2, <2>3, MovesBasics DEF Publish, Published, MarkRunFailed
<1>11. CASE ShellBlocked(p) \/ ShellEnds(p)
  <2>1. PICK step \in {"settled", "leaving"} : Moves(p, step)
    BY <1>1, <1>11 DEF ShellBlocked, ShellEnds, Moves
  <2>2. run' \in [Task -> RunState]
    BY <1>11, Words DEF ShellBlocked, ShellEnds
  <2>3. step \in PC \ {"idle"}
    BY Words
  <2> QED
    BY <1>11, <2>1, <2>2, <2>3, MovesBasics DEF ShellBlocked, ShellEnds
<1> QED
  BY <1>3, <1>4, <1>5, <1>6, <1>7, <1>8, <1>9, <1>10, <1>11 DEF Working

\* A process that gets a task, or lets go of one.
Moving(p) ==
  \/ \E a \in Approval, t \in Task : p \in Console /\ CreateRow(p, a, t)
  \/ \E t \in Task : ShellBegin(p, t) \/ RunLocal(p, t)
  \/ SetupFails(p) \/ SubmitFails(p) \/ LocalEnds(p) \/ Leave(p)

LEMMA MovingBasics == ASSUME Basics, NEW p \in Process, Moving(p) PROVE Basics'
<1> /\ row \in [Task -> RowState] /\ run \in [Task -> RunState]
    /\ claim \in [Target -> Holder \cup {NoClaim}] /\ seen \in [Process -> RowState]
    /\ worked \in [Task -> SUBSET Process] /\ key \in [Approval -> Console \cup {Nobody}]
    /\ Nobody \in Console \cup {Nobody} /\ lab \subseteq Task
    /\ pc \in [Process -> PC] /\ hand \in [Process -> Task \cup {NoTask}]
  BY DEF Basics, TypeOK
<1> USE DEF RowBecomes, RunBecomes, Go, At, tables
<1>1. ASSUME NEW a \in Approval, NEW t \in Task, p \in Console /\ CreateRow(p, a, t)
      PROVE  Basics'
  <2>1. row' \in [Task -> RowState]
    BY <1>1, MarkedType, Words DEF CreateRow
  <2>2. /\ from' \in [Task -> Approval \cup {Nobody}] /\ owner' \in [Task -> Process \cup {Nobody}]
        /\ hand' \in [Process -> Task \cup {NoTask}] /\ pc' \in [Process -> PC]
    BY <1>1, Words DEF CreateRow, Process, Basics, TypeOK
  <2>3. /\ hand'[p] = t /\ pc'[p] = "setup" /\ from'[t] = a /\ from[t] = Nobody
        /\ \A q \in Process \ {p} : hand'[q] = hand[q] /\ pc'[q] = pc[q]
        /\ \A u \in Task \ {t} : from'[u] = from[u]
    BY <1>1 DEF CreateRow, Fresh, Unused, Basics, TypeOK
  <2>4. TypeOK'
    BY <1>1, <2>1, <2>2, <2>3 DEF CreateRow, Basics, TypeOK
  <2>5. ASSUME NEW q \in Process \ {p}, hand'[q] # NoTask
        PROVE  hand[q] \in Task /\ hand[q] # t /\ from'[hand[q]] = from[hand[q]]
    BY <2>3, <2>5 DEF Basics, TypeOK, Hands
  <2>6. \A q \in Process : hand'[q] # NoTask => from'[hand'[q]] # Nobody
    BY <2>3, <2>5 DEF Basics, Hands
  <2>7. ASSUME NEW s \in Shell, pc'[s] # "idle"
        PROVE  KindOfTask(hand[s])' # "source"
    <3>1. s \in Process \ {p} /\ pc[s] # "idle"
      BY <1>1, <2>3, <2>7 DEF Process
    <3>2. hand'[s] = hand[s] /\ hand[s] # NoTask /\ KindOfTask(hand[s]) # "source"
      BY <2>3, <3>1 DEF Basics, TypeOK, Hands
    <3> QED
      BY <2>5, <3>1, <3>2 DEF KindOfTask
  <2>8. Hands'
    BY <1>1, <2>3, <2>6, <2>7 DEF Basics, Hands, Process
  <2> QED
    BY <2>4, <2>8 DEF Basics
<1>2. ASSUME NEW t \in Task, ShellBegin(p, t) \/ RunLocal(p, t) PROVE Basics'
  <2>1. hand' \in [Process -> Task \cup {NoTask}] /\ pc' \in [Process -> PC]
    BY <1>2, Words DEF ShellBegin, RunLocal
  <2>2. /\ hand'[p] = t /\ pc'[p] \in {"queued", "local"} /\ from[t] # Nobody /\ from' = from
        /\ KindOfTask(t) # "source"
        /\ \A q \in Process \ {p} : hand'[q] = hand[q] /\ pc'[q] = pc[q]
    BY <1>2 DEF ShellBegin, RunLocal, Unused
  <2>3. TypeOK'
    <3>1. run' \in [Task -> RunState] /\ lab' \subseteq Task
      BY <1>2, Words DEF ShellBegin, RunLocal
    <3> QED
      BY <1>2, <2>1, <2>2, <3>1 DEF ShellBegin, RunLocal, Basics, TypeOK
  <2>4. Hands'
    BY <1>2, <2>1, <2>2 DEF Basics, Hands, KindOfTask, Process
  <2> QED
    BY <2>3, <2>4 DEF Basics
<1>3. CASE SetupFails(p) \/ SubmitFails(p) \/ LocalEnds(p) \/ Leave(p)
  <2>1. LetsGo(p) /\ UNCHANGED <<from, owner, worked>>
    BY <1>3 DEF SetupFails, SubmitFails, LocalEnds, Leave
  <2>2. row' \in [Task -> RowState] /\ run' \in [Task -> RunState] /\ lab' \subseteq Task
    BY <1>3, Words DEF SetupFails, SubmitFails, LocalEnds, Leave
  <2>3. key' \in [Approval -> Console \cup {Nobody}]
    BY <1>3 DEF SetupFails, SubmitFails, LocalEnds, Leave
  <2>4. claim' \in [Target -> Holder \cup {NoClaim}]
    BY <1>3 DEF SetupFails, SubmitFails, LocalEnds, Leave
  <2> QED
    BY <2>1, <2>2, <2>3, <2>4, LetsGoBasics
<1> QED
  BY <1>1, <1>2, <1>3 DEF Moving

\* What happens around the workers.
Around ==
  \/ \E a \in Approval, t \in Task : NewRun(a, t)
  \/ \E c \in Console : CancelRun(c)
  \/ (\E t \in Task : StopRun(t)) \/ Poll
  \/ \E p \in Process : Crash(p)

LEMMA AroundBasics == ASSUME Basics, Around PROVE Basics'
<1> USE DEF RowBecomes, RunBecomes
<1>1. ASSUME NEW a \in Approval, NEW t \in Task, NewRun(a, t) PROVE Basics'
  <2>1. from[t] = Nobody /\ from' = [from EXCEPT ![t] = a] /\ run' = [run EXCEPT ![t] = "created"]
        /\ UNCHANGED <<key, row, owner, claim, pc, hand, seen, worked>>
        /\ lab' = lab \ {t}
    BY <1>1 DEF NewRun, Fresh, Unused, worker
  <2>2. TypeOK'
    BY <2>1, Words DEF Basics, TypeOK
  <2>3. Hands'
    BY <2>1 DEF Basics, Hands, KindOfTask, TypeOK, Process
  <2> QED
    BY <2>2, <2>3 DEF Basics
<1>2. ASSUME row' \in [Task -> RowState], run' \in [Task -> RunState],
             lab' \subseteq Task, UNCHANGED <<key, from, owner, claim, worker, worked>>
      PROVE  Basics'
  BY <1>2 DEF worker, Basics, TypeOK, Hands, KindOfTask
<1>3. ASSUME NEW c \in Console, CancelRun(c) PROVE Basics'
  BY <1>2, <1>3, Words DEF CancelRun, worker, Basics, TypeOK
<1>4. ASSUME NEW t \in Task, StopRun(t) PROVE Basics'
  BY <1>2, <1>4, Words DEF StopRun, worker, Basics, TypeOK
<1>5. CASE Poll
  BY <1>2, <1>5, MarkedType DEF Poll, worker, Basics, TypeOK
<1>6. ASSUME NEW p \in Process, Crash(p) PROVE Basics'
  <2>1. /\ pc' \in [Process -> PC] /\ hand' \in [Process -> Task \cup {NoTask}]
        /\ seen' \in [Process -> RowState] /\ owner' \in [Task -> Process \cup {Nobody}]
        /\ key' \in [Approval -> Console \cup {Nobody}]
        /\ pc'[p] = "idle" /\ hand'[p] = NoTask
        /\ \A q \in Process \ {p} : pc'[q] = pc[q] /\ hand'[q] = hand[q]
    BY <1>6, Words DEF Crash, Basics, TypeOK
  <2>2. claim' \in [Target -> Holder \cup {NoClaim}]
    <3>1. ASSUME NEW h \in Holder PROVE [h EXCEPT !.by = Nobody] \in Holder
      BY DEF Holder
    <3>2. ASSUME NEW o \in Target PROVE claim'[o] \in Holder \cup {NoClaim}
      <4>1. CASE claim[o].by = p
        <5>1. claim[o] # NoClaim
          BY <4>1 DEF NoClaim
        <5>2. claim[o] \in Holder
          BY <5>1 DEF Basics, TypeOK
        <5> QED
          BY <1>6, <3>1, <4>1, <5>2 DEF Crash
      <4>2. CASE claim[o].by # p
        BY <1>6, <4>2 DEF Crash, Basics, TypeOK
      <4> QED
        BY <4>1, <4>2
    <3>3. claim' = [o \in Target |-> claim'[o]]
      BY <1>6 DEF Crash
    <3> QED
      BY <3>2, <3>3
  <2>3. UNCHANGED <<from, row, run, worked, lab>>
    BY <1>6 DEF Crash
  <2>4. TypeOK'
    BY <2>1, <2>2, <2>3 DEF Basics, TypeOK
  <2>5. Hands'
    BY <2>1, <2>3 DEF Basics, Hands, KindOfTask, Process
  <2> QED
    BY <2>4, <2>5 DEF Basics
<1> QED
  BY <1>1, <1>3, <1>4, <1>5, <1>6 DEF Around

\* Every step is one of these.
LEMMA Steps == Next <=> Around \/ \E p \in Process : Working(p) \/ Moving(p)
BY DEF Next, Around, Working, Moving, WorkerStep, StartAsked, Process, ShellBegin, RunLocal

LEMMA BasicsStep == Basics /\ [Next]_vars => Basics'
<1> SUFFICES ASSUME Basics, [Next]_vars PROVE Basics'
  OBVIOUS
<1>1. CASE UNCHANGED vars
  BY <1>1 DEF vars, tables, worker, Basics, TypeOK, Hands, KindOfTask
<1>2. ASSUME NEW p \in Process, Working(p) PROVE Basics'
  BY <1>2, WorkingBasics
<1>3. ASSUME NEW p \in Process, Moving(p) PROVE Basics'
  BY <1>3, MovingBasics
<1>4. CASE Around
  BY <1>4, AroundBasics
<1> QED
  BY <1>1, <1>2, <1>3, <1>4, Steps

LEMMA BasicsAlways == Spec => []Basics
BY BasicsInit, BasicsStep, PTL DEF Spec
-----------------------------------------------------------------------------
(***************************************************************************)
(* A step of one process leaves the others where they are.                 *)
(***************************************************************************)

LEMMA WorkingKeeps ==
  ASSUME Basics, NEW p \in Process, Working(p)
  PROVE  /\ UNCHANGED <<from, hand, owner>>
         /\ pc[p] # "idle" /\ pc'[p] # "idle"
         /\ \A q \in Process \ {p} : pc'[q] = pc[q] /\ seen'[q] = seen[q]
<1> USE DEF Go, At, tables, Basics, TypeOK
<1>1. CASE Claim(p) \/ ClaimRefused(p) \/ MakeRun(p) \/ Submit(p)
  BY <1>1 DEF Claim, ClaimRefused, MakeRun, Submit, ToClaim, Prepared
<1>2. CASE AcquireRow(p) \/ CreateRun(p) \/ WorkFails(p) \/ Refused(p)
  BY <1>2 DEF AcquireRow, CreateRun, WorkFails, Refused
<1>3. CASE FinalUpdate(p) \/ Publish(p) \/ Published(p) \/ ReportFails(p) \/ MarkRunFailed(p)
  BY <1>3 DEF FinalUpdate, Publish, Published, ReportFails, MarkRunFailed
<1>4. CASE \E st \in Settled : Settle(p, st)
  BY <1>4 DEF Settle
<1>5. CASE ShellBlocked(p) \/ ShellEnds(p)
  BY <1>5 DEF ShellBlocked, ShellEnds
<1> QED
  BY <1>1, <1>2, <1>3, <1>4, <1>5 DEF Working

LEMMA MovingKeeps ==
  ASSUME Basics, NEW p \in Process, Moving(p)
  PROVE  \A q \in Process \ {p} :
           /\ pc'[q] = pc[q] /\ hand'[q] = hand[q] /\ seen'[q] = seen[q]
           /\ hand[q] # NoTask => from'[hand[q]] = from[hand[q]]
<1> SUFFICES ASSUME NEW q \in Process \ {p}
             PROVE  /\ pc'[q] = pc[q] /\ hand'[q] = hand[q] /\ seen'[q] = seen[q]
                    /\ hand[q] # NoTask => from'[hand[q]] = from[hand[q]]
  OBVIOUS
<1> /\ pc \in [Process -> PC] /\ hand \in [Process -> Task \cup {NoTask}]
    /\ seen \in [Process -> RowState] /\ from \in [Task -> Approval \cup {Nobody}]
    /\ hand[q] # NoTask => from[hand[q]] # Nobody
  BY DEF Basics, TypeOK, Hands
<1> USE DEF Go, At, tables
<1>1. ASSUME NEW a \in Approval, NEW t \in Task, CreateRow(p, a, t)
      PROVE  /\ pc'[q] = pc[q] /\ hand'[q] = hand[q] /\ seen'[q] = seen[q]
             /\ hand[q] # NoTask => from'[hand[q]] = from[hand[q]]
  BY <1>1 DEF CreateRow, Fresh, Unused
<1>2. ASSUME NEW t \in Task, ShellBegin(p, t) \/ RunLocal(p, t)
      PROVE  /\ pc'[q] = pc[q] /\ hand'[q] = hand[q] /\ seen'[q] = seen[q]
             /\ hand[q] # NoTask => from'[hand[q]] = from[hand[q]]
  BY <1>2 DEF ShellBegin, RunLocal
<1>3. CASE SetupFails(p) \/ SubmitFails(p) \/ LocalEnds(p) \/ Leave(p)
  BY <1>3 DEF SetupFails, SubmitFails, LocalEnds, Leave, LetsGo
<1> QED
  BY <1>1, <1>2, <1>3 DEF Moving

-----------------------------------------------------------------------------
(***************************************************************************)
(* The lock: who may contact a target holds its claim, and nobody takes a  *)
(* claim that is held.                                                     *)
(***************************************************************************)

Leased == \A p \in Process : pc[p] \in Contact => HasLease(p)

LEMMA LeaseNames ==
  ASSUME NEW p, HasLease(p)
  PROVE  claim[SiteOfTask(hand[p])].by = p /\ claim[SiteOfTask(hand[p])].task = hand[p]
<1>1. PICK h : h = claim[SiteOfTask(hand[p])]
  OBVIOUS
<1>2. h = [task |-> hand[p], by |-> p]
  BY <1>1 DEF HasLease
<1>3. h.by = p /\ h.task = hand[p]
  BY <1>2
<1> QED
  BY <1>1, <1>3

\* A process that moves keeps its claim as long as its task and the claim stay.
LEMMA LeaseStays ==
  ASSUME Basics, NEW q \in Process, HasLease(q), hand[q] # NoTask, hand'[q] = hand[q],
         from'[hand[q]] = from[hand[q]],
         claim'[SiteOfTask(hand[q])] = claim[SiteOfTask(hand[q])]
  PROVE  HasLease(q)'
BY DEF HasLease, SiteOfTask

LEMMA LeasedStep == Basics /\ Leased /\ [Next]_vars => Leased'
<1> SUFFICES ASSUME Basics, Leased, [Next]_vars PROVE Leased'
  OBVIOUS
<1> /\ pc \in [Process -> PC] /\ hand \in [Process -> Task \cup {NoTask}]
    /\ claim \in [Target -> Holder \cup {NoClaim}] /\ from \in [Task -> Approval \cup {Nobody}]
  BY DEF Basics, TypeOK
<1>0. ASSUME NEW q \in Process, pc[q] \in Contact
      PROVE  /\ HasLease(q) /\ hand[q] # NoTask /\ hand[q] \in Task
             /\ SiteOfTask(hand[q]) \in Target /\ from[hand[q]] # Nobody
  BY <1>0, SiteType DEF Leased, Contact, Basics, TypeOK, Hands
<1>1. CASE UNCHANGED vars
  BY <1>1 DEF vars, tables, worker, Leased, HasLease, SiteOfTask
<1>2. ASSUME NEW p \in Process, Working(p), claim' = claim, pc'[p] \in Contact => pc[p] \in Contact
      PROVE  Leased'
  BY <1>0, <1>2, WorkingKeeps, LeaseStays DEF Leased
<1>3. ASSUME NEW p \in Process, Claim(p) PROVE Leased'
  <2>1. /\ claim' = [claim EXCEPT ![SiteOfTask(hand[p])] = [task |-> hand[p], by |-> p]]
        /\ claim[SiteOfTask(hand[p])].by = Nobody
    BY <1>3 DEF Claim, MayClaim
  <2>2. Working(p) /\ UNCHANGED <<from, hand>>
    BY <1>3, WorkingKeeps DEF Working
  <2>3. HasLease(p)'
    <3>1. SiteOfTask(hand[p]) \in Target
      BY <1>3, SiteType DEF Claim, ToClaim, At
    <3> QED
      BY <2>1, <2>2, <3>1 DEF HasLease, SiteOfTask
  <2>4. ASSUME NEW q \in Process \ {p}, pc'[q] \in Contact PROVE HasLease(q)'
    <3>1. pc[q] \in Contact
      BY <2>2, <2>4, WorkingKeeps
    <3>2. claim[SiteOfTask(hand[q])].by = q
      BY <1>0, <3>1, LeaseNames
    <3>3. SiteOfTask(hand[q]) # SiteOfTask(hand[p])
      BY <2>1, <3>2
    <3> QED
      BY <1>0, <2>1, <2>2, <3>1, <3>3, LeaseStays
  <2> QED
    BY <2>3, <2>4 DEF Leased
<1>4. ASSUME NEW p \in Process, Working(p) PROVE Leased'
  <2>1. CASE ClaimRefused(p) \/ MakeRun(p) \/ Submit(p) \/ CreateRun(p) \/ WorkFails(p)
    BY <1>2, <1>4, <2>1 DEF ClaimRefused, MakeRun, Submit, CreateRun, WorkFails, Go, tables, Contact
  <2>2. CASE AcquireRow(p)
    BY <1>2, <1>4, <2>2 DEF AcquireRow, At, Go, Contact
  <2>3. CASE Refused(p) \/ FinalUpdate(p) \/ Publish(p) \/ Published(p)
    BY <1>2, <1>4, <2>3 DEF Refused, FinalUpdate, Publish, Published, Go, tables, Contact
  <2>4. CASE ReportFails(p) \/ MarkRunFailed(p) \/ ShellBlocked(p)
    BY <1>2, <1>4, <2>4 DEF ReportFails, MarkRunFailed, ShellBlocked, Go, Contact
  <2>5. CASE (\E st \in Settled : Settle(p, st)) \/ ShellEnds(p)
    BY <1>2, <1>4, <2>5 DEF Settle, ShellEnds, Go, Contact
  <2> QED
    BY <1>3, <1>4, <2>1, <2>2, <2>3, <2>4, <2>5 DEF Working
<1>5. ASSUME NEW p \in Process, Moving(p) PROVE Leased'
  <2>1. pc'[p] \notin Contact
    BY <1>5 DEF Moving, CreateRow, ShellBegin, RunLocal, SetupFails, SubmitFails, LocalEnds,
       Leave, LetsGo, Go, Contact
  <2>2. ASSUME NEW q \in Process \ {p}, pc[q] \in Contact
        PROVE  claim'[SiteOfTask(hand[q])] = claim[SiteOfTask(hand[q])]
    <3>1. CASE Leave(p)
      <4>1. CASE HasLease(p)
        <5>1. claim' = [claim EXCEPT ![SiteOfTask(hand[p])] = NoClaim]
          BY <3>1, <4>1 DEF Leave
        <5>2. claim[SiteOfTask(hand[p])].by = p /\ claim[SiteOfTask(hand[q])].by = q
          BY <1>0, <2>2, <4>1, LeaseNames
        <5> QED
          BY <5>1, <5>2
      <4>2. CASE ~HasLease(p)
        BY <3>1, <4>2 DEF Leave
      <4> QED
        BY <4>1, <4>2
    <3>2. CASE ~Leave(p)
      BY <1>5, <3>2 DEF Moving, CreateRow, ShellBegin, RunLocal, SetupFails, SubmitFails, LocalEnds
    <3> QED
      BY <3>1, <3>2
  <2> QED
    BY <1>0, <1>5, <2>1, <2>2, MovingKeeps, LeaseStays DEF Leased
<1>6. ASSUME NEW p \in Process, Crash(p) PROVE Leased'
  <2>1. /\ pc'[p] = "idle" /\ UNCHANGED from
        /\ \A q \in Process \ {p} : pc'[q] = pc[q] /\ hand'[q] = hand[q]
    BY <1>6 DEF Crash
  <2>2. ASSUME NEW q \in Process \ {p}, pc[q] \in Contact
        PROVE  claim'[SiteOfTask(hand[q])] = claim[SiteOfTask(hand[q])]
    <3>1. claim[SiteOfTask(hand[q])].by = q /\ SiteOfTask(hand[q]) \in Target
      BY <1>0, <2>2, LeaseNames
    <3> QED
      BY <1>6, <3>1 DEF Crash
  <2> QED
    BY <1>0, <2>1, <2>2, LeaseStays DEF Leased, Contact
<1>7. ASSUME NEW a \in Approval, NEW t \in Task, NewRun(a, t) PROVE Leased'
  <2>1. UNCHANGED <<pc, hand, claim>> /\ \A u \in Task : from[u] # Nobody => from'[u] = from[u]
    BY <1>7 DEF NewRun, Fresh, Unused, worker
  <2> QED
    BY <1>0, <2>1, LeaseStays DEF Leased
<1>8. CASE UNCHANGED <<pc, hand, claim, from>>
  BY <1>8 DEF Leased, HasLease, SiteOfTask
<1> QED
  BY <1>1, <1>4, <1>5, <1>6, <1>7, <1>8, Steps
  DEF Around, CancelRun, StopRun, Poll, worker

LEMMA LeasedInit == Init => Leased
BY DEF Init, Leased, Contact

\* Two processes that may contact the same target are one.
OneContact == \A o \in Target : \A x, y \in Contacting(o) : x = y

LEMMA LeasedIsOne == Basics /\ Leased => OneContact
<1> SUFFICES ASSUME Basics, Leased, NEW o \in Target, NEW x \in Contacting(o),
                    NEW y \in Contacting(o)
             PROVE  x = y
  BY DEF OneContact
<1>1. PICK p \in Process : x = <<p, o>> /\ pc[p] \in Contact /\ SiteOfTask(hand[p]) = o
  BY DEF Contacting
<1>2. PICK q \in Process : y = <<q, o>> /\ pc[q] \in Contact /\ SiteOfTask(hand[q]) = o
  BY DEF Contacting
<1>3. claim[o].by = p /\ claim[o].by = q
  BY <1>1, <1>2, LeaseNames DEF Leased
<1> QED
  BY <1>1, <1>2, <1>3

\* A step of a process that is not at work on a target, and does not come to it, leaves
\* the set as it is.
LEMMA ContactStays ==
  ASSUME Basics, NEW o \in Target, NEW p \in Process,
         \A q \in Process \ {p} : pc'[q] = pc[q] /\ hand'[q] = hand[q]
                                  /\ (hand[q] # NoTask => from'[hand[q]] = from[hand[q]])
  PROVE  /\ \A q \in Process \ {p} : <<q, o>> \in Contacting(o)' <=> <<q, o>> \in Contacting(o)
         /\ \A x \in Contacting(o)' \cup Contacting(o) : \E q \in Process : x = <<q, o>>
<1>1. ASSUME NEW q \in Process \ {p}
      PROVE  <<q, o>> \in Contacting(o)' <=> <<q, o>> \in Contacting(o)
  <2>1. pc[q] \in Contact => hand[q] # NoTask
    BY DEF Basics, TypeOK, Contact
  <2>2. /\ <<q, o>> \in Contacting(o)  <=> pc[q] \in Contact /\ SiteOfTask(hand[q]) = o
        /\ <<q, o>> \in Contacting(o)' <=> pc'[q] \in Contact /\ SiteOfTask(hand[q])' = o
    BY DEF Contacting
  <2> QED
    BY <2>1, <2>2 DEF SiteOfTask
<1> QED
  BY <1>1 DEF Contacting

\* The set of those who may contact a target has at most one element, and one process at
\* a time comes or goes: that is a step of the lock.
LEMMA LockStep ==
  ASSUME Basics, OneContact, OneContact', NEW o \in Target, [Next]_vars
  PROVE  [Lock(o)!Next]_(Contacting(o))
<1>1. ASSUME NEW p \in Process,
             \A q \in Process \ {p} : pc'[q] = pc[q] /\ hand'[q] = hand[q]
                                      /\ (hand[q] # NoTask => from'[hand[q]] = from[hand[q]])
      PROVE  [Lock(o)!Next]_(Contacting(o))
  <2>1. /\ \A q \in Process \ {p} : <<q, o>> \in Contacting(o)' <=> <<q, o>> \in Contacting(o)
        /\ \A x \in Contacting(o)' \cup Contacting(o) : \E q \in Process : x = <<q, o>>
    BY <1>1, ContactStays
  <2>2. \A x, y \in Contacting(o) : x = y
    BY DEF OneContact
  <2>3. \A x, y \in Contacting(o)' : x = y
    BY DEF OneContact
  <2>4. CASE <<p, o>> \in Contacting(o) <=> <<p, o>> \in Contacting(o)'
    <3>1. \A q \in Process : <<q, o>> \in Contacting(o)' <=> <<q, o>> \in Contacting(o)
      BY <2>1, <2>4
    <3>2. \A x : x \in Contacting(o)' <=> x \in Contacting(o)
      BY <2>1, <3>1
    <3>3. Contacting(o)' = Contacting(o)
      BY <3>2
    <3> QED
      BY <3>3
  <2>5. CASE <<p, o>> \in Contacting(o) /\ <<p, o>> \notin Contacting(o)'
    <3>1. Contacting(o) # {} /\ Contacting(o)' = {}
      BY <2>1, <2>2, <2>5
    <3> QED
      BY <3>1 DEF Lock!Next, Lock!Yield
  <2>6. CASE <<p, o>> \notin Contacting(o) /\ <<p, o>> \in Contacting(o)'
    <3>1. Contacting(o) = {} /\ Contacting(o)' = {<<p, o>>}
      BY <2>1, <2>3, <2>6
    <3> QED
      BY <3>1 DEF Lock!Next, Lock!Claim
  <2> QED
    BY <2>4, <2>5, <2>6
<1>2. ASSUME NEW p \in Process, Working(p) \/ Moving(p) PROVE [Lock(o)!Next]_(Contacting(o))
  <2>1. CASE Working(p)
    BY <1>1, <2>1, WorkingKeeps
  <2>2. CASE Moving(p)
    BY <1>1, <2>2, MovingKeeps
  <2> QED
    BY <1>2, <2>1, <2>2
<1>3. ASSUME NEW p \in Process, Crash(p) PROVE [Lock(o)!Next]_(Contacting(o))
  BY <1>1, <1>3 DEF Crash
<1>4. CASE UNCHANGED <<pc, hand, from>>
  BY <1>4 DEF Contacting, SiteOfTask
<1>5. ASSUME NEW a \in Approval, NEW t \in Task, NewRun(a, t)
      PROVE  [Lock(o)!Next]_(Contacting(o))
  <2>1. UNCHANGED <<pc, hand>> /\ \A u \in Task : from[u] # Nobody => from'[u] = from[u]
    BY <1>5 DEF NewRun, Fresh, Unused, worker, Basics, TypeOK
  <2>2. \A q \in Process : pc'[q] = pc[q] /\ hand'[q] = hand[q]
                           /\ (hand[q] # NoTask => from'[hand[q]] = from[hand[q]])
    BY <2>1 DEF Basics, TypeOK, Hands
  <2>3. CASE Process = {}
    BY <2>3 DEF Contacting
  <2> QED
    BY <1>1, <2>2, <2>3
<1> QED
  BY <1>2, <1>3, <1>4, <1>5, Steps DEF Around, CancelRun, StopRun, Poll, worker, vars, tables

\* For each target the claims implement the lock: at most one process may contact it, on
\* one task, and it passes from one to the next only through a moment when nobody does.
THEOREM ClaimsImplementLock == Spec => ImplementsLock
<1>1. Init => \A o \in Target : Lock(o)!Init
  BY DEF Init, Lock!Init, Contacting, Contact
<1>2. Basics /\ OneContact /\ OneContact' /\ [Next]_vars
        => [\A o \in Target : [Lock(o)!Next]_(Contacting(o))]_vars
  BY LockStep
<1> QED
  BY <1>1, <1>2, BasicsAlways, LeasedInit, LeasedStep, LeasedIsOne, PTL DEF Spec, ImplementsLock
-----------------------------------------------------------------------------
(***************************************************************************)
(* A run is made once and worked on once.  What stays to be made is not    *)
(* made yet, and what has been worked on never goes back to "created".     *)
(***************************************************************************)

\* The run of the task is still to be made by this console.
ToMake(c) ==
  \/ pc[c] \in {"setup", "acquired"}
  \/ pc[c] = "queued" /\ Is(c, "source")

Made ==
  /\ \A t \in Task : worked[t] # {} => run[t] \notin {"none", "created"}
  /\ \A t \in Task : from[t] = Nobody => run[t] = "none" /\ worked[t] = {}
  /\ \A t \in Task : \A p, q \in worked[t] : p = q
  /\ \A c \in Console : ToMake(c) => run[hand[c]] = "none"
  /\ \A c \in Console : pc[c] \in {"made", "claimed"} => ~Is(c, "source")
  /\ \A s \in Shell : pc[s] \in {"working", "settled"} => s \in worked[hand[s]]
  /\ \A s \in Shell : pc[s] = "local" => run[hand[s]] # "none"
  /\ \A c, d \in Console : hand[c] = hand[d] /\ hand[c] # NoTask => c = d

\* What a process at work does to the runs: of the others it marks at most one that was
\* running; its own it makes if that is still to be done.
LEMMA RunMoves ==
  ASSUME Basics, Made, NEW p \in Process, Working(p)
  PROVE  /\ \A t \in Task : t # hand[p] =>
              run'[t] = run[t] \/ (run[t] = "running" /\ run'[t] = "over")
         /\ run'[hand[p]] = "none" => run[hand[p]] = "none"
         /\ run'[hand[p]] = "created" => run[hand[p]] \in {"none", "created"}
         /\ p \in Shell /\ run[hand[p]] = "none" => run'[hand[p]] = "none"
         /\ worked' # worked =>
              /\ run[hand[p]] = "created" /\ run'[hand[p]] = "running"
              /\ worked' = [worked EXCEPT ![hand[p]] = @ \cup {p}]
<1> DEFINE Goal == /\ \A t \in Task : t # hand[p] =>
                        run'[t] = run[t] \/ (run[t] = "running" /\ run'[t] = "over")
                   /\ run'[hand[p]] = "none" => run[hand[p]] = "none"
                   /\ run'[hand[p]] = "created" => run[hand[p]] \in {"none", "created"}
                   /\ p \in Shell /\ run[hand[p]] = "none" => run'[hand[p]] = "none"
                   /\ worked' # worked =>
                        /\ run[hand[p]] = "created" /\ run'[hand[p]] = "running"
                        /\ worked' = [worked EXCEPT ![hand[p]] = @ \cup {p}]
<1>1. /\ hand[p] \in Task /\ run \in [Task -> RunState] /\ pc[p] # "idle"
      /\ p \in Shell => pc[p] \in {"local", "queued", "working", "settled", "leaving"}
  BY WorkingKeeps DEF Basics, TypeOK, Hands
<1>2. CASE UNCHANGED <<run, worked>>
  BY <1>2
<1>3. CASE Claim(p)
  <2>1. /\ run' = TakeOver(p) /\ run[hand[p]] = "created"
        /\ worked' = [worked EXCEPT ![hand[p]] = @ \cup {p}]
    BY <1>3 DEF Claim, MayClaim
  <2>2. run'[hand[p]] = "running"
    BY <1>1, <2>1 DEF TakeOver
  <2>3. ASSUME NEW t \in Task, t # hand[p]
        PROVE  run'[t] = run[t] \/ (run[t] = "running" /\ run'[t] = "over")
    BY <2>1, <2>3 DEF TakeOver
  <2> QED
    BY <2>1, <2>2, <2>3
<1>4. CASE MakeRun(p) \/ CreateRun(p)
  <2>1. /\ run' = [run EXCEPT ![hand[p]] = "created"] /\ worked' = worked
        /\ pc[p] \in {"setup", "acquired"} /\ p \in Console
    BY <1>1, <1>4 DEF MakeRun, CreateRun, RunBecomes, At, Process
  <2>2. run[hand[p]] = "none"
    BY <2>1 DEF Made, ToMake
  <2> QED
    BY <1>1, <2>1, <2>2
<1>5. ASSUME NEW st \in {"running", "over"}, run' = [run EXCEPT ![hand[p]] = st],
             worked' = worked, p \in Shell => pc[p] \in {"working", "settled"}
      PROVE  Goal
  <2>1. p \in Shell => run[hand[p]] # "none"
    BY <1>1, <1>5 DEF Made
  <2> QED
    BY <1>1, <1>5, <2>1
<1>6. CASE Publish(p) \/ MarkRunFailed(p)
  <2>1. p \notin Shell /\ worked' = worked
    BY <1>1, <1>6 DEF Publish, MarkRunFailed, At
  <2>2. \/ run' = run \/ run' = [run EXCEPT ![hand[p]] = "running"]
        \/ run' = [run EXCEPT ![hand[p]] = "over"]
    BY <1>6 DEF Publish, MarkRunFailed, RunBecomes
  <2> QED
    BY <1>2, <1>5, <2>1, <2>2
<1>7. CASE ShellBlocked(p) \/ ShellEnds(p)
  <2>1. /\ run' = [run EXCEPT ![hand[p]] = "over"] /\ worked' = worked
        /\ pc[p] \in {"working", "settled"}
    BY <1>7 DEF ShellBlocked, ShellEnds, RunBecomes, At
  <2> QED
    BY <1>5, <2>1
<1> QED
  BY <1>2, <1>3, <1>4, <1>6, <1>7
  DEF Working, ClaimRefused, Submit, AcquireRow, WorkFails, Settle, Refused, ReportFails,
      FinalUpdate, Published, tables

LEMMA MadeWorking == ASSUME Basics, Made, NEW p \in Process, Working(p) PROVE Made'
<1>1. /\ UNCHANGED <<from, hand>> /\ pc[p] # "idle" /\ hand[p] \in Task
      /\ from[hand[p]] # Nobody /\ \A q \in Process \ {p} : pc'[q] = pc[q]
  BY WorkingKeeps DEF Basics, TypeOK, Hands
<1>2. /\ \A t \in Task : t # hand[p] =>
           run'[t] = run[t] \/ (run[t] = "running" /\ run'[t] = "over")
      /\ run'[hand[p]] = "none" => run[hand[p]] = "none"
      /\ run'[hand[p]] = "created" => run[hand[p]] \in {"none", "created"}
      /\ p \in Shell /\ run[hand[p]] = "none" => run'[hand[p]] = "none"
      /\ worked' # worked =>
           /\ run[hand[p]] = "created" /\ run'[hand[p]] = "running"
           /\ worked' = [worked EXCEPT ![hand[p]] = @ \cup {p}]
  BY RunMoves
<1>3. worked \in [Task -> SUBSET Process] /\ \A t \in Task : t # hand[p] => worked'[t] = worked[t]
  BY <1>2 DEF Basics, TypeOK
<1>4. worked' # worked => worked'[hand[p]] = {p}
  BY <1>1, <1>2, <1>3 DEF Made
<1>5. \A t \in Task : worked'[t] # {} => run'[t] \notin {"none", "created"}
  BY <1>1, <1>2, <1>3 DEF Made
<1>6. \A t \in Task : from'[t] = Nobody => run'[t] = "none" /\ worked'[t] = {}
  BY <1>1, <1>2, <1>3 DEF Made
<1>7. \A t \in Task : \A q, r \in worked'[t] : q = r
  BY <1>3, <1>4 DEF Made
<1>8. ASSUME NEW c \in Console, ToMake(c)' PROVE run'[hand'[c]] = "none"
  <2>1. CASE c = p
    <3>1. CASE AcquireRow(p)
      <4>1. pc[p] = "queued" /\ Is(p, "source") /\ run' = run
        BY <1>8, <2>1, <3>1 DEF AcquireRow, ToMake, Made, At, Go, Basics, TypeOK, Process
      <4>2. ToMake(p)
        BY <4>1 DEF ToMake
      <4> QED
        BY <1>1, <1>8, <2>1, <4>1, <4>2 DEF Made
    <3>2. CASE Submit(p)
      <4>1. run' = run /\ Is(p, "source") /\ pc[p] \in {"setup", "made"}
        BY <1>1, <1>8, <2>1, <3>2
        DEF Submit, Prepared, tables, ToMake, At, Go, Is, Basics, TypeOK, KindOfTask, Process
      <4>2. ToMake(p)
        BY <1>8, <2>1, <4>1 DEF ToMake, Made
      <4> QED
        BY <1>1, <1>8, <2>1, <4>1, <4>2 DEF Made
    <3>3. CASE ~AcquireRow(p) /\ ~Submit(p)
      <4>1. pc'[p] \notin {"setup", "acquired", "queued"}
        BY <3>3, Words DEF Working, Claim, ClaimRefused, MakeRun, CreateRun, Settle, WorkFails,
           Refused, FinalUpdate, Publish, Published, ReportFails, MarkRunFailed, ShellBlocked,
           ShellEnds, Go, Basics, TypeOK
      <4> QED
        BY <1>8, <2>1, <4>1 DEF ToMake
    <3> QED
      BY <3>1, <3>2, <3>3
  <2>2. CASE c # p
    <3>1. c \in Process \ {p} /\ ToMake(c)
      BY <1>1, <1>8, <2>2 DEF ToMake, Is, KindOfTask, Process
    <3>2. run[hand[c]] = "none" /\ hand[c] \in Task
      BY <3>1, SiteType DEF Made, ToMake
    <3>3. CASE hand[c] # hand[p]
      BY <1>1, <1>2, <3>2, <3>3
    <3>4. CASE hand[c] = hand[p]
      <4>1. p \in Shell
        BY <2>2, <3>2, <3>4 DEF Made, Process, Basics, TypeOK
      <4> QED
        BY <1>1, <1>2, <3>2, <3>4, <4>1
    <3> QED
      BY <3>3, <3>4
  <2> QED
    BY <2>1, <2>2
<1>9. ASSUME NEW c \in Console, pc'[c] \in {"made", "claimed"} PROVE ~Is(c, "source")'
  <2>1. CASE c = p
    <3>1. MakeRun(p) \/ (Claim(p) /\ ~Is(p, "source"))
      BY <1>9, <2>1 DEF Working, Claim, ClaimRefused, Submit, AcquireRow, CreateRun, Settle,
         WorkFails, Refused, FinalUpdate, Publish, Published, ReportFails, MarkRunFailed,
         ShellBlocked, ShellEnds, Go, Basics, TypeOK
    <3> QED
      BY <1>1, <2>1, <3>1 DEF MakeRun, Is, KindOfTask
  <2>2. CASE c # p
    BY <1>1, <1>9, <2>2 DEF Made, Is, KindOfTask, Process
  <2> QED
    BY <2>1, <2>2
<1>10. ASSUME NEW s \in Shell, pc'[s] \in {"working", "settled"} PROVE s \in worked'[hand'[s]]
  <2>1. CASE s # p
    <3>1. s \in worked[hand[s]] /\ hand[s] \in Task
      BY <1>1, <1>10, <2>1, SiteType DEF Made, Process
    <3> QED
      BY <1>1, <1>2, <1>3, <3>1
  <2>2. CASE s = p /\ Claim(p)
    BY <1>1, <1>3, <2>2 DEF Claim
  <2>3. CASE s = p /\ ~Claim(p)
    <3>1. pc[p] \in {"working", "settled"} /\ worked' = worked
      BY <1>1, <1>10, <2>3 DEF Working, ClaimRefused, MakeRun, Submit, AcquireRow, CreateRun, Settle,
         WorkFails, Refused, FinalUpdate, Publish, Published, ReportFails, MarkRunFailed,
         ShellBlocked, ShellEnds, Go, At, tables, Basics, TypeOK, Hands
    <3> QED
      BY <1>1, <2>3, <3>1 DEF Made
  <2> QED
    BY <2>1, <2>2, <2>3
<1>11. ASSUME NEW s \in Shell, pc'[s] = "local" PROVE run'[hand'[s]] # "none"
  <2>1. pc[s] = "local" /\ s \in Process
    <3>1. CASE s = p
      BY <1>11, <3>1 DEF Working, Claim, ClaimRefused, MakeRun, Submit, AcquireRow, CreateRun, Settle,
         WorkFails, Refused, FinalUpdate, Publish, Published, ReportFails, MarkRunFailed,
         ShellBlocked, ShellEnds, Go, Basics, TypeOK
    <3> QED
      BY <1>1, <1>11, <3>1 DEF Process
  <2>2. run[hand[s]] # "none" /\ hand[s] \in Task
    BY <2>1, SiteType DEF Made
  <2> QED
    BY <1>1, <1>2, <2>2
<1> QED
  BY <1>1, <1>5, <1>6, <1>7, <1>8, <1>9, <1>10, <1>11 DEF Made

LEMMA MadeMoving == ASSUME Basics, Made, NEW p \in Process, Moving(p) PROVE Made'
<1> /\ pc \in [Process -> PC] /\ hand \in [Process -> Task \cup {NoTask}]
    /\ run \in [Task -> RunState] /\ from \in [Task -> Approval \cup {Nobody}]
    /\ \A q \in Process : pc[q] # "idle" => hand[q] \in Task /\ from[hand[q]] # Nobody
    /\ \A q \in Process : pc[q] = "idle" <=> hand[q] = NoTask
    /\ NoTask \notin Task /\ Nobody \notin Approval
  BY DEF Basics, TypeOK, Hands
<1> USE DEF Go, At, tables
<1>1. \A q \in Process \ {p} :
        /\ pc'[q] = pc[q] /\ hand'[q] = hand[q]
        /\ hand[q] # NoTask => from'[hand[q]] = from[hand[q]]
  BY MovingKeeps
<1>2. \A q \in Console \ {p} : /\ ToMake(q)' => ToMake(q) /\ hand[q] # NoTask
                               /\ pc[q] # "idle" => (Is(q, "source")' <=> Is(q, "source"))
  BY <1>1 DEF ToMake, Is, KindOfTask, Process
<1>3. ASSUME NEW a \in Approval, NEW t \in Task, p \in Console, CreateRow(p, a, t) PROVE Made'
  <2>1. /\ hand'[p] = t /\ pc'[p] = "setup" /\ from[t] = Nobody /\ from'[t] = a
        /\ UNCHANGED <<run, worked>> /\ \A u \in Task \ {t} : from'[u] = from[u]
    BY <1>3 DEF CreateRow, Fresh, Unused
  <2>2. \A c, d \in Console : hand'[c] = hand'[d] /\ hand'[c] # NoTask => c = d
    BY <1>1, <2>1 DEF Made, Process
  <2>3. \A c \in Console : ToMake(c)' => run'[hand'[c]] = "none"
    BY <1>1, <1>2, <2>1 DEF Made, Process
  <2>4. \A c \in Console : pc'[c] \in {"made", "claimed"} => ~Is(c, "source")'
    BY <1>1, <1>2, <2>1 DEF Made, Process
  <2>5. \A s \in Shell : pc'[s] \in {"working", "settled"} => s \in worked'[hand'[s]]
    BY <1>1, <1>3, <2>1 DEF Made, Process
  <2>6. \A u \in Task : from'[u] = Nobody => run'[u] = "none" /\ worked'[u] = {}
    BY <2>1 DEF Made
  <2>7. \A s \in Shell : pc'[s] = "local" => run'[hand'[s]] # "none"
    BY <1>1, <1>3, <2>1 DEF Made, Process
  <2> QED
    BY <2>1, <2>2, <2>3, <2>4, <2>5, <2>6, <2>7 DEF Made
<1>4. ASSUME NEW t \in Task, ShellBegin(p, t) \/ RunLocal(p, t) PROVE Made'
  <2>1. p \in Shell /\ pc'[p] \in {"queued", "local"} /\ UNCHANGED <<from, worked>>
    BY <1>4 DEF ShellBegin, RunLocal
  <2>2. \A c, d \in Console : hand'[c] = hand'[d] /\ hand'[c] # NoTask => c = d
    BY <1>1, <2>1 DEF Made, Process
  <2>3. \/ run' = run /\ pc'[p] = "queued"
        \/ run' = [run EXCEPT ![t] = "running"] /\ run[t] # "none" /\ hand'[p] = t
    BY <1>4 DEF ShellBegin, RunLocal
  <2>4. ASSUME NEW c \in Console, ToMake(c)' PROVE run'[hand'[c]] = "none"
    <3>1. c \in Console \ {p}
      BY <2>1
    <3>2. run[hand[c]] = "none" /\ hand'[c] = hand[c] /\ hand[c] \in Task
      BY <1>1, <1>2, <2>4, <3>1 DEF Made, Process
    <3> QED
      BY <2>3, <3>2
  <2>5. \A c \in Console : pc'[c] \in {"made", "claimed"} => ~Is(c, "source")'
    BY <1>1, <1>2, <2>1 DEF Made, Process
  <2>6. \A s \in Shell : pc'[s] \in {"working", "settled"} => s \in worked'[hand'[s]]
    BY <1>1, <2>1 DEF Made, Process
  <2>7. \A u \in Task : worked'[u] # {} => run'[u] \notin {"none", "created"}
    BY <2>1, <2>3 DEF Made
  <2>8. \A u \in Task : from'[u] = Nobody => run'[u] = "none" /\ worked'[u] = {}
    BY <2>1, <2>3 DEF Made
  <2>9. ASSUME NEW s \in Shell, pc'[s] = "local" PROVE run'[hand'[s]] # "none"
    <3>1. CASE s = p
      BY <2>3, <2>9, <3>1
    <3>2. CASE s # p
      BY <1>1, <2>3, <2>9, <3>2 DEF Made, Process
    <3> QED
      BY <3>1, <3>2
  <2> QED
    BY <2>1, <2>2, <2>4, <2>5, <2>6, <2>7, <2>8, <2>9 DEF Made
<1>5. CASE SetupFails(p) \/ SubmitFails(p) \/ LocalEnds(p) \/ Leave(p)
  <2>1. /\ pc'[p] = "idle" /\ hand'[p] = NoTask /\ UNCHANGED <<from, worked>>
        /\ pc[p] # "idle" /\ hand[p] \in Task
    BY <1>5 DEF SetupFails, SubmitFails, LocalEnds, Leave, LetsGo, Prepared
  <2>2. \/ run' = run
        \/ /\ run' = [run EXCEPT ![hand[p]] = "over"]
           /\ p \in Console \/ run[hand[p]] # "none"
    <3>1. CASE SetupFails(p) \/ SubmitFails(p) \/ Leave(p)
      BY <3>1 DEF SetupFails, SubmitFails, Leave, RunBecomes, Prepared, Basics, Hands, Process
    <3>2. CASE LocalEnds(p)
      BY <3>2 DEF LocalEnds, RunBecomes, Made, Process
    <3> QED
      BY <1>5, <3>1, <3>2
  <2>3. \A c, d \in Console : hand'[c] = hand'[d] /\ hand'[c] # NoTask => c = d
    BY <1>1, <2>1 DEF Made, Process
  <2>4. ASSUME NEW c \in Console, ToMake(c)' PROVE run'[hand'[c]] = "none"
    <3>1. c # p
      BY <2>1, <2>4 DEF ToMake
    <3>2. run[hand[c]] = "none" /\ hand'[c] = hand[c] /\ hand[c] \in Task
      BY <1>1, <1>2, <2>4, <3>1 DEF Made, Process
    <3>3. p \in Console \/ run[hand[p]] # "none" => hand[c] # hand[p]
      BY <3>1, <3>2 DEF Made
    <3>4. run'[hand[c]] = run[hand[c]]
      BY <2>1, <2>2, <3>2, <3>3
    <3> QED
      BY <3>2, <3>4
  <2>5. \A c \in Console : pc'[c] \in {"made", "claimed"} => ~Is(c, "source")'
    BY <1>1, <1>2, <2>1 DEF Made, Process
  <2>6. \A s \in Shell : pc'[s] \in {"working", "settled"} => s \in worked'[hand'[s]]
    BY <1>1, <2>1 DEF Made, Process
  <2>7. \A u \in Task : worked'[u] # {} => run'[u] \notin {"none", "created"}
    BY <2>1, <2>2 DEF Made
  <2>8. \A u \in Task : from'[u] = Nobody => run'[u] = "none" /\ worked'[u] = {}
    BY <2>1, <2>2 DEF Made
  <2>9. \A s \in Shell : pc'[s] = "local" => run'[hand'[s]] # "none"
    BY <1>1, <2>1, <2>2 DEF Made, Process
  <2> QED
    BY <2>1, <2>3, <2>4, <2>5, <2>6, <2>7, <2>8, <2>9 DEF Made
<1> QED
  BY <1>3, <1>4, <1>5 DEF Moving

LEMMA MadeAround == ASSUME Basics, Made, Around PROVE Made'
<1> /\ run \in [Task -> RunState] /\ from \in [Task -> Approval \cup {Nobody}]
    /\ \A q \in Process : pc[q] # "idle" => hand[q] \in Task /\ from[hand[q]] # Nobody
    /\ \A q \in Process : pc[q] = "idle" <=> hand[q] = NoTask
    /\ NoTask \notin Task /\ Nobody \notin Approval
  BY DEF Basics, TypeOK, Hands
<1>1. ASSUME NEW a \in Approval, NEW t \in Task, NewRun(a, t) PROVE Made'
  <2>1. /\ UNCHANGED <<pc, hand, worked>> /\ from[t] = Nobody /\ from' = [from EXCEPT ![t] = a]
        /\ run' = [run EXCEPT ![t] = "created"]
    BY <1>1 DEF NewRun, Fresh, Unused, RunBecomes, worker
  <2>2. ASSUME NEW c \in Console, pc[c] # "idle"
        PROVE  hand[c] # t /\ from'[hand[c]] = from[hand[c]] /\ run'[hand[c]] = run[hand[c]]
    BY <2>1, <2>2 DEF Process
  <2>3. \A c \in Console : ToMake(c)' => run'[hand'[c]] = "none"
    BY <2>1, <2>2 DEF Made, ToMake, Is, KindOfTask
  <2>4. \A c \in Console : pc'[c] \in {"made", "claimed"} => ~Is(c, "source")'
    BY <2>1, <2>2 DEF Made, Is, KindOfTask
  <2>5. \A u \in Task : worked'[u] # {} => run'[u] \notin {"none", "created"}
    BY <2>1 DEF Made
  <2>6. \A u \in Task : from'[u] = Nobody => run'[u] = "none" /\ worked'[u] = {}
    BY <2>1 DEF Made
  <2>7. \A s \in Shell : pc'[s] = "local" => run'[hand'[s]] # "none"
    BY <2>1 DEF Made, Process
  <2> QED
    BY <2>1, <2>3, <2>4, <2>5, <2>6, <2>7 DEF Made
<1>2. CASE UNCHANGED <<pc, hand, worked, from, run>>
  BY <1>2 DEF Made, ToMake, Is, KindOfTask
<1>3. ASSUME NEW t \in Task, StopRun(t) PROVE Made'
  <2>1. /\ UNCHANGED <<pc, hand, worked, from>> /\ run[t] # "none"
        /\ run' = [run EXCEPT ![t] = "over"]
    BY <1>3 DEF StopRun, RunBecomes, worker
  <2>2. \A c \in Console : ToMake(c)' => ToMake(c) /\ hand[c] # t
    BY <2>1 DEF Made, ToMake, Is, KindOfTask
  <2>3. \A c \in Console : ToMake(c)' => run'[hand'[c]] = "none"
    BY <2>1, <2>2 DEF Made
  <2>4. \A c \in Console : pc'[c] \in {"made", "claimed"} => ~Is(c, "source")'
    BY <2>1 DEF Made, Is, KindOfTask
  <2>5. \A u \in Task : worked'[u] # {} => run'[u] \notin {"none", "created"}
    BY <2>1 DEF Made
  <2>6. \A s \in Shell : pc'[s] = "local" => run'[hand'[s]] # "none"
    BY <2>1 DEF Made, Process
  <2> QED
    BY <2>1, <2>3, <2>4, <2>5, <2>6 DEF Made
<1>4. ASSUME NEW p \in Process, Crash(p) PROVE Made'
  <2>1. /\ pc'[p] = "idle" /\ hand'[p] = NoTask /\ UNCHANGED <<from, run, worked>>
        /\ \A q \in Process \ {p} : pc'[q] = pc[q] /\ hand'[q] = hand[q]
    BY <1>4 DEF Crash, Basics, TypeOK
  <2>2. \A c \in Console : ToMake(c)' => ToMake(c) /\ hand'[c] = hand[c]
    BY <2>1 DEF ToMake, Is, KindOfTask, Process
  <2>3. \A c, d \in Console : hand'[c] = hand'[d] /\ hand'[c] # NoTask => c = d
    BY <2>1 DEF Made, Process
  <2>4. \A c \in Console : pc'[c] \in {"made", "claimed"} => ~Is(c, "source")'
    BY <2>1 DEF Made, Is, KindOfTask, Process
  <2>5. \A s \in Shell : pc'[s] \in {"working", "settled"} => s \in worked'[hand'[s]]
    BY <2>1 DEF Made, Process
  <2>6. \A c \in Console : ToMake(c)' => run'[hand'[c]] = "none"
    BY <2>1, <2>2 DEF Made
  <2>7. \A s \in Shell : pc'[s] = "local" => run'[hand'[s]] # "none"
    BY <2>1 DEF Made, Process
  <2> QED
    BY <2>1, <2>3, <2>4, <2>5, <2>6, <2>7 DEF Made
<1> QED
  BY <1>1, <1>2, <1>3, <1>4 DEF Around, CancelRun, Poll, worker

LEMMA MadeStep == Basics /\ Made /\ [Next]_vars => Made'
<1> SUFFICES ASSUME Basics, Made, [Next]_vars PROVE Made'
  OBVIOUS
<1>1. CASE UNCHANGED vars
  BY <1>1 DEF vars, tables, worker, Made, ToMake, Is, KindOfTask
<1> QED
  BY <1>1, MadeWorking, MadeMoving, MadeAround, Steps
-----------------------------------------------------------------------------
(***************************************************************************)
(* An approval is used up before a worker can begin on its task.           *)
(***************************************************************************)

\* A console has the task in hand; it has come past the use of the approval, or worked.
Held(t) == \E c \in Console : hand[c] = t
Past(t) == \/ worked[t] \cap Console # {}
           \/ \E c \in Console : hand[c] = t /\ pc[c] \notin {"setup", "made"}

Spent ==
  /\ \A a \in Approval : key[a] \in {DeskOf[a], Nobody}
  /\ \A c \in Console : pc[c] \in {"setup", "made"} => DeskOf[from[hand[c]]] = c
  /\ \A t \in Task : Past(t) => key[from[t]] = Nobody
  /\ \A t, u \in Task : from[t] = from[u] /\ Past(t) /\ (Past(u) \/ Held(u)) => t = u

\* What is past, or in hand, comes from an approval.
LEMMA PastType ==
  ASSUME Basics, Made, NEW t \in Task, Past(t) \/ Held(t)
  PROVE  from[t] # Nobody /\ from[t] \in Approval
<1>1. CASE worked[t] \cap Console # {}
  BY <1>1 DEF Made, Basics, TypeOK
<1>2. CASE Held(t)
  BY <1>2 DEF Held, Basics, TypeOK, Hands, Process
<1> QED
  BY <1>1, <1>2 DEF Past, Held

\* A step after which no more is past, or in hand, than before.
LEMMA SpentShrinks ==
  ASSUME Basics, Made, Spent,
         \A t \in Task : (Past(t)' => Past(t)) /\ (Held(t)' => Held(t)),
         \A t \in Task : from[t] # Nobody => from'[t] = from[t],
         \A a \in Approval : key'[a] \in {key[a], Nobody},
         \A c \in Console : pc'[c] \in {"setup", "made"} =>
                              pc[c] \in {"setup", "made"} /\ hand'[c] = hand[c]
  PROVE  Spent'
<1>1. \A a \in Approval : key'[a] \in {DeskOf[a], Nobody}
  BY DEF Spent
<1>2. ASSUME NEW c \in Console, pc'[c] \in {"setup", "made"} PROVE DeskOf[from'[hand'[c]]] = c
  <2>1. /\ pc[c] \in {"setup", "made"} /\ hand'[c] = hand[c]
        /\ hand[c] \in Task /\ from[hand[c]] # Nobody
    BY <1>2, SiteType DEF Basics, TypeOK, Hands, Process
  <2> QED
    BY <2>1 DEF Spent
<1>3. \A t \in Task : Past(t)' => key'[from'[t]] = Nobody
  BY PastType DEF Spent
<1>4. \A t, u \in Task : from'[t] = from'[u] /\ Past(t)' /\ (Past(u)' \/ Held(u)') => t = u
  BY PastType DEF Spent
<1> QED
  BY <1>1, <1>2, <1>3, <1>4 DEF Spent

LEMMA SpentWorking == ASSUME Basics, Made, Spent, NEW p \in Process, Working(p) PROVE Spent'
<1>1. /\ UNCHANGED <<from, hand>> /\ pc[p] # "idle" /\ pc'[p] # "idle" /\ hand[p] \in Task
      /\ from[hand[p]] \in Approval /\ \A q \in Process \ {p} : pc'[q] = pc[q]
      /\ pc \in [Process -> PC] /\ key \in [Approval -> Console \cup {Nobody}]
  BY WorkingKeeps, SiteType DEF Basics, TypeOK
<1>2. worked' = worked \/ (worked' = [worked EXCEPT ![hand[p]] = @ \cup {p}] /\ Claim(p))
  BY RunMoves DEF Working, ClaimRefused, MakeRun, Submit, AcquireRow, CreateRun, Settle,
     WorkFails, Refused, FinalUpdate, Publish, Published, ReportFails, MarkRunFailed,
     ShellBlocked, ShellEnds, tables
<1>3. \A t \in Task : Held(t)' <=> Held(t)
  BY <1>1 DEF Held
<1>4. ASSUME NEW t \in Task, Past(t)', pc'[p] \notin {"setup", "made"} => pc[p] \notin {"setup", "made"}
      PROVE  Past(t)
  <2>1. CASE worked'[t] \cap Console # {} /\ worked' = worked
    BY <2>1 DEF Past
  <2>2. CASE worked'[t] \cap Console # {} /\ worked' # worked
    <3>1. worked' = [worked EXCEPT ![hand[p]] = @ \cup {p}] /\ pc[p] \in {"queued", "created"}
      BY <1>2, <2>2 DEF Claim, ToClaim, At
    <3>2. CASE t = hand[p] /\ p \in Console
      BY <3>1, <3>2 DEF Past
    <3>3. CASE t # hand[p] \/ p \notin Console
      <4>1. worked'[t] \cap Console = worked[t] \cap Console
        BY <3>1, <3>3 DEF Basics, TypeOK
      <4> QED
        BY <2>2, <4>1 DEF Past
    <3> QED
      BY <3>2, <3>3
  <2>3. ASSUME NEW c \in Console, hand'[c] = t, pc'[c] \notin {"setup", "made"} PROVE Past(t)
    BY <1>1, <1>4, <2>3 DEF Past, Process
  <2> QED
    BY <1>4, <2>1, <2>2, <2>3 DEF Past
<1>5. CASE ~Submit(p)
  <2>1. key' = key
    BY <1>5 DEF Working, Claim, ClaimRefused, MakeRun, AcquireRow, CreateRun, Settle,
       WorkFails, Refused, FinalUpdate, Publish, Published, ReportFails, MarkRunFailed,
       ShellBlocked, ShellEnds
  <2>2. /\ pc'[p] \notin {"setup", "made"} => pc[p] \notin {"setup", "made"}
        /\ pc'[p] \in {"setup", "made"} => pc[p] \in {"setup", "made"}
    <3>1. CASE MakeRun(p)
      BY <1>1, <3>1 DEF MakeRun, Go, At
    <3>2. CASE ~MakeRun(p)
      BY <1>1, <1>5, <3>2 DEF Working, Claim, ClaimRefused, AcquireRow, CreateRun, Settle, ToClaim,
         WorkFails, Refused, FinalUpdate, Publish, Published, ReportFails, MarkRunFailed,
         ShellBlocked, ShellEnds, Go, At
    <3> QED
      BY <3>1, <3>2
  <2> QED
    BY <1>1, <1>3, <1>4, <2>1, <2>2, SpentShrinks DEF Process
<1>6. CASE Submit(p)
  <2>1. /\ key' = [key EXCEPT ![from[hand[p]]] = Nobody] /\ worked' = worked
        /\ pc[p] \in {"setup", "made"} /\ pc'[p] = "queued" /\ p \in Console
    BY <1>1, <1>6 DEF Submit, Prepared, Go, At, Basics, Hands, Process
  <2>2. \A t \in Task : Past(t)' => Past(t) \/ t = hand[p]
    BY <1>1, <2>1 DEF Past, Process
  <2>3. \A a \in Approval : key'[a] \in {DeskOf[a], Nobody}
    BY <1>1, <2>1 DEF Spent
  <2>4. \A c \in Console : pc'[c] \in {"setup", "made"} => DeskOf[from'[hand'[c]]] = c
    BY <1>1, <2>1 DEF Spent, Process
  <2>5. ASSUME NEW t \in Task, Past(t)' PROVE key'[from'[t]] = Nobody
    <3>1. CASE t = hand[p]
      BY <1>1, <2>1, <3>1
    <3>2. CASE Past(t)
      BY <1>1, <2>1, <3>2, PastType DEF Spent
    <3> QED
      BY <2>2, <2>5, <3>1, <3>2
  <2>6. ASSUME NEW u \in Task, Past(u) \/ Held(u), from[u] = from[hand[p]] PROVE u = hand[p]
    <3>1. Held(hand[p])
      BY <2>1 DEF Held
    <3>2. CASE Past(u)
      BY <1>1, <2>6, <3>1, <3>2 DEF Spent
    <3>3. CASE ~Past(u)
      <4>1. PICK d \in Console : hand[d] = u /\ pc[d] \in {"setup", "made"}
        BY <2>6, <3>3 DEF Held, Past
      <4>2. DeskOf[from[u]] = d /\ DeskOf[from[hand[p]]] = p
        BY <2>1, <4>1 DEF Spent
      <4> QED
        BY <2>6, <4>1, <4>2
    <3> QED
      BY <3>2, <3>3
  <2>7. ASSUME NEW t \in Task, NEW u \in Task, from'[t] = from'[u], Past(t)', Past(u)' \/ Held(u)'
        PROVE  t = u
    <3>1. (Past(t) \/ t = hand[p]) /\ (Past(u) \/ u = hand[p] \/ Held(u)) /\ from[t] = from[u]
      BY <1>1, <1>3, <2>2, <2>7
    <3>2. CASE t = hand[p]
      BY <2>6, <3>1, <3>2
    <3>3. CASE Past(t) /\ u = hand[p]
      BY <2>6, <3>1, <3>3
    <3>4. CASE Past(t) /\ (Past(u) \/ Held(u))
      BY <3>1, <3>4 DEF Spent
    <3> QED
      BY <3>1, <3>2, <3>3, <3>4
  <2> QED
    BY <2>3, <2>4, <2>5, <2>7 DEF Spent
<1> QED
  BY <1>5, <1>6

LEMMA SpentStep == Basics /\ Made /\ Spent /\ [Next]_vars => Spent'
<1> SUFFICES ASSUME Basics, Made, Spent, [Next]_vars PROVE Spent'
  OBVIOUS
<1> /\ pc \in [Process -> PC] /\ hand \in [Process -> Task \cup {NoTask}]
    /\ from \in [Task -> Approval \cup {Nobody}] /\ key \in [Approval -> Console \cup {Nobody}]
    /\ \A q \in Process : pc[q] = "idle" <=> hand[q] = NoTask
    /\ \A q \in Process : hand[q] # NoTask => from[hand[q]] # Nobody
    /\ NoTask \notin Task /\ Nobody \notin Approval /\ Console \subseteq Process
  BY DEF Basics, TypeOK, Hands, Process
<1>1. CASE UNCHANGED <<key, from, pc, hand, worked>>
  BY <1>1 DEF Spent, Past, Held
<1>2. ASSUME NEW a \in Approval, NEW t \in Task, NEW p \in Console, CreateRow(p, a, t) PROVE Spent'
  <2>1. /\ hand'[p] = t /\ pc'[p] = "setup" /\ from[t] = Nobody /\ from'[t] = a /\ key[a] = p
        /\ pc[p] = "idle" /\ UNCHANGED <<key, worked>> /\ \A u \in Task \ {t} : from'[u] = from[u]
        /\ \A q \in Process \ {p} : hand'[q] = hand[q] /\ pc'[q] = pc[q]
    BY <1>2 DEF CreateRow, Fresh, Unused, Go, At
  <2>2. worked[t] = {} /\ ~Held(t) /\ ~Past(t)
    BY <2>1 DEF Made, Held, Past
  <2>3. \A u \in Task : (Past(u)' => Past(u)) /\ (Held(u)' => Held(u) \/ u = t)
    BY <2>1, <2>2 DEF Past, Held
  <2>4. p # Nobody /\ DeskOf[a] = p
    BY <2>1 DEF Spent
  <2>5. \A c \in Console : pc'[c] \in {"setup", "made"} => DeskOf[from'[hand'[c]]] = c
    BY <2>1, <2>4 DEF Spent
  <2>6. \A u \in Task : Past(u)' => key'[from'[u]] = Nobody
    BY <2>1, <2>2, <2>3 DEF Spent
  <2>7. ASSUME NEW u \in Task, NEW v \in Task, from'[u] = from'[v], Past(u)', Past(v)' \/ Held(v)'
        PROVE  u = v
    <3>1. Past(u) /\ u # t /\ from'[u] = from[u]
      BY <2>1, <2>2, <2>3, <2>7
    <3>2. key[from[u]] = Nobody
      BY <3>1 DEF Spent
    <3>3. ASSUME v = t PROVE FALSE
      <4>1. from'[u] = a
        BY <2>1, <2>7, <3>3
      <4>2. key[a] = Nobody
        BY <3>1, <3>2, <4>1
      <4> QED
        BY <2>1, <2>4, <4>2
    <3>4. from'[v] = from[v] /\ (Past(v) \/ Held(v))
      BY <2>1, <2>3, <2>7, <3>3
    <3> QED
      BY <2>7, <3>1, <3>4 DEF Spent
  <2> QED
    BY <2>1, <2>5, <2>6, <2>7 DEF Spent
<1>3. ASSUME NEW p \in Process, NEW t \in Task, ShellBegin(p, t) \/ RunLocal(p, t) PROVE Spent'
  <2>1. /\ p \notin Console /\ UNCHANGED <<key, from, worked>>
        /\ \A q \in Process \ {p} : hand'[q] = hand[q] /\ pc'[q] = pc[q]
    BY <1>3 DEF ShellBegin, RunLocal, Go, tables
  <2>2. \A c \in Console : hand'[c] = hand[c] /\ pc'[c] = pc[c]
    BY <2>1
  <2>3. \A u \in Task : (Past(u)' => Past(u)) /\ (Held(u)' => Held(u))
    BY <2>1, <2>2 DEF Past, Held
  <2> QED
    BY <2>1, <2>2, <2>3, SpentShrinks
<1>4. ASSUME NEW p \in Process, hand'[p] = NoTask, pc'[p] = "idle", worked' = worked, from' = from,
             \A a \in Approval : key'[a] \in {key[a], Nobody},
             \A q \in Process \ {p} : hand'[q] = hand[q] /\ pc'[q] = pc[q]
      PROVE  Spent'
  <2>1. \A u \in Task : (Past(u)' => Past(u)) /\ (Held(u)' => Held(u))
    BY <1>4 DEF Past, Held
  <2> QED
    BY <1>4, <2>1, SpentShrinks
<1>5. ASSUME NEW p \in Process, SetupFails(p) \/ SubmitFails(p) \/ LocalEnds(p) \/ Leave(p)
      PROVE  Spent'
  <2>1. /\ hand'[p] = NoTask /\ pc'[p] = "idle" /\ worked' = worked /\ from' = from
        /\ \A q \in Process \ {p} : hand'[q] = hand[q] /\ pc'[q] = pc[q]
    BY <1>5 DEF SetupFails, SubmitFails, LocalEnds, Leave, LetsGo, Go, tables
  <2>2. \A a \in Approval : key'[a] \in {key[a], Nobody}
    BY <1>5 DEF SetupFails, SubmitFails, LocalEnds, Leave
  <2> QED
    BY <1>4, <2>1, <2>2
<1>6. ASSUME NEW p \in Process, Crash(p) PROVE Spent'
  BY <1>4, <1>6 DEF Crash
<1>7. ASSUME NEW a \in Approval, NEW t \in Task, NewRun(a, t) PROVE Spent'
  <2>1. /\ UNCHANGED <<key, pc, hand, worked>> /\ \A u \in Task : from[u] # Nobody => from'[u] = from[u]
    BY <1>7 DEF NewRun, Fresh, Unused, worker
  <2>2. \A u \in Task : (Past(u)' => Past(u)) /\ (Held(u)' => Held(u))
    BY <2>1 DEF Past, Held
  <2> QED
    BY <2>1, <2>2, SpentShrinks
<1> QED
  BY <1>1, <1>2, <1>3, <1>5, <1>6, <1>7, SpentWorking, Steps
  DEF Moving, Around, CancelRun, StopRun, Poll, worker, vars, tables

-----------------------------------------------------------------------------
(***************************************************************************)
(* A run that says running holds its origin.  The claim itself is kept by  *)
(* whoever leaves last; what needs the invariant below is that a process   *)
(* which lets go of a claim has a run that no longer says so.              *)
(***************************************************************************)

\* The run of t says running since its claim, or since it was published so; and it will
\* not be claimed, and says no such thing.
Running(t) == run[t] = "running" /\ t \notin lab
Ended(t)   == run[t] # "created" /\ ~Running(t)

\* The report of t could not be written.
Broken(t) == /\ KindOfTask(t) \in {"local", "source"}
             /\ row[t] \in {"failed", "cancelling", "interrupted"}

\* How far a console has come with what it reports of its task.
Ending(c) ==
  /\ ~Is(c, "shell")
  /\ At(c, "settled")   => row[hand[c]] # "running"
  /\ At(c, "reporting") => seen[c] # "running"
  /\ At(c, "published") => Ended(hand[c])
  /\ At(c, "failing")   => Is(c, "business")
  /\ At(c, "leaving")   => Ended(hand[c]) \/ Broken(hand[c])

Endings == \A c \in Console : pc[c] # "idle" => Ending(c)

\* What a shell holds is the origin of its task, and it leaves with a run that is over.
ShellClaims ==
  \A s \in Shell :
    /\ \A o \in Target : claim[o].by = s =>
         /\ pc[s] \in {"working", "settled", "leaving"}
         /\ o = SiteOfTask(hand[s]) /\ claim[o].task = hand[s]
    /\ At(s, "leaving") /\ HasLease(s) => ~Running(hand[s])

\* Once let go of, a run that still says running belongs to a task whose report failed.
Abandoned(t) == Broken(t) /\ \A c \in Console : hand[c] # t
Kept ==
  \A t \in Task : Running(t) => claim[SiteOfTask(t)].task = t \/ Abandoned(t)

\* A worker starts no run but with a claim.
LEMMA RunStarts ==
  ASSUME Basics, Made, Endings, NEW p \in Process, Working(p), NEW t \in Task, Running(t)'
  PROVE  Running(t) \/ (t = hand[p] /\ Claim(p))
<1> /\ run \in [Task -> RunState] /\ run'[t] = "running" /\ t \notin lab'
  BY DEF Running, Basics, TypeOK
<1>1. CASE t # hand[p]
  <2>1. run[t] = "running"
    BY <1>1, RunMoves
  <2>2. t \notin lab
    <3>1. lab' = lab \/ lab' = lab \ {hand[p]} \/ lab' = {u \in lab : run'[u] = "running"}
      BY DEF Working, Claim, ClaimRefused, MakeRun, Submit, AcquireRow, CreateRun, Settle, WorkFails,
         Refused, FinalUpdate, Publish, Published, ReportFails, MarkRunFailed, ShellBlocked,
         ShellEnds, RunBecomes
    <3> QED
      BY <1>1, <3>1
  <2> QED
    BY <2>1, <2>2 DEF Running
<1>2. CASE t = hand[p]
  <2>1. CASE MakeRun(p) \/ CreateRun(p) \/ MarkRunFailed(p) \/ ShellBlocked(p) \/ ShellEnds(p)
    BY <1>2, <2>1 DEF MakeRun, CreateRun, MarkRunFailed, ShellBlocked, ShellEnds, RunBecomes
  <2>2. CASE Publish(p)
    <3>1. p \in Console /\ pc[p] = "reporting"
      BY <2>2 DEF Publish, At, Basics, Hands, Process
    <3>2. seen[p] # "running"
      BY <3>1 DEF Endings, Ending, At
    <3> QED
      BY <1>2, <2>2, <3>2 DEF Publish, RunBecomes, Running
  <2>3. CASE UNCHANGED <<run, lab>>
    BY <2>3 DEF Running
  <2> QED
    BY <1>2, <2>1, <2>2, <2>3
    DEF Working, ClaimRefused, Submit, AcquireRow, WorkFails, Settle, Refused, ReportFails,
        FinalUpdate, Published, tables
<1> QED
  BY <1>1, <1>2

\* A process that gets or lets go of a task makes no run, and starts none with a claim.
LEMMA MovingRuns ==
  ASSUME Basics, NEW p \in Process, Moving(p), NEW t \in Task
  PROVE  (Running(t)' => Running(t)) /\ (Ended(t) => Ended(t)')
<1> run \in [Task -> RunState]
  BY DEF Basics, TypeOK
<1>1. CASE UNCHANGED <<run, lab>>
  BY <1>1 DEF Running, Ended
<1>2. ASSUME NEW u \in Task, RunLocal(p, u) PROVE (Running(t)' => Running(t)) /\ (Ended(t) => Ended(t)')
  BY <1>2 DEF RunLocal, Running, Ended
<1>3. CASE RunBecomes(hand[p], "over")
  BY <1>3 DEF RunBecomes, Running, Ended
<1> QED
  BY <1>1, <1>2, <1>3
  DEF Moving, CreateRow, ShellBegin, SetupFails, SubmitFails, LocalEnds, Leave, tables

\* The row of a task is written by the console that has it in hand; by others it is at
\* most marked.
LEMMA RowOfOthers ==
  ASSUME Basics, NEW p \in Process, Working(p) \/ Moving(p),
         NEW t \in Task, from[t] # Nobody, p \in Console => hand[p] # t
  PROVE  row'[t] \in {row[t], "interrupted"}
<1> /\ row \in [Task -> RowState] /\ pc \in [Process -> PC]
    /\ p \in Shell => /\ pc[p] \in {"idle", "local", "queued", "working", "settled", "leaving"}
                      /\ pc[p] # "idle" => ~Is(p, "source")
  BY DEF Basics, TypeOK, Hands, Is
<1>1. \A but : Marked(but)[t] \in {row[t], "interrupted"} /\ Marked(but) \in [Task -> RowState]
  BY MarkedType DEF Marked
<1>2. CASE AcquireRow(p)
  <2>1. p \notin Shell
    BY <1>2 DEF AcquireRow, At
  <2>2. hand[p] # t
    BY <2>1 DEF Process
  <2> QED
    BY <1>1, <1>2, <2>2 DEF AcquireRow
<1>3. CASE Refused(p) \/ ReportFails(p) \/ SetupFails(p) \/ SubmitFails(p)
           \/ \E st \in Settled : Settle(p, st)
  <2>1. p \notin Shell
    BY <1>3 DEF Refused, ReportFails, SetupFails, SubmitFails, Settle, Prepared, At
  <2>2. hand[p] # t
    BY <2>1 DEF Process
  <2> QED
    BY <1>3, <2>2 DEF Refused, ReportFails, SetupFails, SubmitFails, Settle, RowBecomes
<1>4. ASSUME NEW a \in Approval, NEW u \in Task, CreateRow(p, a, u)
      PROVE  row'[t] \in {row[t], "interrupted"}
  <2>1. u # t /\ row' = [Marked({}) EXCEPT ![u] = "queued"]
    BY <1>4 DEF CreateRow, Fresh, Unused
  <2> QED
    BY <1>1, <2>1
<1>5. CASE row' = row
  BY <1>5
<1> QED
  BY <1>2, <1>3, <1>4, <1>5
  DEF Working, Moving, Claim, ClaimRefused, MakeRun, Submit, CreateRun, WorkFails, FinalUpdate,
      Publish, Published, MarkRunFailed, ShellBlocked, ShellEnds, ShellBegin, RunLocal, LocalEnds, Leave, tables

\* While the console stays where it is, what it has come to stays.
LEMMA EndingStays ==
  ASSUME Endings, NEW c \in Console, pc[c] # "idle", pc'[c] = pc[c], hand'[c] = hand[c],
         seen'[c] = seen[c], from'[hand[c]] = from[hand[c]],
         row'[hand[c]] \in {row[hand[c]], "interrupted", "cancelling"},
         Ended(hand[c]) => Ended(hand[c])'
  PROVE  Ending(c)'
<1>1. Ending(c)
  BY DEF Endings
<1>2. Broken(hand[c]) => Broken(hand[c])'
  BY DEF Broken, KindOfTask
<1>3. KindOfTask(hand[c])' = KindOfTask(hand[c])
  BY DEF KindOfTask
<1> QED
  BY <1>1, <1>2, <1>3 DEF Ending, At, Is

LEMMA EndingsWorking ==
  ASSUME Basics, Made, Endings, NEW c \in Console, Working(c) PROVE Ending(c)'
<1> /\ row \in [Task -> RowState] /\ run \in [Task -> RunState] /\ seen \in [Process -> RowState]
    /\ pc \in [Process -> PC] /\ c \in Process /\ c \notin Shell
  BY DEF Basics, TypeOK, Process
<1>1. /\ UNCHANGED <<from, hand>> /\ pc[c] # "idle" /\ hand[c] \in Task
      /\ KindOfTask(hand[c]) \in Kind /\ KindOfTask(hand[c])' = KindOfTask(hand[c])
  BY WorkingKeeps, SiteType DEF KindOfTask
<1>2. Ending(c) /\ KindOfTask(hand[c]) # "shell" /\ ~Is(c, "shell")'
  BY <1>1 DEF Endings, Ending, Is
<1> USE DEF At, Go, RowBecomes, RunBecomes
<1>3. CASE pc'[c] \notin {"settled", "reporting", "published", "failing", "leaving"}
  BY <1>2, <1>3 DEF Ending
<1>4. CASE Settle(c, "ended") \/ Settle(c, "failed") \/ Refused(c)
  <2>1. pc'[c] = "settled" /\ row'[hand[c]] \in {"ended", "failed"}
    BY <1>1, <1>4 DEF Settle, Refused
  <2> QED
    BY <1>1, <1>2, <2>1 DEF Ending
<1>5. CASE FinalUpdate(c)
  <2>1. pc[c] = "settled" /\ pc'[c] = "reporting" /\ seen'[c] = row[hand[c]]
    BY <1>5 DEF FinalUpdate
  <2> QED
    BY <1>1, <1>2, <2>1 DEF Ending
<1>6. CASE Publish(c)
  <2>1. /\ pc[c] = "reporting" /\ pc'[c] = "published"
        /\ run'[hand[c]] \in {"none", IF seen[c] = "running" THEN "running" ELSE "over"}
    BY <1>1, <1>6 DEF Publish
  <2>2. seen[c] # "running"
    BY <1>2, <2>1 DEF Ending
  <2>3. Ended(hand[c])'
    BY <1>1, <2>1, <2>2 DEF Ended, Running
  <2> QED
    BY <1>1, <1>2, <2>1, <2>3 DEF Ending
<1>7. CASE Published(c)
  <2>1. pc[c] = "published" /\ pc'[c] = "leaving" /\ UNCHANGED <<run, lab>>
    BY <1>7 DEF Published, tables
  <2>2. Ended(hand[c])'
    BY <1>1, <1>2, <2>1 DEF Ended, Running, Ending
  <2> QED
    BY <1>1, <1>2, <2>1, <2>2 DEF Ending
<1>8. CASE ReportFails(c)
  <2>1. /\ row'[hand[c]] = "failed"
        /\ IF Is(c, "business") THEN pc'[c] = "failing" ELSE pc'[c] = "leaving"
    BY <1>1, <1>8 DEF ReportFails
  <2>2. CASE Is(c, "business")
    BY <1>1, <1>2, <2>1, <2>2 DEF Ending, Is
  <2>3. CASE ~Is(c, "business")
    <3>1. KindOfTask(hand[c]) \in {"local", "source"}
      BY <1>1, <1>2, <2>3 DEF Is, Kind
    <3>2. Broken(hand[c])'
      BY <1>1, <2>1, <3>1 DEF Broken
    <3> QED
      BY <1>1, <1>2, <2>1, <2>3, <3>2 DEF Ending
  <2> QED
    BY <2>2, <2>3
<1>9. CASE MarkRunFailed(c)
  <2>1. pc'[c] = "leaving" /\ run'[hand[c]] = "over"
    BY <1>1, <1>9 DEF MarkRunFailed
  <2>2. Ended(hand[c])'
    BY <1>1, <2>1 DEF Ended, Running
  <2> QED
    BY <1>1, <1>2, <2>1, <2>2 DEF Ending
<1> QED
  <2>1. CASE Claim(c) \/ ClaimRefused(c) \/ MakeRun(c) \/ Submit(c) \/ AcquireRow(c)
             \/ CreateRun(c) \/ WorkFails(c)
    BY <1>3, <2>1 DEF Claim, ClaimRefused, MakeRun, Submit, AcquireRow, CreateRun, WorkFails
  <2>2. \A st \in Settled : st \in {"ended", "failed"}
    BY DEF Settled
  <2>3. ~ShellBlocked(c) /\ ~ShellEnds(c)
    BY DEF ShellBlocked, ShellEnds
  <2> QED
    BY <1>4, <1>5, <1>6, <1>7, <1>8, <1>9, <2>1, <2>2, <2>3 DEF Working

LEMMA EndingsMoving ==
  ASSUME Basics, NEW c \in Console, Moving(c), pc'[c] # "idle" PROVE Ending(c)'
<1> c \in Process /\ c \notin Shell /\ pc \in [Process -> PC] /\ hand \in [Process -> Task \cup {NoTask}]
    /\ from \in [Task -> Approval \cup {Nobody}]
  BY DEF Basics, TypeOK, Process
<1>1. PICK a \in Approval, t \in Task : CreateRow(c, a, t)
  BY DEF Moving, ShellBegin, RunLocal, SetupFails, SubmitFails, LocalEnds, Leave, LetsGo, Go
<1>2. pc'[c] = "setup" /\ hand'[c] = t /\ from'[t] = a /\ KindOf[a] # "shell"
  BY <1>1 DEF CreateRow, Go
<1> QED
  BY <1>2 DEF Ending, At, Is, KindOfTask

\* What others do to the task a console has in hand.
LEMMA EndingsOthers ==
  ASSUME Basics, Made, Endings, NEW c \in Console, pc[c] # "idle",
         NEW p \in Process \ {c}, Working(p) \/ Moving(p)
  PROVE  Ending(c)'
<1>1. c \in Process \ {p} /\ hand[c] \in Task /\ hand[c] # NoTask /\ from[hand[c]] # Nobody
  BY SiteType DEF Process, Basics, TypeOK, Hands
<1>2. p \in Console => hand[p] # hand[c]
  BY <1>1 DEF Made
<1>3. /\ pc'[c] = pc[c] /\ hand'[c] = hand[c] /\ seen'[c] = seen[c]
      /\ from'[hand[c]] = from[hand[c]]
  BY <1>1, WorkingKeeps, MovingKeeps
<1>4. row'[hand[c]] \in {row[hand[c]], "interrupted"}
  BY <1>1, <1>2, RowOfOthers
<1>5. ASSUME Ended(hand[c]) PROVE Ended(hand[c])'
  <2>1. CASE Working(p)
    <3>1. ~Running(hand[c])'
      <4>1. SUFFICES ASSUME Running(hand[c])' PROVE FALSE
        OBVIOUS
      <4>2. hand[c] = hand[p] /\ Claim(p)
        BY <1>1, <1>3, <1>5, <2>1, <4>1, RunStarts DEF Ended, Running
      <4> QED
        BY <1>5, <4>2 DEF Claim, MayClaim, Ended
    <3>2. run'[hand[c]] # "created"
      <4>1. CASE hand[c] # hand[p]
        BY <1>1, <1>5, <2>1, <4>1, RunMoves DEF Ended
      <4>2. CASE hand[c] = hand[p]
        BY <1>2, <1>5, <2>1, <4>2, RunMoves DEF Ended, Process
      <4> QED
        BY <4>1, <4>2
    <3> QED
      BY <1>3, <3>1, <3>2 DEF Ended
  <2>2. CASE Moving(p)
    BY <1>1, <1>3, <1>5, <2>2, MovingRuns DEF Ended, Running
  <2> QED
    BY <2>1, <2>2
<1> QED
  BY <1>3, <1>4, <1>5, EndingStays

LEMMA EndingsAround ==
  ASSUME Basics, Made, Endings, Around, NEW c \in Console, pc'[c] # "idle"
  PROVE  Ending(c)'
<1> /\ row \in [Task -> RowState] /\ run \in [Task -> RunState]
    /\ from \in [Task -> Approval \cup {Nobody}] /\ c \in Process
    /\ pc \in [Process -> PC]
  BY DEF Basics, TypeOK, Process
<1>0. pc[c] # "idle" => hand[c] \in Task /\ hand[c] # NoTask /\ from[hand[c]] # Nobody
  BY SiteType DEF Basics, TypeOK, Hands
<1>1. ASSUME NEW a \in Approval, NEW t \in Task, NewRun(a, t) PROVE Ending(c)'
  <2>1. /\ pc' = pc /\ hand' = hand /\ seen' = seen /\ row' = row
        /\ \A u \in Task : from[u] # Nobody =>
             from'[u] = from[u] /\ run'[u] = run[u] /\ (u \in lab => u \in lab')
    BY <1>1 DEF NewRun, Fresh, Unused, RunBecomes, worker
  <2> QED
    BY <1>0, <2>1, EndingStays DEF Ended, Running
<1>2. ASSUME NEW d \in Console, CancelRun(d) PROVE Ending(c)'
  <2>1. /\ pc' = pc /\ hand' = hand /\ seen' = seen /\ from' = from /\ UNCHANGED <<run, lab>>
        /\ row' = [row EXCEPT ![hand[d]] = "cancelling"]
    BY <1>2 DEF CancelRun, RowBecomes
  <2> QED
    BY <1>0, <2>1, EndingStays DEF Ended, Running
<1>3. ASSUME NEW t \in Task, StopRun(t) PROVE Ending(c)'
  <2>1. /\ pc' = pc /\ hand' = hand /\ seen' = seen /\ from' = from /\ row' = row
        /\ run' = [run EXCEPT ![t] = "over"] /\ lab' = lab \ {t}
    BY <1>3 DEF StopRun, RunBecomes, worker
  <2> QED
    BY <1>0, <2>1, EndingStays DEF Ended, Running
<1>4. CASE Poll
  <2>1. /\ pc' = pc /\ hand' = hand /\ seen' = seen /\ from' = from /\ UNCHANGED <<run, lab>>
        /\ \A u \in Task : row'[u] \in {row[u], "interrupted"}
    BY <1>4 DEF Poll, Marked, worker
  <2> QED
    BY <1>0, <2>1, EndingStays DEF Ended, Running
<1>5. ASSUME NEW p \in Process, Crash(p) PROVE Ending(c)'
  <2>1. c # p /\ UNCHANGED <<from, row, run, lab>>
    BY <1>5 DEF Crash
  <2>2. pc'[c] = pc[c] /\ hand'[c] = hand[c] /\ seen'[c] = seen[c]
    BY <1>5, <2>1 DEF Crash, Basics, TypeOK
  <2> QED
    BY <1>0, <2>1, <2>2, EndingStays DEF Ended, Running
<1> QED
  BY <1>1, <1>2, <1>3, <1>4, <1>5 DEF Around

LEMMA EndingsStep == Basics /\ Made /\ Endings /\ [Next]_vars => Endings'
<1> SUFFICES ASSUME Basics, Made, Endings, [Next]_vars, NEW c \in Console, pc'[c] # "idle"
             PROVE  Ending(c)'
  BY DEF Endings
<1>1. CASE UNCHANGED vars
  BY <1>1 DEF vars, tables, worker, Endings, Ending, Ended, Running, Broken, At, Is,
     KindOfTask
<1>2. ASSUME NEW p \in Process, Working(p) \/ Moving(p) PROVE Ending(c)'
  <2>1. CASE p = c
    BY <1>2, <2>1, EndingsWorking, EndingsMoving
  <2>2. CASE p # c
    <3>1. pc[c] # "idle"
      BY <1>2, <2>2, WorkingKeeps, MovingKeeps DEF Process
    <3> QED
      BY <1>2, <2>2, <3>1, EndingsOthers
  <2> QED
    BY <2>1, <2>2
<1> QED
  BY <1>1, <1>2, EndingsAround, Steps

LEMMA ShellClaimsStep ==
  Basics /\ Made /\ Endings /\ ShellClaims /\ [Next]_vars => ShellClaims'
<1> SUFFICES ASSUME Basics, Made, Endings, ShellClaims, [Next]_vars, NEW s \in Shell
             PROVE  /\ \A o \in Target : claim'[o].by = s =>
                         /\ pc'[s] \in {"working", "settled", "leaving"}
                         /\ o = SiteOfTask(hand[s])' /\ claim'[o].task = hand'[s]
                    /\ (At(s, "leaving") /\ HasLease(s))' => ~Running(hand[s])'
  BY DEF ShellClaims
<1> DEFINE Holds == \A o \in Target : claim'[o].by = s =>
                      /\ pc'[s] \in {"working", "settled", "leaving"}
                      /\ o = SiteOfTask(hand[s])' /\ claim'[o].task = hand'[s]
           Leaves == (At(s, "leaving") /\ HasLease(s))' => ~Running(hand[s])'
<1> /\ s \in Process /\ s \notin Console /\ s # Nobody /\ NoClaim.by = Nobody
    /\ pc \in [Process -> PC] /\ claim \in [Target -> Holder \cup {NoClaim}]
    /\ run \in [Task -> RunState] /\ hand \in [Process -> Task \cup {NoTask}]
    /\ pc[s] \in {"idle", "local", "queued", "working", "settled", "leaving"}
    /\ pc[s] # "idle" => /\ hand[s] \in Task /\ hand[s] # NoTask /\ from[hand[s]] # Nobody
                         /\ SiteOfTask(hand[s]) \in Target /\ ~Is(s, "source")
  BY SiteType DEF Basics, TypeOK, Hands, Process, NoClaim, Is
<1>1. /\ \A o \in Target : claim[o].by = s =>
           /\ pc[s] \in {"working", "settled", "leaving"}
           /\ o = SiteOfTask(hand[s]) /\ claim[o].task = hand[s]
      /\ pc[s] = "leaving" /\ HasLease(s) => ~Running(hand[s])
  BY DEF ShellClaims, At
\* As long as it stays where it is, and gets no claim, nothing changes for it.
<1>2. ASSUME pc'[s] = pc[s], hand'[s] = hand[s],
             pc[s] # "idle" => from'[hand[s]] = from[hand[s]],
             \A o \in Target : claim'[o] = claim[o] \/ claim'[o].by # s,
             pc[s] = "leaving" /\ Running(hand[s])' =>
               Running(hand[s]) \/ claim'[SiteOfTask(hand[s])].by # s
      PROVE  Holds /\ Leaves
  <2>1. pc[s] # "idle" => SiteOfTask(hand[s])' = SiteOfTask(hand[s])
    BY <1>2 DEF SiteOfTask
  <2>2. Holds
    BY <1>1, <1>2, <2>1
  <2>3. Leaves
    <3>1. SUFFICES ASSUME pc'[s] = "leaving", HasLease(s)', Running(hand[s])'
                   PROVE  FALSE
      BY DEF At
    <3>2. pc[s] = "leaving" /\ SiteOfTask(hand[s])' = SiteOfTask(hand[s])
      BY <1>2, <2>1, <3>1
    <3>3. claim'[SiteOfTask(hand[s])] = [task |-> hand[s], by |-> s]
      BY <1>2, <3>1, <3>2 DEF HasLease
    <3>4. claim'[SiteOfTask(hand[s])].by = s
      BY <3>3
    <3>5. HasLease(s)
      BY <1>2, <3>2, <3>3, <3>4 DEF HasLease
    <3> QED
      BY <1>1, <1>2, <3>1, <3>2, <3>4, <3>5
  <2> QED
    BY <2>2, <2>3
<1>3. CASE UNCHANGED vars
  BY <1>2, <1>3 DEF vars, tables, worker, Running
<1>4. ASSUME NEW p \in Process \ {s}, Working(p) PROVE Holds /\ Leaves
  <2>1. /\ pc'[s] = pc[s] /\ hand' = hand /\ from' = from
    BY <1>4, WorkingKeeps
  <2>2. claim' = claim \/ Claim(p)
    BY <1>4 DEF Working, ClaimRefused, MakeRun, Submit, AcquireRow, CreateRun, Settle, WorkFails,
       Refused, FinalUpdate, Publish, Published, ReportFails, MarkRunFailed, ShellBlocked, ShellEnds
  <2>3. Claim(p) => claim' = [claim EXCEPT ![SiteOfTask(hand[p])] = [task |-> hand[p], by |-> p]]
    BY DEF Claim
  <2>4. \A o \in Target : claim'[o] = claim[o] \/ claim'[o].by # s
    BY <2>2, <2>3
  <2>5. ASSUME pc[s] = "leaving", Running(hand[s])', ~Running(hand[s])
        PROVE  claim'[SiteOfTask(hand[s])].by # s
    <3>1. Claim(p) /\ hand[s] = hand[p]
      BY <1>4, <2>1, <2>5, RunStarts DEF Running
    <3>2. claim'[SiteOfTask(hand[s])] = [task |-> hand[p], by |-> p]
      BY <2>3, <2>5, <3>1
    <3> QED
      BY <3>2
  <2> QED
    BY <1>2, <2>1, <2>4, <2>5
<1>5. CASE Working(s)
  <2>1. hand' = hand /\ from' = from /\ pc[s] # "idle" /\ SiteOfTask(hand[s])' = SiteOfTask(hand[s])
    BY <1>5, WorkingKeeps DEF SiteOfTask
  <2>2. Claim(s) \/ ClaimRefused(s) \/ ShellBlocked(s) \/ ShellEnds(s)
    BY <1>5 DEF Working, MakeRun, Submit, AcquireRow, CreateRun, Settle, WorkFails, Refused,
       FinalUpdate, Publish, Published, ReportFails, MarkRunFailed, Prepared, At
  <2>3. CASE Claim(s)
    <3>1. /\ claim' = [claim EXCEPT ![SiteOfTask(hand[s])] = [task |-> hand[s], by |-> s]]
          /\ pc'[s] = "working" /\ pc[s] = "queued"
      BY <2>3 DEF Claim, ToClaim, At, Go
    <3>2. \A o \in Target : claim[o].by # s
      BY <1>1, <3>1
    <3>3. Holds
      BY <2>1, <3>1, <3>2
    <3> QED
      BY <3>1, <3>3 DEF At
  <2>4. CASE ClaimRefused(s)
    <3>1. claim' = claim /\ pc[s] = "queued" /\ pc'[s] = "leaving"
      BY <2>4 DEF ClaimRefused, ToClaim, At, Go
    <3>2. \A o \in Target : claim'[o].by # s
      BY <1>1, <3>1
    <3>3. ~HasLease(s)'
      <4>1. HasLease(s)' => claim'[SiteOfTask(hand[s])] = [task |-> hand[s], by |-> s]
        BY <2>1 DEF HasLease
      <4>2. [task |-> hand[s], by |-> s].by = s
        OBVIOUS
      <4> QED
        BY <2>1, <3>2, <4>1, <4>2
    <3> QED
      BY <3>2, <3>3
  <2>5. CASE ShellBlocked(s)
    <3>1. claim' = claim /\ pc'[s] = "settled"
      BY <2>5 DEF ShellBlocked, Go
    <3> QED
      BY <1>1, <2>1, <3>1 DEF At
  <2>6. CASE ShellEnds(s)
    <3>1. /\ claim' = claim /\ pc'[s] = "leaving" /\ run'[hand[s]] = "over"
          /\ pc[s] \in {"working", "settled"}
      BY <2>1, <2>6 DEF ShellEnds, Go, RunBecomes
    <3> QED
      BY <1>1, <2>1, <3>1 DEF At, Running
  <2> QED
    BY <2>2, <2>3, <2>4, <2>5, <2>6
<1>6. ASSUME NEW p \in Process \ {s}, Moving(p) PROVE Holds /\ Leaves
  <2>1. /\ pc'[s] = pc[s] /\ hand'[s] = hand[s]
        /\ pc[s] # "idle" => from'[hand[s]] = from[hand[s]]
    BY <1>6, MovingKeeps
  <2>2. claim' = claim \/ claim' = [claim EXCEPT ![SiteOfTask(hand[p])] = NoClaim]
    BY <1>6 DEF Moving, CreateRow, ShellBegin, RunLocal, SetupFails, SubmitFails, LocalEnds, Leave,
       tables
  <2>3. \A o \in Target : claim'[o] = claim[o] \/ claim'[o].by # s
    BY <2>2
  <2>4. pc[s] = "leaving" /\ Running(hand[s])' => Running(hand[s])
    BY <1>6, <2>1, MovingRuns DEF Running
  <2> QED
    BY <1>2, <2>1, <2>3, <2>4
<1>7. CASE Moving(s)
  <2>1. CASE Leave(s)
    <3>1. pc[s] = "leaving" /\ pc'[s] = "idle"
      BY <2>1 DEF Leave, LetsGo, Go, At
    <3>2. ASSUME NEW o \in Target, claim'[o].by = s PROVE FALSE
      <4>1. CASE HasLease(s)
        <5>1. claim' = [claim EXCEPT ![SiteOfTask(hand[s])] = NoClaim]
          BY <2>1, <4>1 DEF Leave
        <5>2. o # SiteOfTask(hand[s]) /\ claim[o].by = s
          BY <3>2, <5>1
        <5> QED
          BY <1>1, <5>2
      <4>2. CASE ~HasLease(s)
        <5>1. claim[o].by = s
          BY <2>1, <3>2, <4>2 DEF Leave
        <5>2. o = SiteOfTask(hand[s]) /\ claim[o].task = hand[s] /\ claim[o] # NoClaim
          BY <1>1, <5>1
        <5>3. claim[o] = [task |-> hand[s], by |-> s]
          BY <5>1, <5>2 DEF Holder
        <5> QED
          BY <4>2, <5>2, <5>3 DEF HasLease
      <4> QED
        BY <4>1, <4>2
    <3> QED
      BY <3>1, <3>2 DEF At
  <2>2. ASSUME NEW t \in Task, ShellBegin(s, t) \/ RunLocal(s, t) PROVE Holds /\ Leaves
    <3>1. claim' = claim /\ pc[s] = "idle" /\ pc'[s] \in {"queued", "local"}
      BY <2>2 DEF ShellBegin, RunLocal, At, Go
    <3> QED
      BY <1>1, <3>1 DEF At
  <2>3. CASE LocalEnds(s)
    <3>1. claim' = claim /\ pc[s] = "local" /\ pc'[s] = "idle"
      BY <2>3 DEF LocalEnds, LetsGo, At, Go
    <3> QED
      BY <1>1, <3>1 DEF At
  <2> QED
    BY <1>7, <2>1, <2>2, <2>3 DEF Moving, SetupFails, SubmitFails, Prepared, At
<1>8. CASE Around
  <2>1. ASSUME NEW a \in Approval, NEW t \in Task, NewRun(a, t) PROVE Holds /\ Leaves
    <3>1. /\ pc' = pc /\ hand' = hand /\ claim' = claim
          /\ \A u \in Task : from[u] # Nobody =>
               from'[u] = from[u] /\ run'[u] = run[u] /\ (u \in lab => u \in lab')
      BY <2>1 DEF NewRun, Fresh, Unused, RunBecomes, worker, Basics, TypeOK
    <3> QED
      BY <1>2, <3>1 DEF Running
  <2>2. ASSUME NEW t \in Task, StopRun(t) PROVE Holds /\ Leaves
    <3>1. /\ pc' = pc /\ hand' = hand /\ claim' = claim /\ from' = from
          /\ run' = [run EXCEPT ![t] = "over"] /\ lab' = lab \ {t}
      BY <2>2 DEF StopRun, RunBecomes, worker
    <3> QED
      BY <1>2, <3>1 DEF Running
  <2>3. CASE Poll \/ \E c \in Console : CancelRun(c)
    <3>1. pc' = pc /\ hand' = hand /\ claim' = claim /\ from' = from /\ UNCHANGED <<run, lab>>
      BY <2>3 DEF Poll, CancelRun, worker
    <3> QED
      BY <1>2, <3>1 DEF Running
  <2>4. ASSUME NEW p \in Process, Crash(p) PROVE Holds /\ Leaves
    <3>1. /\ from' = from /\ UNCHANGED <<run, lab>>
          /\ \A o \in Target : claim'[o] = claim[o] \/ claim'[o].by = Nobody
          /\ p = s => pc'[s] = "idle" /\ \A o \in Target : claim'[o].by # s
      <4>1. /\ from' = from /\ UNCHANGED <<run, lab>> /\ (p = s => pc'[s] = "idle")
            /\ claim' = [o \in Target |-> IF claim[o].by = p THEN [claim[o] EXCEPT !.by = Nobody]
                                                             ELSE claim[o]]
        BY <2>4 DEF Crash
      <4>2. ASSUME NEW o \in Target, claim[o].by = p PROVE claim'[o].by = Nobody
        <5>1. claim[o] \in Holder
          BY <4>2 DEF NoClaim, Process
        <5>2. claim'[o] = [claim[o] EXCEPT !.by = Nobody]
          BY <4>1, <4>2
        <5> QED
          BY <5>1, <5>2 DEF Holder
      <4>3. \A o \in Target : claim[o].by # p => claim'[o] = claim[o]
        BY <4>1
      <4> QED
        BY <4>1, <4>2, <4>3
    <3>2. CASE p = s
      BY <3>1, <3>2 DEF At
    <3>3. CASE p # s
      <4>1. pc'[s] = pc[s] /\ hand'[s] = hand[s]
        BY <2>4, <3>3 DEF Crash
      <4> QED
        BY <1>2, <3>1, <4>1 DEF Running
    <3> QED
      BY <3>2, <3>3
  <2> QED
    BY <1>8, <2>1, <2>2, <2>3, <2>4 DEF Around
<1> QED
  BY <1>3, <1>4, <1>5, <1>6, <1>7, <1>8, Steps

LEMMA KeptStep ==
  Basics /\ Made /\ Endings /\ ShellClaims /\ Kept /\ [Next]_vars => Kept'
<1> SUFFICES ASSUME Basics, Made, Endings, ShellClaims, Kept, [Next]_vars,
                    NEW t \in Task, Running(t)'
             PROVE  claim'[SiteOfTask(t)'].task = t \/ Abandoned(t)'
  BY DEF Kept
<1> DEFINE Goal == claim'[SiteOfTask(t)'].task = t \/ Abandoned(t)'
<1> /\ claim \in [Target -> Holder \cup {NoClaim}] /\ run \in [Task -> RunState]
    /\ from \in [Task -> Approval \cup {Nobody}] /\ hand \in [Process -> Task \cup {NoTask}]
    /\ pc \in [Process -> PC] /\ NoTask \notin Task /\ Nobody \notin Approval
    /\ Process = Console \cup Shell /\ Console \cap Shell = {}
  BY DEF Basics, TypeOK, Process
\* A run that was running keeps its claim, or the signs that it was let go of.
<1>1. Running(t) =>
        /\ from[t] # Nobody /\ SiteOfTask(t) \in Target
        /\ claim[SiteOfTask(t)].task = t \/ Abandoned(t)
  BY DEF Kept, Made, SiteOfTask, Running
<1>2. ASSUME Running(t), from'[t] = from[t],
             claim[SiteOfTask(t)].task = t =>
               claim'[SiteOfTask(t)].task = t \/ Abandoned(t)',
             Abandoned(t) => /\ row'[t] \in {row[t], "interrupted"}
                             /\ \A c \in Console : hand'[c] # t
      PROVE  Goal
  <2>1. SiteOfTask(t)' = SiteOfTask(t) /\ KindOfTask(t)' = KindOfTask(t)
    BY <1>2 DEF SiteOfTask, KindOfTask
  <2>2. Abandoned(t) => Abandoned(t)'
    BY <1>2, <2>1 DEF Abandoned, Broken
  <2> QED
    BY <1>1, <1>2, <2>1, <2>2
<1>3. CASE UNCHANGED vars
  BY <1>1, <1>2, <1>3 DEF vars, tables, worker, Abandoned, Running
<1>4. ASSUME NEW p \in Process, Working(p) PROVE Goal
  <2>1. from' = from /\ hand' = hand /\ hand[p] \in Task /\ SiteOfTask(hand[p]) \in Target
    BY <1>4, WorkingKeeps, SiteType
  <2>2. CASE Claim(p) /\ t = hand[p]
    <3>1. claim'[SiteOfTask(t)] = [task |-> t, by |-> p]
      BY <2>1, <2>2 DEF Claim
    <3>2. SiteOfTask(t)' = SiteOfTask(t)
      BY <2>1 DEF SiteOfTask
    <3> QED
      BY <3>1, <3>2
  <2>3. CASE ~(Claim(p) /\ t = hand[p])
    <3>1. Running(t)
      BY <1>4, <2>3, RunStarts
    <3>2. ASSUME claim[SiteOfTask(t)].task = t PROVE claim'[SiteOfTask(t)].task = t
      <4>1. CASE Claim(p)
        <5>1. /\ claim' = [claim EXCEPT ![SiteOfTask(hand[p])] = [task |-> hand[p], by |-> p]]
              /\ run'[t] = TakeOver(p)[t]
          BY <4>1 DEF Claim
        <5>2. SiteOfTask(t) # SiteOfTask(hand[p])
          <6>1. SUFFICES ASSUME SiteOfTask(t) = SiteOfTask(hand[p]) PROVE FALSE
            OBVIOUS
          <6>2. TakeOver(p)[t] = "over"
            BY <2>3, <3>1, <3>2, <4>1, <6>1 DEF TakeOver, Running
          <6> QED
            BY <5>1, <6>2 DEF Running
        <5> QED
          BY <1>1, <3>1, <3>2, <5>1, <5>2
      <4>2. CASE ~Claim(p)
        BY <1>4, <3>2, <4>2
        DEF Working, ClaimRefused, MakeRun, Submit, AcquireRow, CreateRun, Settle, WorkFails,
            Refused, FinalUpdate, Publish, Published, ReportFails, MarkRunFailed, ShellBlocked,
            ShellEnds
      <4> QED
        BY <4>1, <4>2
    <3>3. Abandoned(t) => row'[t] \in {row[t], "interrupted"} /\ \A c \in Console : hand'[c] # t
      BY <1>1, <1>4, <2>1, <3>1, RowOfOthers DEF Abandoned
    <3> QED
      BY <1>2, <2>1, <3>1, <3>2, <3>3
  <2> QED
    BY <2>2, <2>3
<1>5. ASSUME NEW p \in Process, Moving(p) PROVE Goal
  <2>1. Running(t) /\ from[t] # Nobody
    BY <1>1, <1>5, MovingRuns
  <2>2. from'[t] = from[t]
    BY <1>5, <2>1 DEF Moving, CreateRow, Fresh, Unused, ShellBegin, RunLocal, SetupFails,
       SubmitFails, LocalEnds, Leave, tables
  <2>3. ASSUME Abandoned(t)
        PROVE  row'[t] \in {row[t], "interrupted"} /\ \A c \in Console : hand'[c] # t
    <3>1. row'[t] \in {row[t], "interrupted"}
      BY <1>5, <2>1, <2>3, RowOfOthers DEF Abandoned
    <3>2. ASSUME NEW c \in Console, hand'[c] # hand[c] PROVE hand'[c] # t
      <4>1. c = p
        BY <1>5, <3>2, MovingKeeps
      <4> QED
        BY <1>5, <2>1, <3>2, <4>1 DEF Moving, CreateRow, Fresh, Unused, ShellBegin, RunLocal,
           SetupFails, SubmitFails, LocalEnds, Leave, LetsGo
    <3> QED
      BY <2>3, <3>1, <3>2 DEF Abandoned
  <2>4. ASSUME claim[SiteOfTask(t)].task = t
        PROVE  claim'[SiteOfTask(t)].task = t \/ Abandoned(t)'
    <3>1. CASE Leave(p) /\ HasLease(p) /\ SiteOfTask(t) = SiteOfTask(hand[p])
      <4>1. /\ pc[p] = "leaving" /\ hand'[p] = NoTask /\ UNCHANGED <<from, row, run, lab>>
            /\ \A q \in Process \ {p} : hand'[q] = hand[q]
        BY <3>1 DEF Leave, LetsGo, At, tables
      <4>2. hand[p] = t
        BY <2>4, <3>1, LeaseNames
      <4>3. p \in Console
        BY <2>1, <3>1, <4>1, <4>2 DEF ShellClaims, At
      <4>4. Broken(t)
        BY <2>1, <4>1, <4>2, <4>3 DEF Endings, Ending, Ended, At
      <4>5. \A c \in Console : hand'[c] # t
        BY <4>1, <4>2, <4>3 DEF Made
      <4>6. Broken(t)'
        BY <4>1, <4>4 DEF Broken, KindOfTask
      <4> QED
        BY <4>5, <4>6 DEF Abandoned
    <3>2. CASE ~(Leave(p) /\ HasLease(p) /\ SiteOfTask(t) = SiteOfTask(hand[p]))
      <4>1. claim'[SiteOfTask(t)] = claim[SiteOfTask(t)]
        <5>1. CASE Leave(p)
          BY <1>1, <2>1, <3>2, <5>1 DEF Leave
        <5>2. CASE ~Leave(p)
          BY <1>5, <5>2 DEF Moving, CreateRow, ShellBegin, RunLocal, SetupFails, SubmitFails,
             LocalEnds, tables
        <5> QED
          BY <5>1, <5>2
      <4> QED
        BY <2>4, <4>1
    <3> QED
      BY <3>1, <3>2
  <2> QED
    BY <1>2, <2>1, <2>2, <2>3, <2>4
<1>6. CASE Around
  <2>1. ASSUME NEW a \in Approval, NEW u \in Task, NewRun(a, u) PROVE Goal
    <3>1. /\ hand' = hand /\ claim' = claim /\ row' = row /\ from[u] = Nobody
          /\ from' = [from EXCEPT ![u] = a] /\ run' = [run EXCEPT ![u] = "created"]
          /\ lab' = lab \ {u}
      BY <2>1 DEF NewRun, Fresh, Unused, RunBecomes, worker
    <3> QED
      BY <1>1, <1>2, <3>1 DEF Abandoned, Running
  <2>2. ASSUME NEW c \in Console, CancelRun(c) PROVE Goal
    <3>1. /\ hand' = hand /\ claim' = claim /\ from' = from /\ UNCHANGED <<run, lab>>
          /\ row' = [row EXCEPT ![hand[c]] = "cancelling"]
      BY <2>2 DEF CancelRun, RowBecomes
    <3>2. Abandoned(t) => row'[t] = row[t]
      BY <3>1 DEF Abandoned
    <3> QED
      BY <1>1, <1>2, <3>1, <3>2 DEF Abandoned, Running
  <2>3. ASSUME NEW u \in Task, StopRun(u) PROVE Goal
    <3>1. /\ hand' = hand /\ claim' = claim /\ from' = from /\ row' = row
          /\ run' = [run EXCEPT ![u] = "over"] /\ lab' = lab \ {u}
      BY <2>3 DEF StopRun, RunBecomes, worker
    <3> QED
      BY <1>1, <1>2, <3>1 DEF Abandoned, Running
  <2>4. CASE Poll
    <3>1. /\ hand' = hand /\ claim' = claim /\ from' = from /\ UNCHANGED <<run, lab>>
          /\ row'[t] \in {row[t], "interrupted"}
      BY <2>4 DEF Poll, Marked, worker
    <3> QED
      BY <1>1, <1>2, <3>1 DEF Abandoned, Running
  <2>5. ASSUME NEW p \in Process, Crash(p) PROVE Goal
    <3>1. /\ from' = from /\ UNCHANGED <<run, lab>> /\ row' = row
          /\ \A q \in Process : hand'[q] \in {hand[q], NoTask}
          /\ claim' = [o \in Target |-> IF claim[o].by = p THEN [claim[o] EXCEPT !.by = Nobody]
                                                           ELSE claim[o]]
      BY <2>5 DEF Crash
    <3>2. ASSUME NEW o \in Target PROVE claim'[o].task = claim[o].task
      <4>1. CASE claim[o].by = p
        <5>1. claim[o] \in Holder
          BY <4>1 DEF NoClaim
        <5>2. claim'[o] = [claim[o] EXCEPT !.by = Nobody]
          BY <3>1, <4>1
        <5> QED
          BY <5>1, <5>2 DEF Holder
      <4>2. CASE claim[o].by # p
        BY <3>1, <4>2
      <4> QED
        BY <4>1, <4>2
    <3> QED
      BY <1>1, <1>2, <3>1, <3>2 DEF Abandoned, Running
  <2> QED
    BY <1>6, <2>1, <2>2, <2>3, <2>4, <2>5 DEF Around
<1> QED
  BY <1>3, <1>4, <1>5, <1>6, Steps

-----------------------------------------------------------------------------
(***************************************************************************)
(* The theorems.                                                           *)
(***************************************************************************)

LEMMA SafeAlways == Spec => [](Basics /\ Made /\ Spent)
<1>1. Init => Made /\ Spent
  BY DEF Init, Made, Spent, ToMake, Past, Held, Process
<1> QED
  BY <1>1, BasicsInit, BasicsStep, MadeStep, SpentStep, PTL DEF Spec

\* The tables keep their shape, and a process that is not idle has a task in hand.
THEOREM ReviewsType == Spec => []TypeOK
<1>1. Basics => TypeOK
  BY DEF Basics
<1> QED
  BY <1>1, BasicsAlways, PTL

\* The requests of a run are made by at most one process, and an approval of the
\* dashboard starts at most one task there, over all exits, failures and takeovers.
THEOREM WorkIsDoneOnce == Spec => []WorkedOnce
<1>1. Basics /\ Made /\ Spent => WorkedOnce
  <2> SUFFICES ASSUME Basics, Made, Spent PROVE WorkedOnce
    OBVIOUS
  <2>1. \A t \in Task : \A p, q \in worked[t] : p = q
    BY DEF Made
  <2>2. ASSUME NEW t \in Task, NEW u \in Task, from[t] = from[u],
               worked[t] \cap Console # {}, worked[u] \cap Console # {}
        PROVE  t = u
    BY <2>2 DEF Spent, Past
  <2> QED
    BY <2>1, <2>2 DEF WorkedOnce
<1> QED
  BY <1>1, SafeAlways, PTL

\* A run that says running holds its origin, unless the command run --local-lab, which
\* claims nothing, was the last to say so of it.  Only a task of the kinds "local" and
\* "source" whose report could not be written lets go of a run that still says so; a
\* business task and a command-line review never do, whatever exits, fails, is taken over
\* or is run in the local lab in between.
THEOREM RunningHoldsItsOrigin == Spec => []RunningIsClaimed
<1>1. Init => Endings /\ ShellClaims /\ Kept
  <2>1. Init => Endings
    BY DEF Init, Endings, Process
  <2>2. Init => ShellClaims
    BY DEF Init, ShellClaims, NoClaim, Process, At
  <2>3. Init => Kept
    BY DEF Init, Kept, Running
  <2> QED
    BY <2>1, <2>2, <2>3
<1>2. Kept => RunningIsClaimed
  BY DEF Kept, RunningIsClaimed, Abandoned, Broken, Running
<1> QED
  BY <1>1, <1>2, SafeAlways, EndingsStep, ShellClaimsStep, KeptStep, PTL DEF Spec
=============================================================================
