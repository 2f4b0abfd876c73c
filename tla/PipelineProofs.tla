---------------------------- MODULE PipelineProofs ----------------------------
(***************************************************************************)
(* Theorems about Pipeline, for every set of processes, runs, scopes and   *)
(* findings, and every budget.                                             *)
(***************************************************************************)
EXTENDS Pipeline, FiniteSetTheorems, TLAPS

USE PipelineAssumption

-----------------------------------------------------------------------------
(***************************************************************************)
(* Type correctness.  A job needs to be at a step of its own command, on a *)
(* run that exists, and what it works on must be linked to that run.       *)
(***************************************************************************)

\* The run of the job of a process, and the findings its fixture leaves in scope.
RunOf(p)   == job[p].run
Kept(r)    == FixtureOf[r] \cap InScope[scope[r]]
Sources(p) == {row[1] : row \in job[p].todo}

Fits(p) ==
  /\ job[p].at \in {"start", "boundary"} => job[p].cmd \in {"local", "live"}
  /\ job[p].at \in {"work", "close"}     => job[p].cmd = "local"
  /\ job[p].at = "tool"                  => job[p].cmd = "live"
  /\ job[p].at \in {"gate", "send"}      => job[p].cmd = "review"
  /\ job[p].at \in {"reserved", "called"} => job[p].cmd = "cloud"
  /\ job[p].cmd # "cloud" => job[p].run \in Run /\ scope[job[p].run] \in Scope
  /\ job[p].cmd = "local" => job[p].n \in 1..5
  /\ job[p].cmd = "live"  => job[p].n \in 1..Tools
  /\ job[p].at = "work" /\ job[p].n \in 3..5 =>
       \A row \in job[p].todo : <<job[p].run, row[1]>> \in links

Basics == TypeOK /\ \A p \in Process : job[p] # None => Fits(p)

LEMMA StagesAre ==
  /\ Len(Stages) = 5
  /\ Stages[1] = "normalize" /\ Stages[2] = "dedup" /\ Stages[3] = "triage"
  /\ Stages[4] = "evidence" /\ Stages[5] = "report"
BY DEF Stages

\* What the steps make of a job is again a job.
LEMMA JobType ==
  ASSUME NEW j \in Job
  PROVE  /\ \A s \in {"boundary", "work", "close", "tool", "send", "called"} :
              [j EXCEPT !.at = s] \in Job
         /\ \A row : [j EXCEPT !.todo = @ \ {row}] \in Job
         /\ \A todo \in SUBSET Row : [j EXCEPT !.at = "work", !.todo = todo] \in Job
         /\ [j EXCEPT !.at = "close", !.todo = {}] \in Job
         /\ \A row : CanSpend(j) => [j EXCEPT !.todo = @ \ {row}, !.own = @ + TriageCost] \in Job
         /\ j.n + 1 \in 1..(Len(Stages) + Tools) =>
              [j EXCEPT !.at = "boundary", !.n = @ + 1] \in Job
<1> j.n \in Nat /\ j.own \in Nat /\ j.todo \subseteq Row
  BY StagesAre DEF Job
<1>1. \A s \in {"boundary", "work", "close", "tool", "send", "called"} : [j EXCEPT !.at = s] \in Job
  BY DEF Job
<1>2. ASSUME NEW row PROVE [j EXCEPT !.todo = @ \ {row}] \in Job
  BY DEF Job
<1>3. \A todo \in SUBSET Row : [j EXCEPT !.at = "work", !.todo = todo] \in Job
  BY DEF Job
<1>4. [j EXCEPT !.at = "close", !.todo = {}] \in Job
  BY DEF Job
<1>5. ASSUME NEW row, CanSpend(j)
      PROVE  [j EXCEPT !.todo = @ \ {row}, !.own = @ + TriageCost] \in Job
  <2> DEFINE todo == j.todo \ {row}
             own  == j.own + TriageCost
  <2>1. todo \in SUBSET Row /\ own \in 0..Budget
    BY <1>5 DEF CanSpend
  <2>2. [j EXCEPT !.todo = todo, !.own = own] \in Job
    <3> HIDE DEF todo, own
    <3> QED BY <2>1 DEF Job
  <2> QED
    BY <2>2
<1>6. ASSUME j.n + 1 \in 1..(Len(Stages) + Tools)
      PROVE  [j EXCEPT !.at = "boundary", !.n = @ + 1] \in Job
  BY <1>6 DEF Job
<1> QED
  BY <1>1, <1>2, <1>3, <1>4, <1>5, <1>6

LEMMA NewJobType ==
  ASSUME TypeOK, NEW c \in {"local", "live", "review"}, NEW r \in Run,
         NEW s \in {"start", "gate"}, NEW todo \in SUBSET Row
  PROVE  Command(c, r, s, todo) \in Job
<1> DEFINE halted == status[r] = "stopped"
<1>1. halted \in BOOLEAN /\ 1 \in 1..(Len(Stages) + Tools) /\ 0 \in 0..Budget
  BY StagesAre
<1> HIDE DEF halted
<1>2. [cmd |-> c, run |-> r, at |-> s, n |-> 1, todo |-> todo, own |-> 0, halted |-> halted] \in Job
  BY <1>1 DEF Job
<1> QED
  BY <1>2 DEF Command, halted

\* The findings linked to a run, as rows.
LEMMA ListedType ==
  ASSUME TypeOK, NEW r \in Run
  PROVE  /\ Listed(r) \subseteq Row
         /\ \A row \in Listed(r) : <<r, row[1]>> \in links
<1> SUFFICES ASSUME NEW row \in Listed(r)
             PROVE  row \in Row /\ <<r, row[1]>> \in links
  OBVIOUS
<1>1. PICK u \in Url : <<r, u>> \in links /\ row = <<u, found[u]>>
  BY DEF Listed
<1>2. found[u] \in {"candidate", "triaged"}
  <2>1. <<r, u>> \in {l \in Run \X Url : found[l[2]] # "none"}
    BY <1>1 DEF TypeOK
  <2>2. found[u] # "none" /\ found[u] \in {"none", "candidate", "triaged"}
    BY <2>1 DEF TypeOK
  <2> QED
    BY <2>2
<1>3. row \in Url \X {"candidate", "triaged"}
  BY <1>1, <1>2
<1>4. row[1] = u
  BY <1>1
<1> QED
  BY <1>1, <1>3, <1>4 DEF Row

\* What a stage works on.
LEMMA TodoType ==
  ASSUME TypeOK, NEW r \in Run, scope[r] \in Scope, NEW n \in 1..5
  PROVE  /\ TodoOf(r, Stages[n]) \in SUBSET Row
         /\ n \in 3..5 => \A row \in TodoOf(r, Stages[n]) : <<r, row[1]>> \in links
<1>1. {<<u, "candidate">> : u \in Kept(r)} \in SUBSET Row
  BY DEF Kept, Row
<1>2. CASE n = 1
  BY <1>2, StagesAre DEF TodoOf
<1>3. CASE n = 2
  BY <1>1, <1>3, StagesAre DEF TodoOf, Kept
<1>4. CASE n \in 3..5
  <2>1. n = 3 \/ n = 4 \/ n = 5
    BY <1>4
  <2>2. TodoOf(r, Stages[n]) = Listed(r)
    BY <2>1, StagesAre DEF TodoOf
  <2> QED
    BY <2>2, ListedType
<1> QED
  BY <1>2, <1>3, <1>4

\* The assumptions on numbers.
LEMMA Numbers ==
  /\ Tools \in Nat \ {0} /\ TriageCost \in Nat /\ CallCost \in Nat \ {0}
  /\ Budget \in Nat /\ MaxCommands \in Nat
BY PipelineAssumption

\* The parts of the type invariant.
RunsOK ==
  /\ scope \in [Run -> Scope \cup {None}] /\ status \in [Run -> Status]
  /\ \A r \in Run : scope[r] = None <=> status[r] = "none"
BooksOK ==
  /\ found \in [Url -> {"none", "candidate", "triaged"}]
  /\ links \subseteq {l \in Run \X Url : found[l[2]] # "none"}
  /\ packed \subseteq links /\ report \in [Run -> SUBSET Row]
JobsOK  == job \in [Process -> Job \cup {None}]
CloudOK == spent \in [{"triage", "cloud"} -> Nat] /\ calls \in Nat
RestOK  == stop \in BOOLEAN /\ told \subseteq Url /\ late \subseteq Process
GivenOK == given \in 0..MaxCommands

LEMMA Parts == TypeOK <=> RunsOK /\ BooksOK /\ JobsOK /\ CloudOK /\ RestOK /\ GivenOK
BY DEF TypeOK, RunsOK, BooksOK, JobsOK, CloudOK, RestOK, GivenOK

\* What a step leaves alone keeps its type.
LEMMA KeptParts ==
  ASSUME TypeOK
  PROVE  /\ UNCHANGED runs  => RunsOK'
         /\ UNCHANGED books => BooksOK'
         /\ UNCHANGED cloud => CloudOK'
         /\ UNCHANGED given => GivenOK'
         /\ UNCHANGED <<stop, told>> /\ late' \subseteq Process => RestOK'
<1> RunsOK /\ BooksOK /\ CloudOK /\ RestOK /\ GivenOK
  BY Parts
<1>1. UNCHANGED runs => RunsOK'
  BY DEF RunsOK, runs
<1>2. UNCHANGED books => BooksOK'
  BY DEF BooksOK, books
<1>3. UNCHANGED cloud => CloudOK'
  BY DEF CloudOK, cloud
<1>4. UNCHANGED given => GivenOK'
  BY DEF GivenOK
<1>5. UNCHANGED <<stop, told>> /\ late' \subseteq Process => RestOK'
  BY DEF RestOK
<1> QED
  BY <1>1, <1>2, <1>3, <1>4, <1>5

\* A command that is given is counted.
LEMMA OrderType == ASSUME TypeOK, NEW p \in Process, Order(p) PROVE GivenOK'
BY Numbers DEF TypeOK, Order, GivenOK

\* A status is written only for a run that exists.
LEMMA StatusType ==
  ASSUME TypeOK, NEW r \in Run, scope[r] \in Scope, NEW st \in Status \ {"none"},
         SetStatus(r, st), UNCHANGED scope
  PROVE  RunsOK'
BY DEF TypeOK, SetStatus, RunsOK

\* The scope of a run that exists, and a link, are never taken back.
Grows ==
  /\ \A r \in Run : scope[r] \in Scope => scope'[r] = scope[r]
  /\ links \subseteq links'

LEMMA OthersFit ==
  ASSUME Basics, NEW p \in Process, \A q \in Process \ {p} : job'[q] = job[q], Grows
  PROVE  \A q \in Process \ {p} : job'[q] # None => Fits(q)'
<1> SUFFICES ASSUME NEW q \in Process \ {p}, job'[q] # None PROVE Fits(q)'
  OBVIOUS
<1>1. job'[q] = job[q] /\ job[q] # None
  OBVIOUS
<1>2. Fits(q)
  BY <1>1 DEF Basics
<1> QED
  BY <1>1, <1>2 DEF Fits, Grows

\* A step of one process, with the job it leaves.
LEMMA JobStep ==
  ASSUME Basics, NEW p \in Process, NEW j \in Job \cup {None},
         job' = [job EXCEPT ![p] = j], Grows,
         RunsOK', BooksOK', CloudOK', RestOK', GivenOK',
         j # None => Fits(p)'
  PROVE  Basics'
<1>1. job'[p] = j /\ (\A q \in Process \ {p} : job'[q] = job[q]) /\ JobsOK'
  BY DEF Basics, TypeOK, JobsOK
<1>2. TypeOK'
  BY <1>1 DEF TypeOK, RunsOK, BooksOK, JobsOK, CloudOK, RestOK, GivenOK
<1>3. \A q \in Process \ {p} : job'[q] # None => Fits(q)'
  BY <1>1, OthersFit
<1> QED
  BY <1>1, <1>2, <1>3 DEF Basics

\* A step that changes no job.
LEMMA QuietStep ==
  ASSUME Basics, job' = job, Grows, RunsOK', BooksOK', CloudOK', RestOK', GivenOK'
  PROVE  Basics'
<1>1. JobsOK'
  BY DEF Basics, TypeOK, JobsOK
<1>2. TypeOK'
  BY <1>1 DEF TypeOK, RunsOK, BooksOK, JobsOK, CloudOK, RestOK, GivenOK
<1>3. ASSUME NEW q \in Process, job'[q] # None PROVE Fits(q)'
  <2>1. Fits(q)
    BY <1>3 DEF Basics
  <2> QED
    BY <2>1 DEF Fits, Grows
<1> QED
  BY <1>2, <1>3 DEF Basics

LEMMA BasicsInit == Init => Basics
<1> SUFFICES ASSUME Init PROVE Basics
  OBVIOUS
<1>1. RunsOK
  BY DEF Init, RunsOK, Status
<1>2. BooksOK
  BY DEF Init, BooksOK
<1>3. JobsOK /\ \A p \in Process : job[p] = None
  BY DEF Init, JobsOK
<1>4. CloudOK
  BY DEF Init, CloudOK
<1>5. RestOK
  BY DEF Init, RestOK
<1>6. GivenOK
  BY Numbers DEF Init, GivenOK
<1> QED
  BY <1>1, <1>2, <1>3, <1>4, <1>5, <1>6, Parts DEF Basics

\* Every step keeps the types.
LEMMA BasicsStep ==
  ASSUME Basics, [Next]_vars
  PROVE  Basics'
<1> TypeOK
  BY DEF Basics
<1>1. CASE UNCHANGED vars
  <2>1. /\ RunsOK' /\ BooksOK' /\ CloudOK' /\ GivenOK' /\ RestOK'
    BY <1>1, KeptParts, Parts DEF vars, RestOK
  <2> QED
    BY <1>1, <2>1, QuietStep DEF vars, runs, books, Grows
<1>2. ASSUME NEW p \in Process, Step(p), late' \subseteq Process PROVE Basics'
  <2> USE <1>2
  <2>1. ASSUME NEW r \in Run, NEW s \in Scope, NewRun(p, r, s) PROVE Basics'
    <3>1. RunsOK'
      BY <2>1 DEF TypeOK, NewRun, SetStatus, Status, RunsOK
    <3>2. Grows /\ job' = job /\ BooksOK' /\ CloudOK' /\ RestOK' /\ GivenOK'
      BY <2>1, KeptParts DEF NewRun, Grows, books
    <3> QED
      BY <3>1, <3>2, QuietStep
  <2>2. ASSUME NEW rs \in SUBSET Run, Stop(p, rs) PROVE Basics'
    <3>1. RunsOK'
      BY <2>2 DEF TypeOK, Stop, Status, RunsOK
    <3>2. RestOK'
      BY <2>2 DEF Stop, TypeOK, RestOK
    <3>3. Grows /\ job' = job /\ BooksOK' /\ CloudOK' /\ GivenOK'
      BY <2>2, KeptParts, OrderType DEF Stop, Grows, books
    <3> QED
      BY <3>1, <3>2, <3>3, QuietStep
  <2>3. ASSUME NEW r \in Run, NEW resume \in BOOLEAN, BeginLocal(p, r, resume) PROVE Basics'
    <3> DEFINE j == Command("local", r, "start", {})
    <3>1. j \in Job
      BY NewJobType
    <3>2. /\ job' = [job EXCEPT ![p] = j]
          /\ scope[r] \in Scope /\ UNCHANGED scope
      <4>1. job' = [job EXCEPT ![p] = j] /\ scope[r] # None /\ UNCHANGED runs
        BY <2>3 DEF BeginLocal
      <4> QED
        BY <4>1 DEF TypeOK, runs
    <3>3. j.cmd = "local" /\ j.run = r /\ j.at = "start" /\ j.n = 1
      BY DEF Command
    <3> HIDE DEF j
    <3>4. RestOK'
      BY <2>3 DEF BeginLocal, TypeOK, RestOK
    <3>5. Grows /\ RunsOK' /\ BooksOK' /\ CloudOK' /\ GivenOK'
      BY <2>3, KeptParts, OrderType DEF BeginLocal, Grows, books, runs
    <3>6. job'[p] = j
      BY <3>2 DEF TypeOK
    <3>7. Fits(p)'
      BY <3>2, <3>3, <3>6 DEF Fits
    <3> QED
      BY <3>1, <3>2, <3>4, <3>5, <3>7, JobStep
  <2>4. ASSUME NEW r \in Run, NEW resume \in BOOLEAN, BeginNothing(p, r, resume) PROVE Basics'
    <3>1. RunsOK'
      BY <2>4, StatusType DEF TypeOK, BeginNothing, Status
    <3>2. RestOK'
      BY <2>4 DEF BeginNothing, TypeOK, RestOK
    <3>3. Grows /\ job' = job /\ BooksOK' /\ CloudOK' /\ GivenOK'
      BY <2>4, KeptParts, OrderType DEF BeginNothing, Grows, books
    <3> QED
      BY <3>1, <3>2, <3>3, QuietStep
  <2>5. CASE Start(p)
    <3> DEFINE r == job[p].run
    <3>1. job[p] \in Job /\ Fits(p) /\ job[p].at = "start" /\ job[p] # None
      BY <2>5 DEF Start, At, Basics, TypeOK
    <3>2. r \in Run /\ scope[r] \in Scope
      BY <3>1 DEF Fits
    <3>3. Grows /\ BooksOK' /\ CloudOK' /\ RestOK' /\ GivenOK' /\ UNCHANGED scope
      BY <2>5, KeptParts DEF Start, Grows, books
    <3>4. CASE SetStatus(r, "refused") /\ Over(p)
      <4>1. RunsOK'
        BY <3>2, <3>3, <3>4, StatusType DEF Status
      <4> QED
        BY <3>3, <3>4, <4>1, JobStep DEF Over
    <3>5. CASE /\ IF job[p].cmd = "local" THEN SetStatus(r, "running") ELSE UNCHANGED status
               /\ ToStep(p, "boundary")
      <4>1. RunsOK'
        BY <3>2, <3>3, <3>5, StatusType, KeptParts DEF Status, runs
      <4> DEFINE j == [job[p] EXCEPT !.at = "boundary"]
      <4>2. j \in Job /\ job' = [job EXCEPT ![p] = j]
        BY <3>1, <3>5, JobType DEF ToStep
      <4>3. job'[p] = j
        BY <4>2 DEF TypeOK
      <4>4. Fits(p)'
        BY <3>1, <3>3, <4>3 DEF Fits, Job
      <4> QED
        BY <3>3, <4>1, <4>2, <4>4, JobStep
    <3> QED
      BY <2>5, <3>4, <3>5 DEF Start
  <2>6. CASE Boundary(p)
    <3> DEFINE r == job[p].run
    <3>1. job[p] \in Job /\ Fits(p) /\ job[p].at = "boundary" /\ job[p] # None
      BY <2>6 DEF Boundary, At, Basics, TypeOK
    <3>2. r \in Run /\ scope[r] \in Scope
      BY <3>1 DEF Fits
    <3>3. Grows /\ BooksOK' /\ CloudOK' /\ RestOK' /\ GivenOK' /\ UNCHANGED <<scope, links>>
      BY <2>6, KeptParts DEF Boundary, Grows, books
    <3>4. CASE SetStatus(r, "stopped") /\ Over(p)
      <4>1. RunsOK'
        BY <3>2, <3>3, <3>4, StatusType DEF Status
      <4> QED
        BY <3>3, <3>4, <4>1, JobStep DEF Over
    <3>5. CASE job[p].cmd = "live" /\ ToStep(p, "tool") /\ UNCHANGED status
      <4>1. RunsOK'
        BY <3>3, <3>5, KeptParts DEF runs
      <4> DEFINE j == [job[p] EXCEPT !.at = "tool"]
      <4>2. j \in Job /\ job' = [job EXCEPT ![p] = j]
        BY <3>1, <3>5, JobType DEF ToStep
      <4>3. job'[p] = j
        BY <4>2 DEF TypeOK
      <4>4. Fits(p)'
        BY <3>1, <3>3, <3>5, <4>3 DEF Fits, Job
      <4> QED
        BY <3>3, <4>1, <4>2, <4>4, JobStep
    <3>6. CASE /\ job[p].cmd # "live" /\ UNCHANGED status
               /\ job' = [job EXCEPT ![p].at = "work",
                                     ![p].todo = TodoOf(r, Stages[job[p].n])]
      <4> DEFINE todo == TodoOf(r, Stages[job[p].n])
                 j    == [job[p] EXCEPT !.at = "work", !.todo = todo]
      <4>1. RunsOK'
        BY <3>3, <3>6, KeptParts DEF runs
      <4>2. job[p].cmd = "local" /\ job[p].n \in 1..5
        BY <3>1, <3>6 DEF Fits
      <4>3. todo \in SUBSET Row /\ (job[p].n \in 3..5 => \A row \in todo : <<r, row[1]>> \in links)
        BY <3>2, <4>2, TodoType
      <4>4. job' = [job EXCEPT ![p] = j]
        BY <3>6
      <4>5. j \in Job
        BY <3>1, <4>3, JobType
      <4>6. job'[p] = j
        BY <4>4 DEF TypeOK
      <4>7. j.todo = todo /\ j.at = "work" /\ j.cmd = "local" /\ j.n = job[p].n /\ j.run = r
        BY <3>1, <4>2 DEF Job
      <4> HIDE DEF j, todo
      <4>8. Fits(p)'
        BY <3>2, <3>3, <4>2, <4>3, <4>6, <4>7 DEF Fits
      <4> QED
        BY <3>3, <4>1, <4>4, <4>5, <4>8, JobStep
    <3> QED
      BY <2>6, <3>4, <3>5, <3>6 DEF Boundary
  <2>7. ASSUME NEW row \in job[p].todo, Insert(p, row) \/ Triage(p, row) \/ Package(p, row)
        PROVE  Basics'
    <3> DEFINE r == job[p].run
    <3>1. job[p] \in Job /\ Fits(p) /\ job[p].at = "work" /\ job[p] # None
      BY <2>7 DEF Insert, Triage, Package, Working, At, Basics, TypeOK
    <3>2. r \in Run /\ scope[r] \in Scope /\ row \in Row /\ row[1] \in Url
      BY <3>1 DEF Fits, Job, Row
    <3>3. RunsOK' /\ GivenOK' /\ RestOK' /\ UNCHANGED <<scope, report>>
      BY <2>7, KeptParts DEF Insert, Triage, Package, runs
    <3>4. BooksOK' /\ Grows
      <4>1. CASE Insert(p, row)
        BY <3>2, <3>3, <4>1 DEF Insert, TypeOK, BooksOK, Grows
      <4>2. CASE Triage(p, row)
        BY <3>2, <3>3, <4>2 DEF Triage, TypeOK, BooksOK, Grows
      <4>3. CASE Package(p, row)
        <5>1. job[p].n \in 1..5 /\ Stages[job[p].n] = "evidence"
          BY <3>1, <4>3 DEF Package, Working, Fits
        <5>2. job[p].n = 4
          <6> job[p].n \in {1, 2, 3, 4, 5}
            BY <5>1
          <6> QED
            BY <5>1, StagesAre
        <5>3. <<r, row[1]>> \in links
          BY <3>1, <5>2 DEF Fits
        <5> QED
          BY <3>3, <4>3, <5>3 DEF Package, TypeOK, BooksOK, Grows
      <4> QED
        BY <2>7, <4>1, <4>2, <4>3
    <3>5. CloudOK'
      <4>1. CASE Triage(p, row)
        BY <4>1, Numbers DEF Triage, TypeOK, CloudOK
      <4>2. CASE Insert(p, row) \/ Package(p, row)
        BY <4>2, KeptParts DEF Insert, Package
      <4> QED
        BY <2>7, <4>1, <4>2
    <3>6. PICK j \in Job :
            /\ job' = [job EXCEPT ![p] = j]
            /\ j.todo = job[p].todo \ {row}
            /\ j.at = "work" /\ j.cmd = job[p].cmd /\ j.run = r /\ j.n = job[p].n
      <4>1. CASE Done(p, row)
        <5> DEFINE j == [job[p] EXCEPT !.todo = @ \ {row}]
        <5>1. j \in Job /\ job' = [job EXCEPT ![p] = j]
          BY <3>1, <4>1, JobType DEF Done
        <5>2. /\ j.todo = job[p].todo \ {row}
              /\ j.at = "work" /\ j.cmd = job[p].cmd /\ j.run = r /\ j.n = job[p].n
          BY <3>1 DEF Job
        <5> QED
          BY <5>1, <5>2
      <4>2. CASE /\ CanSpend(job[p])
                 /\ job' = [job EXCEPT ![p].todo = @ \ {row}, ![p].own = @ + TriageCost]
        <5> DEFINE j == [job[p] EXCEPT !.todo = @ \ {row}, !.own = @ + TriageCost]
        <5>1. j \in Job /\ job' = [job EXCEPT ![p] = j]
          BY <3>1, <4>2, JobType
        <5>2. /\ j.todo = job[p].todo \ {row}
              /\ j.at = "work" /\ j.cmd = job[p].cmd /\ j.run = r /\ j.n = job[p].n
          BY <3>1 DEF Job
        <5> QED
          BY <5>1, <5>2
      <4> QED
        BY <2>7, <4>1, <4>2 DEF Insert, Triage, Package
    <3>7. job'[p] = j
      BY <3>6 DEF TypeOK
    <3>8. Fits(p)'
      BY <3>1, <3>4, <3>6, <3>7 DEF Fits, Grows
    <3> QED
      BY <3>3, <3>4, <3>5, <3>6, <3>8, JobStep
  <2>8. CASE Write(p)
    <3> DEFINE j == [job[p] EXCEPT !.at = "close", !.todo = {}]
    <3>1. job[p] \in Job /\ Fits(p) /\ job[p].at = "work" /\ job[p] # None
      BY <2>8 DEF Write, Working, At, Basics, TypeOK
    <3>2. job[p].run \in Run /\ job[p].todo \in SUBSET Row
      BY <3>1 DEF Fits, Job
    <3>3. RunsOK' /\ GivenOK' /\ RestOK' /\ CloudOK' /\ Grows /\ UNCHANGED scope
      BY <2>8, KeptParts DEF Write, runs, Grows
    <3>4. BooksOK'
      BY <2>8, <3>2 DEF Write, TypeOK, BooksOK
    <3>5. j \in Job /\ job' = [job EXCEPT ![p] = j]
      BY <2>8, <3>1, JobType DEF Write
    <3>6. job'[p] = j
      BY <3>5 DEF TypeOK
    <3>7. Fits(p)'
      BY <3>1, <3>3, <3>6 DEF Fits, Job
    <3> QED
      BY <3>3, <3>4, <3>5, <3>7, JobStep
  <2>9. CASE EndStage(p)
    <3> DEFINE j == [job[p] EXCEPT !.at = "boundary", !.n = @ + 1]
    <3>1. job[p] \in Job /\ Fits(p) /\ job[p].at = "work" /\ job[p] # None
      BY <2>9 DEF EndStage, At, Basics, TypeOK
    <3>2. job[p].n \in 1..5 /\ job[p].n # 5
      BY <2>9, <3>1, StagesAre DEF EndStage, Working, At, Fits
    <3>3. job[p].n + 1 \in 1..(Len(Stages) + Tools) /\ job[p].n + 1 \in 1..5
      BY <3>2, StagesAre, Numbers
    <3>4. j \in Job /\ job' = [job EXCEPT ![p] = j]
      BY <2>9, <3>1, <3>3, JobType DEF EndStage
    <3>5. job'[p] = j
      BY <3>4 DEF TypeOK
    <3>6. RunsOK' /\ GivenOK' /\ RestOK' /\ CloudOK' /\ BooksOK' /\ Grows /\ UNCHANGED scope
      BY <2>9, KeptParts DEF EndStage, runs, books, Grows
    <3>7. Fits(p)'
      BY <3>1, <3>3, <3>5, <3>6 DEF Fits, Job
    <3> QED
      BY <3>4, <3>6, <3>7, JobStep
  <2>10. CASE Close(p) \/ Fail(p)
    <3>1. job[p] \in Job /\ Fits(p) /\ job[p].at \in {"work", "close"} /\ job[p] # None
      BY <2>10 DEF Close, Fail, At, Basics, TypeOK
    <3>2. job[p].run \in Run /\ scope[job[p].run] \in Scope
      BY <3>1 DEF Fits
    <3>3. BooksOK' /\ CloudOK' /\ RestOK' /\ GivenOK' /\ Grows /\ UNCHANGED scope /\ Over(p)
      BY <2>10, KeptParts DEF Close, Fail, Grows, books
    <3>4. RunsOK'
      BY <2>10, <3>2, <3>3, StatusType DEF Close, Fail, Status
    <3> QED
      BY <3>3, <3>4, JobStep DEF Over
  <2>11. CASE Exit(p) \/ Send(p) \/ EndCall(p)
    <3>1. /\ RunsOK' /\ BooksOK' /\ CloudOK' /\ RestOK' /\ GivenOK' /\ Grows /\ Over(p)
      BY <2>11, KeptParts DEF Exit, Send, EndCall, Grows, books, runs
    <3> QED
      BY <3>1, JobStep DEF Over
  <2>12. ASSUME NEW r \in Run, RefuseLive(p, r) PROVE Basics'
    <3>1. scope[r] \in Scope /\ UNCHANGED scope
      BY <2>12 DEF RefuseLive, TypeOK
    <3>2. RunsOK'
      BY <2>12, <3>1, StatusType DEF RefuseLive, Status
    <3>3. Grows /\ job' = job /\ BooksOK' /\ CloudOK' /\ RestOK' /\ GivenOK'
      BY <2>12, KeptParts, OrderType DEF RefuseLive, Grows, books
    <3> QED
      BY <3>2, <3>3, QuietStep
  <2>13. ASSUME NEW r \in Run, NEW targets \in LiveTargets, BeginLive(p, r, targets) PROVE Basics'
    <3> DEFINE todo == {<<u, "candidate">> : u \in targets}
               j    == Command("live", r, "start", todo)
    <3>1. todo \in SUBSET Row
      BY DEF LiveTargets, Row
    <3> HIDE DEF todo
    <3>2. j \in Job
      BY <3>1, NewJobType
    <3>3. job' = [job EXCEPT ![p] = j] /\ scope[r] \in Scope /\ UNCHANGED scope
      BY <2>13 DEF BeginLive, runs, todo
    <3>4. j.cmd = "live" /\ j.run = r /\ j.at = "start" /\ j.n = 1
      BY DEF Command
    <3> HIDE DEF j
    <3>5. Grows /\ RunsOK' /\ BooksOK' /\ CloudOK' /\ RestOK' /\ GivenOK'
      BY <2>13, KeptParts, OrderType DEF BeginLive, Grows, books, runs
    <3>6. job'[p] = j
      BY <3>3 DEF TypeOK
    <3>7. Fits(p)'
      BY <3>3, <3>4, <3>6, Numbers DEF Fits
    <3> QED
      BY <3>2, <3>3, <3>5, <3>7, JobStep
  <2>14. CASE Tool(p)
    <3>1. job[p] \in Job /\ Fits(p) /\ job[p].at = "tool" /\ job[p] # None
      BY <2>14 DEF Tool, At, Basics, TypeOK
    <3>2. job[p].run \in Run /\ scope[job[p].run] \in Scope /\ job[p].cmd = "live"
      BY <3>1 DEF Fits
    <3>3. Grows /\ BooksOK' /\ CloudOK' /\ RestOK' /\ GivenOK' /\ UNCHANGED scope
      BY <2>14, KeptParts DEF Tool, Grows, books
    <3>4. CASE /\ job[p].n < Tools
               /\ job' = [job EXCEPT ![p].at = "boundary", ![p].n = @ + 1]
               /\ UNCHANGED status
      <4> DEFINE j == [job[p] EXCEPT !.at = "boundary", !.n = @ + 1]
      <4>1. job[p].n \in 1..Tools /\ job[p].n + 1 \in 1..Tools
        BY <3>1, <3>2, <3>4, Numbers DEF Fits
      <4>2. job[p].n + 1 \in 1..(Len(Stages) + Tools)
        BY <4>1, StagesAre, Numbers
      <4>3. j \in Job /\ job' = [job EXCEPT ![p] = j]
        BY <3>1, <3>4, <4>2, JobType
      <4>4. job'[p] = j
        BY <4>3 DEF TypeOK
      <4>5. RunsOK'
        BY <3>3, <3>4, KeptParts DEF runs
      <4>6. Fits(p)'
        BY <3>1, <3>2, <3>3, <4>1, <4>4 DEF Fits, Job
      <4> QED
        BY <3>3, <4>3, <4>5, <4>6, JobStep
    <3>5. ASSUME NEW st \in {"completed_tools", "refused"},
                 SetStatus(job[p].run, st), Over(p)
          PROVE  Basics'
      <4>1. RunsOK'
        BY <3>2, <3>3, <3>5, StatusType DEF Status
      <4> QED
        BY <3>3, <3>5, <4>1, JobStep DEF Over
    <3> QED
      BY <2>14, <3>4, <3>5 DEF Tool
  <2>15. ASSUME NEW r \in Run, NEW u \in Url, TellDigest(p, r, u) PROVE Basics'
    <3>1. RestOK'
      BY <2>15 DEF TellDigest, TypeOK, RestOK
    <3>2. Grows /\ job' = job /\ RunsOK' /\ BooksOK' /\ CloudOK' /\ GivenOK'
      BY <2>15, KeptParts, OrderType DEF TellDigest, Grows, books, runs
    <3> QED
      BY <3>1, <3>2, QuietStep
  <2>16. ASSUME NEW r \in Run, NEW u \in Url, NEW digest \in told, BeginReview(p, r, u, digest)
         PROVE  Basics'
    <3> DEFINE todo == {<<u, found[u]>>}
               j    == Command("review", r, "gate", todo)
    <3>1. <<r, u>> \in links /\ scope[r] \in Scope
      BY <2>16 DEF BeginReview, Reviewable, TypeOK
    <3>2. todo \in SUBSET Row
      <4>1. <<u, found[u]>> \in Listed(r)
        BY <3>1 DEF Listed
      <4> QED
        BY <4>1, ListedType
    <3> HIDE DEF todo
    <3>3. j \in Job
      BY <3>2, NewJobType
    <3>4. job' = [job EXCEPT ![p] = j] /\ UNCHANGED scope
      BY <2>16 DEF BeginReview, runs, todo
    <3>5. j.cmd = "review" /\ j.run = r /\ j.at = "gate"
      BY DEF Command
    <3> HIDE DEF j
    <3>6. Grows /\ RunsOK' /\ BooksOK' /\ CloudOK' /\ RestOK' /\ GivenOK'
      BY <2>16, KeptParts, OrderType DEF BeginReview, Grows, books, runs
    <3>7. job'[p] = j
      BY <3>4 DEF TypeOK
    <3>8. Fits(p)'
      BY <3>1, <3>4, <3>5, <3>7 DEF Fits
    <3> QED
      BY <3>3, <3>4, <3>6, <3>8, JobStep
  <2>17. CASE Gate(p)
    <3>1. job[p] \in Job /\ Fits(p) /\ job[p].at = "gate" /\ job[p] # None
      BY <2>17 DEF Gate, At, Basics, TypeOK
    <3>2. /\ RunsOK' /\ BooksOK' /\ CloudOK' /\ RestOK' /\ GivenOK' /\ Grows /\ UNCHANGED scope
      BY <2>17, KeptParts DEF Gate, Grows, books, runs
    <3>3. CASE Over(p)
      BY <3>2, <3>3, JobStep DEF Over
    <3>4. CASE ToStep(p, "send")
      <4> DEFINE j == [job[p] EXCEPT !.at = "send"]
      <4>1. j \in Job /\ job' = [job EXCEPT ![p] = j]
        BY <3>1, <3>4, JobType DEF ToStep
      <4>2. job'[p] = j
        BY <4>1 DEF TypeOK
      <4>3. Fits(p)'
        BY <3>1, <3>2, <4>2 DEF Fits, Job
      <4> QED
        BY <3>2, <4>1, <4>3, JobStep
    <3> QED
      BY <2>17, <3>3, <3>4 DEF Gate
  <2>18. CASE Reserve(p)
    <3> DEFINE j == [cmd |-> "cloud", run |-> None, at |-> "reserved", n |-> 1,
                     todo |-> {}, own |-> 0, halted |-> FALSE]
    <3>1. j \in Job
      BY StagesAre, Numbers DEF Job
    <3>2. job' = [job EXCEPT ![p] = j]
      BY <2>18 DEF Reserve
    <3>3. CloudOK'
      BY <2>18, Numbers DEF Reserve, TypeOK, CloudOK
    <3>4. Grows /\ RunsOK' /\ BooksOK' /\ RestOK' /\ GivenOK'
      BY <2>18, KeptParts, OrderType DEF Reserve, Grows, books, runs
    <3>5. job'[p] = j
      BY <3>2 DEF TypeOK
    <3>6. Fits(p)'
      BY <3>5 DEF Fits
    <3> QED
      BY <3>1, <3>2, <3>3, <3>4, <3>6, JobStep
  <2>19. CASE Call(p)
    <3> DEFINE j == [job[p] EXCEPT !.at = "called"]
    <3>1. job[p] \in Job /\ Fits(p) /\ job[p].at = "reserved" /\ job[p] # None
      BY <2>19 DEF Call, At, Basics, TypeOK
    <3>2. CloudOK'
      BY <2>19 DEF Call, TypeOK, CloudOK
    <3>3. Grows /\ RunsOK' /\ BooksOK' /\ RestOK' /\ GivenOK' /\ UNCHANGED scope
      BY <2>19, KeptParts DEF Call, Grows, books, runs
    <3>4. j \in Job /\ job' = [job EXCEPT ![p] = j]
      BY <2>19, <3>1, JobType DEF Call, ToStep
    <3>5. job'[p] = j
      BY <3>4 DEF TypeOK
    <3>6. Fits(p)'
      BY <3>1, <3>3, <3>5 DEF Fits, Job
    <3> QED
      BY <3>2, <3>3, <3>4, <3>6, JobStep
  <2> QED
    <3>1. ASSUME NEW row \in (IF job[p] = None THEN {} ELSE job[p].todo),
                 Insert(p, row) \/ Triage(p, row) \/ Package(p, row)
          PROVE  Basics'
      BY <2>7, <3>1
    <3> QED
      BY <2>1, <2>2, <2>3, <2>4, <2>5, <2>6, <2>8, <2>9, <2>10, <2>11, <2>12, <2>13, <2>14,
         <2>15, <2>16, <2>17, <2>18, <2>19, <3>1 DEF Step
<1>3. ASSUME Next PROVE late' \subseteq Process
  BY <1>3 DEF Next, TypeOK
<1> QED
  BY <1>1, <1>2, <1>3 DEF Next

LEMMA BasicsAlways == Spec => []Basics
<1>1. Basics /\ [Next]_vars => Basics'
  BY BasicsStep
<1> QED
  BY <1>1, BasicsInit, PTL DEF Spec

\* What the tables, the jobs and the ledger may hold: no run has a status and no
\* scope, nothing is packaged that is not linked, no link is to a finding that is not
\* there, however many processes write.
THEOREM PipelineType == Spec => []TypeOK
<1>1. Basics => TypeOK
  BY DEF Basics
<1> QED
  BY <1>1, BasicsAlways, PTL
-----------------------------------------------------------------------------
(***************************************************************************)
(* The marker.                                                             *)
(***************************************************************************)

\* A step of one process leaves the jobs of the others alone.
LEMMA OthersStay ==
  ASSUME TypeOK, NEW p \in Process, Step(p)
  PROVE  \A q \in Process \ {p} : job'[q] = job[q]
<1> USE DEF TypeOK, ToStep, Over, Done
<1>1. ASSUME NEW r \in Run, NEW s \in Scope, NewRun(p, r, s)
      PROVE  \A q \in Process \ {p} : job'[q] = job[q]
  BY <1>1 DEF NewRun
<1>2. ASSUME NEW r \in Run, NEW resume \in BOOLEAN,
             BeginLocal(p, r, resume) \/ BeginNothing(p, r, resume) \/ RefuseLive(p, r)
      PROVE  \A q \in Process \ {p} : job'[q] = job[q]
  BY <1>2 DEF BeginLocal, BeginNothing, RefuseLive
<1>3. ASSUME NEW r \in Run, NEW targets \in LiveTargets, BeginLive(p, r, targets)
      PROVE  \A q \in Process \ {p} : job'[q] = job[q]
  BY <1>3 DEF BeginLive
<1>4. ASSUME NEW r \in Run, NEW u \in Url, NEW digest \in told, BeginReview(p, r, u, digest)
      PROVE  \A q \in Process \ {p} : job'[q] = job[q]
  BY <1>4 DEF BeginReview
<1>5. ASSUME NEW rs \in SUBSET Run, Stop(p, rs)
      PROVE  \A q \in Process \ {p} : job'[q] = job[q]
  BY <1>5 DEF Stop
<1>6. CASE Start(p) \/ Boundary(p)
  BY <1>6 DEF Start, Boundary
<1>7. ASSUME NEW row, Insert(p, row) \/ Triage(p, row) \/ Package(p, row)
      PROVE  \A q \in Process \ {p} : job'[q] = job[q]
  BY <1>7 DEF Insert, Triage, Package
<1>8. CASE Write(p) \/ EndStage(p) \/ Close(p) \/ Fail(p) \/ Exit(p)
  BY <1>8 DEF Write, EndStage, Close, Fail, Exit
<1>9. CASE Tool(p) \/ Gate(p) \/ Send(p) \/ Reserve(p) \/ Call(p) \/ EndCall(p)
  BY <1>9 DEF Tool, Gate, Send, Reserve, Call, EndCall
<1>10. ASSUME NEW r \in Run, NEW u \in Url, TellDigest(p, r, u)
       PROVE  \A q \in Process \ {p} : job'[q] = job[q]
  BY <1>10 DEF TellDigest
<1> HIDE DEF TypeOK, ToStep, Over, Done
<1> QED
  BY <1>1, <1>2, <1>3, <1>4, <1>5, <1>6, <1>7, <1>8, <1>9, <1>10 DEF Step

\* A process that has finished something under the marker is at a boundary, or about to
\* close its run.
LateWaits ==
  \A p \in late : stop /\ job[p] # None /\ job[p].at \in {"boundary", "close"}

\* From there, while the marker stands, it can only give up.
LEMMA LateGivesUp ==
  ASSUME TypeOK, NEW p \in Process, Step(p), stop,
         job[p] # None, job[p].at \in {"boundary", "close"}
  PROVE  job'[p] = job[p] \/ job'[p] = None
<1> USE DEF At, Over, Order, Free
<1>1. CASE Boundary(p)
  BY <1>1 DEF Boundary, TypeOK
<1>2. CASE Close(p) \/ Fail(p) \/ Exit(p)
  BY <1>2 DEF Close, Fail, Exit, TypeOK
<1>3. ~Start(p) /\ ~Write(p) /\ ~EndStage(p) /\ ~Tool(p) /\ ~Gate(p) /\ ~Send(p) /\ ~Call(p)
      /\ ~EndCall(p) /\ ~Reserve(p)
  BY DEF Start, Write, Working, EndStage, Tool, Gate, Send, Call, EndCall, Reserve
<1>4. \A row : ~Insert(p, row) /\ ~Triage(p, row) /\ ~Package(p, row)
  BY DEF Insert, Triage, Package, Working
<1>5. \A r \in Run : /\ \A s \in Scope : ~NewRun(p, r, s)
                     /\ \A resume \in BOOLEAN : ~BeginLocal(p, r, resume) /\ ~BeginNothing(p, r, resume)
                     /\ ~RefuseLive(p, r)
                     /\ \A targets \in LiveTargets : ~BeginLive(p, r, targets)
                     /\ \A u \in Url : ~TellDigest(p, r, u) /\ \A digest \in told : ~BeginReview(p, r, u, digest)
  BY DEF NewRun, BeginLocal, BeginNothing, RefuseLive, BeginLive, TellDigest, BeginReview
<1>6. \A rs \in SUBSET Run : ~Stop(p, rs)
  BY DEF Stop
<1> QED
  BY <1>1, <1>2, <1>3, <1>4, <1>5, <1>6 DEF Step

LEMMA LateStep ==
  ASSUME Basics, LateWaits, [Next]_vars
  PROVE  LateWaits'
<1> TypeOK
  BY DEF Basics
<1>1. CASE UNCHANGED vars
  BY <1>1 DEF vars, LateWaits
<1>2. CASE Next /\ stop'
  <2> SUFFICES ASSUME NEW p \in late'
               PROVE  job'[p] # None /\ job'[p].at \in {"boundary", "close"}
    BY <1>2 DEF LateWaits
  <2>1. job'[p] # None /\ p \in Process
        /\ (p \in late \/ (stop /\ Finishes(p)))
    BY <1>2 DEF Next, TypeOK
  <2>2. CASE Finishes(p)
    BY <2>1, <2>2 DEF Finishes
  <2>3. CASE p \in late
    <3>1. stop /\ job[p] # None /\ job[p].at \in {"boundary", "close"}
      BY <2>3 DEF LateWaits
    <3>2. PICK q \in Process : Step(q)
      BY <1>2 DEF Next
    <3>3. job'[p] = job[p] \/ job'[p] = None
      BY <2>1, <3>1, <3>2, LateGivesUp, OthersStay
    <3> QED
      BY <2>1, <3>1, <3>3
  <2> QED
    BY <2>1, <2>2, <2>3
<1>3. CASE Next /\ ~stop'
  BY <1>3 DEF Next, LateWaits
<1> QED
  BY <1>1, <1>2, <1>3

\* Whoever puts the marker down, however often it is taken away and put back: while it
\* stands a process finishes at most the stage, the tool or the request it is at.
THEOREM MarkerHolds == Spec => StopHolds
<1>1. Init => LateWaits
  BY DEF Init, LateWaits
<1>2. Basics /\ LateWaits /\ [Next]_vars => LateWaits'
  BY LateStep
<1>3. LateWaits => \A p \in Process : stop /\ Finishes(p) => p \notin late
  BY DEF LateWaits, Finishes
<1>4. Basics /\ LateWaits /\ [Next]_vars
        => [\A p \in Process : stop /\ Finishes(p) => p \notin late]_vars
  BY <1>3
<1> QED
  BY <1>1, <1>2, <1>4, BasicsAlways, PTL DEF Spec, StopHolds
-----------------------------------------------------------------------------
(***************************************************************************)
(* What goes out.                                                          *)
(***************************************************************************)

\* What a live plan and a review are about was approved when they began, and it still
\* is: the scope of a run never changes, and what a person was told stays told.
Approved(p) ==
  /\ job[p].cmd = "live" => /\ scope[RunOf(p)] \in Contact
                            /\ Sources(p) \subseteq InScope[scope[RunOf(p)]]
  /\ job[p].cmd = "review" => Sources(p) \subseteq InScope[scope[RunOf(p)]] \cap told

AllApproved == \A p \in Process : job[p] # None => Approved(p)

\* A step of a process begins a command, or leaves what its command is about; only the
\* stages of a local run work anything off.
LEMMA CommandMoves ==
  ASSUME Basics, NEW p \in Process, Step(p), job'[p] # None
  PROVE  \/ job'[p] = job[p]
         \/ job'[p].cmd \in {"local", "cloud"}
         \/ \E r \in Run, targets \in LiveTargets : BeginLive(p, r, targets)
         \/ \E r \in Run, u \in Url, digest \in told : BeginReview(p, r, u, digest)
         \/ /\ job[p] # None
            /\ job'[p].cmd = job[p].cmd /\ job'[p].run = job[p].run /\ job'[p].todo = job[p].todo
<1> DEFINE Same == /\ job[p] # None
                   /\ job'[p].cmd = job[p].cmd /\ job'[p].run = job[p].run
                   /\ job'[p].todo = job[p].todo
<1> TypeOK /\ (job[p] # None => job[p] \in Job /\ Fits(p))
  BY DEF Basics, TypeOK
<1>1. CASE Start(p) \/ Gate(p) \/ Call(p)
  <2>1. job[p] # None
    BY <1>1 DEF Start, Gate, Call, At
  <2>2. CASE Over(p)
    BY <2>2 DEF Over, TypeOK
  <2>3. ASSUME NEW s \in {"boundary", "send", "called"}, ToStep(p, s) PROVE Same
    BY <2>1, <2>3 DEF ToStep, TypeOK, Job
  <2> QED
    BY <1>1, <2>2, <2>3 DEF Start, Gate, Call
<1>2. CASE Boundary(p)
  <2>1. job[p] # None /\ job[p].cmd \in {"local", "live"}
    BY <1>2 DEF Boundary, At, Fits
  <2>2. CASE Over(p)
    BY <2>2 DEF Over, TypeOK
  <2>3. CASE ToStep(p, "tool")
    BY <2>1, <2>3 DEF ToStep, TypeOK, Job
  <2>4. CASE /\ job[p].cmd # "live"
             /\ job' = [job EXCEPT ![p].at = "work",
                                   ![p].todo = TodoOf(job[p].run, Stages[job[p].n])]
    <3>1. job'[p].cmd = job[p].cmd
      BY <2>1, <2>4 DEF TypeOK, Job
    <3> QED
      BY <2>1, <2>4, <3>1
  <2> QED
    BY <1>2, <2>2, <2>3, <2>4 DEF Boundary
<1>3. ASSUME NEW row, Insert(p, row) \/ Triage(p, row) \/ Package(p, row)
      PROVE  job'[p].cmd = "local"
  <2>1. job[p] # None /\ job[p].cmd = "local"
    BY <1>3 DEF Insert, Triage, Package, Working, At, Fits
  <2> QED
    BY <1>3, <2>1 DEF Insert, Triage, Package, Done, TypeOK, Job
<1>4. CASE Write(p) \/ EndStage(p)
  <2>1. job[p] # None /\ job[p].cmd = "local"
    BY <1>4 DEF Write, EndStage, Working, At, Fits
  <2> QED
    BY <1>4, <2>1 DEF Write, EndStage, TypeOK, Job
<1>5. ~(Close(p) \/ Fail(p) \/ Exit(p) \/ Send(p) \/ EndCall(p))
  BY DEF Close, Fail, Exit, Send, EndCall, Over, TypeOK
<1>6. CASE Tool(p)
  <2>1. job[p] # None
    BY <1>6 DEF Tool, At
  <2>2. CASE Over(p)
    BY <2>2 DEF Over, TypeOK
  <2>3. CASE job' = [job EXCEPT ![p].at = "boundary", ![p].n = @ + 1]
    BY <2>1, <2>3 DEF TypeOK, Job
  <2> QED
    BY <1>6, <2>2, <2>3 DEF Tool
<1>7. CASE Reserve(p)
  BY <1>7 DEF Reserve, TypeOK
<1>8. ASSUME NEW r \in Run, NEW resume \in BOOLEAN, BeginLocal(p, r, resume)
      PROVE  job'[p].cmd = "local"
  BY <1>8 DEF BeginLocal, Command, TypeOK
<1>10. ASSUME NEW rs \in SUBSET Run, Stop(p, rs) PROVE job' = job
  BY <1>10 DEF Stop
<1>11. ASSUME NEW r \in Run,
              \/ \E s \in Scope : NewRun(p, r, s)
              \/ \E resume \in BOOLEAN : BeginNothing(p, r, resume)
              \/ RefuseLive(p, r)
              \/ \E u \in Url : TellDigest(p, r, u)
       PROVE  job' = job
  BY <1>11 DEF NewRun, BeginNothing, RefuseLive, TellDigest
<1> QED
  BY <1>1, <1>2, <1>3, <1>4, <1>5, <1>6, <1>7, <1>8, <1>10, <1>11 DEF Step

\* The scope of a run that exists, and what a person was told, are never taken back.
LEMMA ScopeStays ==
  ASSUME TypeOK, NEW p \in Process, Step(p)
  PROVE  (\A r \in Run : scope[r] \in Scope => scope'[r] = scope[r]) /\ told \subseteq told'
<1>1. ASSUME NEW r \in Run, NEW s \in Scope, NewRun(p, r, s)
      PROVE  (\A x \in Run : scope[x] \in Scope => scope'[x] = scope[x]) /\ told' = told
  BY <1>1 DEF NewRun, TypeOK
<1>2. ASSUME NEW r \in Run, NEW u \in Url, TellDigest(p, r, u)
      PROVE  scope' = scope /\ told \subseteq told'
  BY <1>2 DEF TellDigest, runs
<1>3. ASSUME NEW r \in Run,
             \/ \E resume \in BOOLEAN : BeginLocal(p, r, resume) \/ BeginNothing(p, r, resume)
             \/ RefuseLive(p, r)
             \/ \E targets \in LiveTargets : BeginLive(p, r, targets)
             \/ \E u \in Url : \E digest \in told : BeginReview(p, r, u, digest)
      PROVE  scope' = scope /\ told' = told
  BY <1>3 DEF BeginLocal, BeginNothing, RefuseLive, BeginLive, BeginReview, runs
<1>4. ASSUME NEW rs \in SUBSET Run, Stop(p, rs) PROVE scope' = scope /\ told' = told
  BY <1>4 DEF Stop
<1>5. ASSUME NEW row, Insert(p, row) \/ Triage(p, row) \/ Package(p, row)
      PROVE  scope' = scope /\ told' = told
  BY <1>5 DEF Insert, Triage, Package, runs
<1>6. CASE Start(p) \/ Boundary(p) \/ Write(p) \/ EndStage(p) \/ Close(p) \/ Fail(p) \/ Exit(p)
  BY <1>6 DEF Start, Boundary, Write, EndStage, Close, Fail, Exit, runs
<1>7. CASE Tool(p) \/ Gate(p) \/ Send(p) \/ Reserve(p) \/ Call(p) \/ EndCall(p)
  BY <1>7 DEF Tool, Gate, Send, Reserve, Call, EndCall, runs
<1> QED
  BY <1>1, <1>2, <1>3, <1>4, <1>5, <1>6, <1>7 DEF Step

LEMMA ApprovedStep ==
  ASSUME Basics, AllApproved, [Next]_vars
  PROVE  AllApproved'
<1> TypeOK
  BY DEF Basics
<1> USE DEF RunOf, Sources
<1>1. CASE UNCHANGED vars
  BY <1>1 DEF vars, runs, AllApproved, Approved
<1>2. ASSUME NEW q \in Process, Step(q), NEW p \in Process, job'[p] # None PROVE Approved(p)'
  <2>1. (\A r \in Run : scope[r] \in Scope => scope'[r] = scope[r]) /\ told \subseteq told'
    BY <1>2, ScopeStays
  <2>2. ASSUME job[p] # None, job'[p].cmd = job[p].cmd, job'[p].run = job[p].run,
               job'[p].todo = job[p].todo
        PROVE  Approved(p)'
    <3>1. Approved(p) /\ Fits(p)
      BY <2>2 DEF AllApproved, Basics
    <3>2. job[p].cmd # "cloud" => scope'[job[p].run] = scope[job[p].run]
      BY <2>1, <3>1 DEF Fits
    <3> QED
      BY <2>1, <2>2, <3>1, <3>2 DEF Approved
  <2>3. CASE job'[p] = job[p]
    BY <1>2, <2>2, <2>3
  <2>4. CASE p = q /\ job'[p].cmd \in {"local", "cloud"}
    BY <2>4 DEF Approved
  <2>5. ASSUME NEW r \in Run, NEW targets \in LiveTargets, BeginLive(p, r, targets)
        PROVE  Approved(p)'
    <3> DEFINE todo == {<<u, "candidate">> : u \in targets}
    <3>1. job'[p] = Command("live", r, "start", todo)
      BY <2>5 DEF BeginLive, TypeOK
    <3>2. job'[p].cmd = "live" /\ job'[p].run = r /\ job'[p].todo = todo
      BY <3>1 DEF Command
    <3>3. {row[1] : row \in todo} \subseteq targets
      OBVIOUS
    <3>4. scope'[r] = scope[r] /\ scope[r] \in Contact /\ targets \subseteq InScope[scope[r]]
      BY <2>5 DEF BeginLive, runs
    <3> HIDE DEF todo
    <3> QED
      BY <3>2, <3>3, <3>4 DEF Approved
  <2>6. ASSUME NEW r \in Run, NEW u \in Url, NEW digest \in told, BeginReview(p, r, u, digest)
        PROVE  Approved(p)'
    <3> DEFINE todo == {<<u, found[u]>>}
    <3>1. job'[p] = Command("review", r, "gate", todo)
      BY <2>6 DEF BeginReview, TypeOK
    <3>2. job'[p].cmd = "review" /\ job'[p].run = r /\ job'[p].todo = todo
      BY <3>1 DEF Command
    <3>3. {row[1] : row \in todo} = {u}
      OBVIOUS
    <3>4. scope'[r] = scope[r] /\ u \in InScope[scope[r]] /\ u \in told'
      BY <2>6 DEF BeginReview, Reviewable, runs
    <3> HIDE DEF todo
    <3> QED
      BY <3>2, <3>3, <3>4 DEF Approved
  <2>7. CASE p # q
    BY <1>2, <2>3, <2>7, OthersStay
  <2>8. CASE p = q
    BY <1>2, <2>2, <2>3, <2>4, <2>5, <2>6, <2>8, CommandMoves
  <2> QED
    BY <2>7, <2>8
<1> QED
  BY <1>1, <1>2 DEF Next, AllApproved

\* Whatever begins, stops and resumes around it, a tool is given targets in a scope that
\* allows contact, and a model a payload whose digest a person was told before.
THEOREM OnlyApprovedContact == Spec => []ContactIsApproved
<1>1. Init => AllApproved
  BY DEF Init, AllApproved
<1>2. Basics /\ AllApproved /\ [Next]_vars => AllApproved'
  BY ApprovedStep
<1>3. Basics /\ AllApproved => ContactIsApproved
  <2> SUFFICES ASSUME Basics, AllApproved, NEW p \in Process, job[p] # None,
                      job[p].at \in {"tool", "send"}
               PROVE  /\ Sources(p) \subseteq InScope[scope[job[p].run]]
                      /\ job[p].at = "tool" => scope[job[p].run] \in Contact
                      /\ job[p].at = "send" => Sources(p) \subseteq told
    BY DEF ContactIsApproved, Sources, At
  <2>1. Fits(p) /\ Approved(p)
    BY DEF Basics, AllApproved
  <2> QED
    BY <2>1 DEF Fits, Approved, RunOf
<1> QED
  BY <1>1, <1>2, <1>3, BasicsAlways, PTL DEF Spec
-----------------------------------------------------------------------------
(***************************************************************************)
(* The ledger.  A call that has been reserved and not made yet is in the   *)
(* ledger already, so the invariant counts those calls as well.            *)
(***************************************************************************)

Pending == {p \in Process : job[p] # None /\ job[p].at = "reserved"}

Covered ==
  /\ IsFiniteSet(Pending)
  /\ (calls + Cardinality(Pending)) * CallCost <= spent["cloud"]
  /\ spent["cloud"] <= Budget

\* The ledger only grows, and fewer calls pending are covered as well.
LEMMA CoveredFrom ==
  ASSUME TypeOK, TypeOK', Covered, Pending' \subseteq Pending, calls' = calls,
         spent'["cloud"] = spent["cloud"]
  PROVE  Covered'
<1>1. IsFiniteSet(Pending') /\ Cardinality(Pending') <= Cardinality(Pending)
  BY FS_Subset DEF Covered
<1>2. Cardinality(Pending') \in Nat /\ Cardinality(Pending) \in Nat
  BY <1>1, FS_CardinalityType DEF Covered
<1> DEFINE m == calls + Cardinality(Pending')
           n == calls + Cardinality(Pending)
<1>3. m \in Nat /\ n \in Nat /\ m <= n
  BY <1>1, <1>2 DEF TypeOK
<1> HIDE DEF m, n
<1>4. m * CallCost <= n * CallCost
  BY <1>3, Numbers
<1>5. m * CallCost \in Nat /\ n * CallCost \in Nat
  BY <1>3, Numbers
<1>6. n * CallCost <= spent["cloud"] /\ spent["cloud"] \in Nat
  BY DEF Covered, n, TypeOK
<1>7. m * CallCost <= spent["cloud"]
  BY <1>4, <1>5, <1>6
<1> QED
  BY <1>1, <1>7 DEF Covered, m

\* Nothing else leaves a call pending.
LEMMA OnlyReserve ==
  ASSUME TypeOK, NEW p \in Process, Step(p), ~Reserve(p), job'[p] # None, job'[p] # job[p]
  PROVE  job'[p].at # "reserved"
<1>1. CASE Start(p) \/ Boundary(p) \/ Gate(p) \/ Call(p)
  <2>1. job[p] # None /\ job[p] \in Job
    BY <1>1 DEF Start, Boundary, Gate, Call, At, TypeOK
  <2>2. ASSUME NEW s \in {"boundary", "tool", "send", "called"}, ToStep(p, s)
        PROVE  job'[p].at = s
    BY <2>1, <2>2 DEF ToStep, TypeOK, Job
  <2>3. ASSUME NEW todo, job' = [job EXCEPT ![p].at = "work", ![p].todo = todo]
        PROVE  job'[p].at = "work"
    BY <2>1, <2>3 DEF TypeOK, Job
  <2>4. ~Over(p)
    BY DEF Over, TypeOK
  <2> QED
    BY <1>1, <2>2, <2>3, <2>4 DEF Start, Boundary, Gate, Call
<1>2. ASSUME NEW row, Insert(p, row) \/ Triage(p, row) \/ Package(p, row)
      PROVE  job'[p].at = "work"
  <2>1. job[p] # None /\ job[p] \in Job /\ job[p].at = "work"
    BY <1>2 DEF Insert, Triage, Package, Working, At, TypeOK
  <2> QED
    BY <1>2, <2>1 DEF Insert, Triage, Package, Done, TypeOK, Job
<1>3. CASE Write(p) \/ EndStage(p) \/ Tool(p)
  <2>1. job[p] # None /\ job[p] \in Job
    BY <1>3 DEF Write, EndStage, Tool, Working, At, TypeOK
  <2>2. ~Over(p)
    BY DEF Over, TypeOK
  <2> QED
    BY <1>3, <2>1, <2>2 DEF Write, EndStage, Tool, TypeOK, Job
<1>4. ~(Close(p) \/ Fail(p) \/ Exit(p) \/ Send(p) \/ EndCall(p))
  BY DEF Close, Fail, Exit, Send, EndCall, Over, TypeOK
<1>5. ASSUME NEW r \in Run,
             \/ \E resume \in BOOLEAN : BeginLocal(p, r, resume)
             \/ \E targets \in LiveTargets : BeginLive(p, r, targets)
             \/ \E u \in Url : \E digest \in told : BeginReview(p, r, u, digest)
      PROVE  job'[p].at \in {"start", "gate"}
  BY <1>5 DEF BeginLocal, BeginLive, BeginReview, Command, TypeOK
<1>6. ASSUME NEW r \in Run,
             \/ \E s \in Scope : NewRun(p, r, s)
             \/ \E resume \in BOOLEAN : BeginNothing(p, r, resume)
             \/ RefuseLive(p, r)
             \/ \E u \in Url : TellDigest(p, r, u)
      PROVE  job' = job
  BY <1>6 DEF NewRun, BeginNothing, RefuseLive, TellDigest
<1>7. ASSUME NEW rs \in SUBSET Run, Stop(p, rs) PROVE job' = job
  BY <1>7 DEF Stop
<1> QED
  BY <1>1, <1>2, <1>3, <1>4, <1>5, <1>6, <1>7 DEF Step

LEMMA CoveredStep ==
  ASSUME Basics, Basics', Covered, [Next]_vars
  PROVE  Covered'
<1> TypeOK /\ TypeOK'
  BY DEF Basics
<1>1. CASE UNCHANGED vars
  BY <1>1, CoveredFrom DEF vars, cloud, Pending
<1>2. ASSUME NEW p \in Process, Step(p) PROVE Covered'
  <2>1. CASE Reserve(p)
    <3>1. Pending' \subseteq Pending \cup {p} /\ calls' = calls
      BY <2>1 DEF Reserve, Pending, TypeOK
    <3>2. p \notin Pending
      BY <2>1 DEF Reserve, Order, Free, Pending
    <3>3. /\ IsFiniteSet(Pending \cup {p})
          /\ Cardinality(Pending \cup {p}) = Cardinality(Pending) + 1
      BY <3>2, FS_AddElement DEF Covered
    <3>4. IsFiniteSet(Pending') /\ Cardinality(Pending') <= Cardinality(Pending) + 1
      BY <3>1, <3>3, FS_Subset
    <3>5. Cardinality(Pending') \in Nat /\ Cardinality(Pending) \in Nat
      BY <3>4, FS_CardinalityType DEF Covered
    <3>6. spent'["cloud"] = spent["cloud"] + CallCost /\ spent'["cloud"] <= Budget
      BY <2>1, Numbers DEF Reserve, TypeOK
    <3> DEFINE m == calls + Cardinality(Pending')
               n == calls + Cardinality(Pending)
    <3>7. m \in Nat /\ n \in Nat /\ m <= n + 1
      BY <3>4, <3>5 DEF TypeOK
    <3>8. n * CallCost <= spent["cloud"] /\ spent["cloud"] \in Nat
      BY DEF Covered, TypeOK
    <3> HIDE DEF m, n
    <3>9. m * CallCost <= (n + 1) * CallCost
      BY <3>7, Numbers
    <3>10. (n + 1) * CallCost = n * CallCost + CallCost
      BY <3>7, Numbers
    <3>11. m * CallCost \in Nat /\ n * CallCost \in Nat
      BY <3>7, Numbers
    <3>12. m * CallCost <= spent'["cloud"]
      BY <3>6, <3>8, <3>9, <3>10, <3>11, Numbers
    <3> QED
      BY <3>1, <3>4, <3>6, <3>12 DEF Covered, m
  <2>2. CASE Call(p)
    <3>1. p \in Pending /\ Pending' = Pending \ {p} /\ calls' = calls + 1 /\ spent' = spent
      <4>1. job[p] # None /\ job[p].at = "reserved" /\ job[p] \in Job
        BY <2>2 DEF Call, At, TypeOK
      <4>2. job'[p].at = "called"
        BY <2>2, <4>1 DEF Call, ToStep, TypeOK, Job
      <4>3. \A q \in Process \ {p} : job'[q] = job[q]
        BY <1>2, OthersStay
      <4> QED
        BY <2>2, <4>1, <4>2, <4>3 DEF Call, Pending
    <3>2. IsFiniteSet(Pending') /\ Cardinality(Pending') = Cardinality(Pending) - 1
      BY <3>1, FS_RemoveElement DEF Covered
    <3>3. Cardinality(Pending) \in Nat
      BY FS_CardinalityType DEF Covered
    <3>4. calls' + Cardinality(Pending') = calls + Cardinality(Pending)
      BY <3>1, <3>2, <3>3 DEF TypeOK
    <3> QED
      BY <3>1, <3>2, <3>4 DEF Covered
  <2>3. CASE ~Reserve(p) /\ ~Call(p)
    <3>1. calls' = calls /\ spent'["cloud"] = spent["cloud"]
      <4>1. ASSUME NEW r \in Run,
                   \/ \E s \in Scope : NewRun(p, r, s)
                   \/ \E resume \in BOOLEAN : BeginLocal(p, r, resume) \/ BeginNothing(p, r, resume)
                   \/ RefuseLive(p, r)
                   \/ \E targets \in LiveTargets : BeginLive(p, r, targets)
                   \/ \E u \in Url : TellDigest(p, r, u) \/ \E digest \in told : BeginReview(p, r, u, digest)
            PROVE  UNCHANGED cloud
        BY <4>1 DEF NewRun, BeginLocal, BeginNothing, RefuseLive, BeginLive, TellDigest, BeginReview
      <4>2. ASSUME NEW rs \in SUBSET Run, Stop(p, rs) PROVE UNCHANGED cloud
        BY <4>2 DEF Stop
      <4>3. ASSUME NEW row, Insert(p, row) \/ Package(p, row) PROVE UNCHANGED cloud
        BY <4>3 DEF Insert, Package
      <4>4. ASSUME NEW row, Triage(p, row)
            PROVE  calls' = calls /\ spent'["cloud"] = spent["cloud"]
        BY <4>4 DEF Triage, TypeOK
      <4>5. CASE Start(p) \/ Boundary(p) \/ Write(p) \/ EndStage(p) \/ Close(p) \/ Fail(p) \/ Exit(p)
        BY <4>5 DEF Start, Boundary, Write, EndStage, Close, Fail, Exit, cloud
      <4>6. CASE Tool(p) \/ Gate(p) \/ Send(p) \/ EndCall(p)
        BY <4>6 DEF Tool, Gate, Send, EndCall, cloud
      <4> QED
        BY <1>2, <2>3, <4>1, <4>2, <4>3, <4>4, <4>5, <4>6 DEF Step, cloud
    <3>2. \A q \in Process : job'[q] # None /\ job'[q].at = "reserved" => job'[q] = job[q]
      BY <1>2, <2>3, OthersStay, OnlyReserve
    <3>3. Pending' \subseteq Pending
      BY <3>2 DEF Pending
    <3> QED
      BY <3>1, <3>3, CoveredFrom
  <2> QED
    BY <2>1, <2>2, <2>3
<1> QED
  BY <1>1, <1>2 DEF Next

\* Every cloud call that has gone out is in the ledger, and the calls of all agents
\* together stay within the budget of the day, also when a call times out or its process
\* goes away between reservation and answer.
THEOREM LedgerCoversCalls == Spec => []CallsAreReserved
<1>1. Init => Covered
  <2> SUFFICES ASSUME Init PROVE Covered
    OBVIOUS
  <2>1. Pending = {} /\ calls = 0 /\ spent["cloud"] = 0
    BY DEF Init, Pending
  <2>2. IsFiniteSet({}) /\ Cardinality({}) = 0
    BY FS_EmptySet
  <2> QED
    BY <2>1, <2>2, Numbers DEF Covered
<1>2. Basics /\ Basics' /\ Covered /\ [Next]_vars => Covered'
  BY CoveredStep
<1>3. Basics /\ Covered => CallsAreReserved
  <2> SUFFICES ASSUME Basics, Covered PROVE calls * CallCost <= spent["cloud"]
    BY DEF CallsAreReserved, Covered
  <2>1. Cardinality(Pending) \in Nat /\ calls \in Nat /\ spent["cloud"] \in Nat
    BY FS_CardinalityType DEF Covered, Basics, TypeOK
  <2> DEFINE n == calls + Cardinality(Pending)
  <2>2. n \in Nat /\ calls <= n
    BY <2>1
  <2>3. n * CallCost <= spent["cloud"]
    BY DEF Covered
  <2> HIDE DEF n
  <2>4. calls * CallCost <= n * CallCost
    BY <2>1, <2>2, Numbers
  <2>5. calls * CallCost \in Nat /\ n * CallCost \in Nat
    BY <2>1, <2>2, Numbers
  <2> QED
    BY <2>1, <2>3, <2>4, <2>5
<1> QED
  BY <1>1, <1>2, <1>3, BasicsAlways, PTL DEF Spec
-----------------------------------------------------------------------------
(***************************************************************************)
(* Reports.  What a stage has done stays done, for whoever works on the    *)
(* same run or the same findings; so what the stages of a run have behind  *)
(* them can be told from the stage it is at.                               *)
(***************************************************************************)

Full(r) == {<<u, "triaged">> : u \in Kept(r)}

WorkedAt(at, n, r, todo) ==
  /\ at = "work" /\ n = 2 => /\ \A row \in todo : row[1] \in Kept(r)
                             /\ \A u \in Kept(r) : <<r, u>> \in links \/ <<u, "candidate">> \in todo
  /\ n \in {3, 4, 5} => \A u \in Kept(r) : <<r, u>> \in links
  /\ at = "work" /\ n = 3 => \A u \in Kept(r) : found[u] = "triaged" \/ \E row \in todo : row[1] = u
  /\ n \in {4, 5} => \A u \in Kept(r) : found[u] = "triaged"
  /\ at = "work" /\ n = 4 => \A u \in Kept(r) : <<r, u>> \in packed \/ <<u, "triaged">> \in todo
  /\ n = 5 => \A u \in Kept(r) : <<r, u>> \in packed
  /\ at = "work" /\ n = 5 => todo = Full(r)
  /\ at = "close" => n = 5 /\ report[r] = Full(r)

Worked(p) == WorkedAt(job[p].at, job[p].n, job[p].run, job[p].todo)

Backed ==
  /\ \A r \in Run, u \in Url : <<r, u>> \in links => scope[r] \in Scope /\ u \in Kept(r)
  /\ \A r \in Run : report[r] # {} => /\ scope[r] \in Scope /\ report[r] = Full(r)
                                      /\ \A u \in Kept(r) : <<r, u>> \in packed
  /\ \A r \in Run : status[r] = "completed" => report[r] = Full(r)
  /\ \A p \in Process : job[p] # None /\ job[p].cmd = "local" => Worked(p)

\* What is done stays done.
Lasts ==
  /\ \A r \in Run : scope[r] \in Scope => scope'[r] = scope[r]
  /\ links \subseteq links' /\ packed \subseteq packed'
  /\ \A u \in Url : found[u] = "triaged" => found'[u] = "triaged"

LEMMA LastsStep ==
  ASSUME TypeOK, NEW p \in Process, Step(p)
  PROVE  Lasts
<1>1. \A r \in Run : scope[r] \in Scope => scope'[r] = scope[r]
  BY ScopeStays
<1>2. ASSUME NEW row, Insert(p, row) \/ Triage(p, row) \/ Package(p, row)
      PROVE  /\ links \subseteq links' /\ packed \subseteq packed'
             /\ \A u \in Url : found[u] = "triaged" => found'[u] = "triaged"
  BY <1>2 DEF Insert, Triage, Package, TypeOK
<1>3. ASSUME NEW r \in Run,
             \/ \E s \in Scope : NewRun(p, r, s)
             \/ \E resume \in BOOLEAN : BeginLocal(p, r, resume) \/ BeginNothing(p, r, resume)
             \/ RefuseLive(p, r)
             \/ \E targets \in LiveTargets : BeginLive(p, r, targets)
             \/ \E u \in Url : TellDigest(p, r, u) \/ \E digest \in told : BeginReview(p, r, u, digest)
      PROVE  UNCHANGED books
  BY <1>3 DEF NewRun, BeginLocal, BeginNothing, RefuseLive, BeginLive, TellDigest, BeginReview
<1>4. ASSUME NEW rs \in SUBSET Run, Stop(p, rs) PROVE UNCHANGED books
  BY <1>4 DEF Stop
<1>5. CASE Start(p) \/ Boundary(p) \/ EndStage(p) \/ Close(p) \/ Fail(p) \/ Exit(p)
  BY <1>1, <1>5 DEF Start, Boundary, EndStage, Close, Fail, Exit, Lasts, books
<1>6. CASE Write(p)
  BY <1>1, <1>6 DEF Write, Lasts
<1>7. CASE Tool(p) \/ Gate(p) \/ Send(p) \/ Reserve(p) \/ Call(p) \/ EndCall(p)
  BY <1>1, <1>7 DEF Tool, Gate, Send, Reserve, Call, EndCall, Lasts, books
<1> QED
  BY <1>1, <1>2, <1>3, <1>4, <1>5, <1>6, <1>7 DEF Step, Lasts, books

LEMMA KeptStays ==
  ASSUME Lasts, NEW r \in Run, scope[r] \in Scope
  PROVE  Kept(r)' = Kept(r) /\ Full(r)' = Full(r) /\ Kept(r) \subseteq Url
BY DEF Lasts, Kept, Full

\* The work of a process whose job stays as it is.
LEMMA WorkStays ==
  ASSUME Lasts, NEW q \in Process, job[q] # None, job[q].cmd = "local", Fits(q), Worked(q),
         job'[q] = job[q],
         report'[job[q].run] \in {report[job[q].run], Full(job[q].run)}
  PROVE  Worked(q)'
<1> DEFINE r == job[q].run
<1>1. r \in Run /\ scope[r] \in Scope
  BY DEF Fits
<1>2. Kept(r)' = Kept(r) /\ Full(r)' = Full(r) /\ Kept(r) \subseteq Url
  BY <1>1, KeptStays
<1> HIDE DEF r
<1>3. (Kept(job[q].run))' = Kept(r) /\ (Full(job[q].run))' = Full(r)
  BY <1>2 DEF r, Kept, Full
<1> QED
  BY <1>1, <1>2, <1>3 DEF Worked, WorkedAt, Lasts, r

\* Reports are written whole.
LEMMA WriteIsFull ==
  ASSUME Basics, Backed, NEW p \in Process, Write(p)
  PROVE  /\ job[p].run \in Run /\ scope[job[p].run] \in Scope
         /\ report' = [report EXCEPT ![job[p].run] = Full(job[p].run)]
         /\ \A u \in Kept(job[p].run) : <<job[p].run, u>> \in packed
         /\ job[p].n = 5
<1>1. job[p] # None /\ job[p].at = "work" /\ Stages[job[p].n] = "report" /\ Fits(p)
  BY DEF Write, Working, At, Basics
<1>2. job[p].n \in {1, 2, 3, 4, 5} /\ job[p].cmd = "local"
  BY <1>1 DEF Fits
<1>3. job[p].n = 5
  BY <1>1, <1>2, StagesAre
<1>4. Worked(p)
  BY <1>1, <1>2 DEF Backed
<1>5. job[p].todo = Full(job[p].run) /\ \A u \in Kept(job[p].run) : <<job[p].run, u>> \in packed
  BY <1>1, <1>3, <1>4 DEF Worked, WorkedAt
<1> QED
  BY <1>1, <1>2, <1>3, <1>5 DEF Write, Fits
\* Who writes links, reports and the status "completed".
LEMMA BooksMove ==
  ASSUME Basics, NEW p \in Process, Step(p)
  PROVE  /\ links' = links \/ \E row \in job[p].todo : Insert(p, row)
         /\ report' = report \/ Write(p)
         /\ \A r \in Run : status'[r] = "completed" =>
              status[r] = "completed" \/ (Close(p) /\ r = job[p].run)
<1> DEFINE Quiet == UNCHANGED <<links, report>>
           Kind  == \A r \in Run : status'[r] = "completed" =>
                      status[r] = "completed" \/ (Close(p) /\ r = job[p].run)
<1> TypeOK
  BY DEF Basics
<1>1. ASSUME NEW r \in Run, NEW st \in Status \ {"completed"}, SetStatus(r, st)
      PROVE  Kind
  BY <1>1 DEF SetStatus, TypeOK
<1>2. ASSUME NEW r \in Run,
             \/ \E s \in Scope : NewRun(p, r, s)
             \/ \E resume \in BOOLEAN : BeginLocal(p, r, resume) \/ BeginNothing(p, r, resume)
             \/ RefuseLive(p, r)
             \/ \E targets \in LiveTargets : BeginLive(p, r, targets)
             \/ \E u \in Url : TellDigest(p, r, u) \/ \E digest \in told : BeginReview(p, r, u, digest)
      PROVE  Quiet /\ Kind
  <2>1. Quiet
    BY <1>2 DEF NewRun, BeginLocal, BeginNothing, RefuseLive, BeginLive, TellDigest, BeginReview, books
  <2>2. \/ status' = status \/ SetStatus(r, "created") \/ SetStatus(r, "refused")
    BY <1>2 DEF NewRun, BeginLocal, BeginNothing, RefuseLive, BeginLive, TellDigest, BeginReview, runs
  <2> QED
    BY <1>1, <2>1, <2>2 DEF Status
<1>3. ASSUME NEW rs \in SUBSET Run, Stop(p, rs) PROVE Quiet /\ Kind
  BY <1>3 DEF Stop, books, TypeOK
<1>4. ASSUME NEW row, Triage(p, row) \/ Package(p, row) PROVE Quiet /\ Kind
  BY <1>4 DEF Triage, Package, runs
<1>5. ASSUME NEW row, Insert(p, row) PROVE report' = report /\ Kind
  BY <1>5 DEF Insert, runs
<1>6. CASE Start(p) \/ Boundary(p) \/ Tool(p) \/ Fail(p)
  <2>1. Quiet
    BY <1>6 DEF Start, Boundary, Tool, Fail, books
  <2>2. job[p].run \in Run
    BY <1>6 DEF Start, Boundary, Tool, Fail, At, Basics, Fits
  <2>3. CASE status' = status
    BY <2>1, <2>3
  <2>4. ASSUME NEW st \in {"running", "refused", "stopped", "completed_tools", "failed"},
               SetStatus(job[p].run, st)
        PROVE  Kind
    <3>1. st \in Status \ {"completed"}
      BY DEF Status
    <3> QED
      BY <1>1, <2>2, <2>4, <3>1
  <2> QED
    BY <1>6, <2>1, <2>3, <2>4 DEF Start, Boundary, Tool, Fail
<1>7. CASE Write(p) \/ EndStage(p)
  BY <1>7 DEF Write, EndStage, runs, books
<1>8. CASE Close(p)
  BY <1>8 DEF Close, SetStatus, TypeOK, books
<1>9. CASE Exit(p) \/ Gate(p) \/ Send(p) \/ Reserve(p) \/ Call(p) \/ EndCall(p)
  BY <1>9 DEF Exit, Gate, Send, Reserve, Call, EndCall, runs, books
<1> QED
  <2>1. ASSUME NEW row \in (IF job[p] = None THEN {} ELSE job[p].todo),
               Insert(p, row) \/ Triage(p, row) \/ Package(p, row)
        PROVE  /\ links' = links \/ \E x \in job[p].todo : Insert(p, x)
               /\ report' = report /\ Kind
    BY <1>4, <1>5, <2>1
  <2> QED
    BY <1>2, <1>3, <1>6, <1>7, <1>8, <1>9, <2>1 DEF Step

\* The tables stay as they must be.
LEMMA BooksStay ==
  ASSUME Basics, Backed, NEW p \in Process, Step(p)
  PROVE  /\ \A r \in Run, u \in Url : <<r, u>> \in links' => scope'[r] \in Scope /\ u \in Kept(r)'
         /\ \A r \in Run : report'[r] # {} => /\ scope'[r] \in Scope /\ report'[r] = Full(r)'
                                              /\ \A u \in Kept(r)' : <<r, u>> \in packed'
         /\ \A r \in Run : status'[r] = "completed" => report'[r] = Full(r)'
         /\ \A r \in Run : report'[r] \in {report[r], Full(r)}
<1> TypeOK /\ Lasts
  BY LastsStep DEF Basics
<1>1. ASSUME NEW r \in Run, NEW u \in Url, <<r, u>> \in links'
      PROVE  scope'[r] \in Scope /\ u \in Kept(r)'
  <2>1. CASE <<r, u>> \in links
    <3>1. scope[r] \in Scope /\ u \in Kept(r)
      BY <2>1 DEF Backed
    <3> QED
      BY <3>1, KeptStays DEF Lasts
  <2>2. ASSUME NEW row \in job[p].todo, Insert(p, row), <<r, u>> \notin links
        PROVE  scope'[r] \in Scope /\ u \in Kept(r)'
    <3>1. job[p] # None /\ job[p].at = "work" /\ Stages[job[p].n] = "dedup" /\ Fits(p)
      BY <2>2 DEF Insert, Working, At, Basics
    <3>2. job[p].n \in {1, 2, 3, 4, 5} /\ job[p].cmd = "local" /\ job[p].run \in Run
          /\ scope[job[p].run] \in Scope
      BY <3>1 DEF Fits
    <3>3. job[p].n = 2
      BY <3>1, <3>2, StagesAre
    <3>4. row[1] \in Kept(job[p].run)
      BY <3>1, <3>2, <3>3 DEF Backed, Worked, WorkedAt
    <3>5. <<r, u>> = <<job[p].run, row[1]>>
      BY <1>1, <2>2 DEF Insert
    <3>6. r = job[p].run /\ u = row[1]
      BY <3>5
    <3>7. u \in Kept(r) /\ scope[r] \in Scope
      BY <3>2, <3>4, <3>6
    <3> QED
      BY <3>7, KeptStays DEF Lasts
  <2> QED
    BY <1>1, <2>1, <2>2, BooksMove
<1>2. ASSUME NEW r \in Run
      PROVE  report'[r] = report[r] \/ (/\ scope[r] \in Scope /\ report'[r] = Full(r)
                                        /\ \A u \in Kept(r) : <<r, u>> \in packed)
  <2>1. CASE Write(p)
    BY <2>1, WriteIsFull DEF TypeOK
  <2> QED
    BY <2>1, BooksMove
<1>3. ASSUME NEW r \in Run, report'[r] # {}
      PROVE  /\ scope'[r] \in Scope /\ report'[r] = Full(r)'
             /\ \A u \in Kept(r)' : <<r, u>> \in packed'
  <2>1. scope[r] \in Scope /\ report'[r] = Full(r) /\ \A u \in Kept(r) : <<r, u>> \in packed
    BY <1>2, <1>3 DEF Backed
  <2>2. Kept(r)' = Kept(r) /\ Full(r)' = Full(r) /\ scope'[r] = scope[r]
    BY <2>1, KeptStays DEF Lasts
  <2> QED
    BY <2>1, <2>2 DEF Lasts
<1>4. ASSUME NEW r \in Run, status'[r] = "completed"
      PROVE  report'[r] = Full(r)'
  <2>1. scope[r] \in Scope /\ report[r] = Full(r)
    <3>1. CASE status[r] = "completed"
      BY <3>1 DEF Backed, TypeOK
    <3>2. CASE Close(p) /\ r = job[p].run
      <4>1. job[p] # None /\ job[p].at = "close" /\ Fits(p)
        BY <3>2 DEF Close, At, Basics
      <4>2. job[p].cmd = "local" /\ scope[r] \in Scope
        BY <3>2, <4>1 DEF Fits
      <4>3. Worked(p)
        BY <4>1, <4>2 DEF Backed
      <4> QED
        BY <3>2, <4>1, <4>2, <4>3 DEF Worked, WorkedAt
    <3> QED
      BY <1>4, <3>1, <3>2, BooksMove
  <2> QED
    BY <1>2, <2>1, KeptStays
<1> QED
  BY <1>1, <1>2, <1>3, <1>4
\* The same of the job a step leaves, its fields known.
LEMMA WorkedNext ==
  ASSUME NEW p \in Process, NEW at, NEW n, NEW r, NEW todo,
         job'[p].at = at, job'[p].n = n, job'[p].run = r, job'[p].todo = todo,
         WorkedAt(at, n, r, todo)'
  PROVE  Worked(p)'
BY DEF Worked

\* What the stage a process enters finds.
LEMMA EnterWork ==
  ASSUME Basics, Backed, NEW p \in Process, Boundary(p), job'[p] # None, job'[p].cmd = "local",
         Lasts
  PROVE  Worked(p)'
<1> TypeOK
  BY DEF Basics
<1>1. job[p] # None /\ job[p] \in Job /\ Fits(p) /\ job[p].at = "boundary"
  BY DEF Boundary, At, Basics, TypeOK
<1>2. ~Over(p)
  BY DEF Over, TypeOK
<1>3. ~(job[p].cmd = "live")
  BY <1>1, <1>2 DEF Boundary, ToStep, TypeOK, Job
<1>r. PICK r \in Run, n \in {1, 2, 3, 4, 5} :
         r = job[p].run /\ n = job[p].n /\ scope[r] \in Scope /\ job[p].cmd = "local"
  BY <1>1, <1>3 DEF Fits
<1> USE <1>r
<1> DEFINE todo == TodoOf(r, Stages[n])
<1>4. /\ job' = [job EXCEPT ![p].at = "work", ![p].todo = todo]
      /\ UNCHANGED <<scope, found, links, packed, report>>
  BY <1>2, <1>3 DEF Boundary, books
<1>5. /\ job'[p].at = "work" /\ job'[p].run = r /\ job'[p].n = n /\ job'[p].todo = todo
  BY <1>1, <1>4 DEF TypeOK, Job
<1>7. Worked(p)
  BY <1>1 DEF Backed
<1>8. Kept(r)' = Kept(r) /\ Full(r)' = Full(r) /\ Kept(r) \subseteq Url
  BY KeptStays
<1>9. n = 2 => todo = {<<u, "candidate">> : u \in Kept(r)}
  BY StagesAre DEF TodoOf, Kept
<1>10. n \in {3, 4, 5} => todo = Listed(r)
  BY StagesAre DEF TodoOf
<1>11. n \in {3, 4, 5} => \A u \in Kept(r) : <<r, u>> \in links
  BY <1>7 DEF Worked, WorkedAt
<1>12. n \in {4, 5} => \A u \in Kept(r) : found[u] = "triaged"
  BY <1>7 DEF Worked, WorkedAt
<1>13. n = 5 => \A u \in Kept(r) : <<r, u>> \in packed
  BY <1>7 DEF Worked, WorkedAt
<1>14. n \in {3, 4, 5} => \A u \in Kept(r) : <<u, found[u]>> \in todo
  BY <1>8, <1>10, <1>11 DEF Listed
<1>15. n = 5 => todo = Full(r)
  <2> SUFFICES ASSUME n = 5 PROVE todo = Full(r)
    OBVIOUS
  <2>1. Full(r) \subseteq todo
    BY <1>12, <1>14 DEF Full
  <2>2. \A u \in Url : <<r, u>> \in links => u \in Kept(r)
    BY DEF Backed
  <2>3. ASSUME NEW row \in todo PROVE row \in Full(r)
    <3> row \in Listed(r)
      BY <1>10
    <3>1. PICK u \in Url : <<r, u>> \in links /\ row = <<u, found[u]>>
      BY DEF Listed
    <3>2. u \in Kept(r) /\ found[u] = "triaged"
      BY <1>12, <2>2, <3>1
    <3> QED
      BY <3>1, <3>2 DEF Full
  <2> QED
    BY <2>1, <2>3
<1> HIDE DEF todo
<1>17. n = 2 => (\A row \in todo : row[1] \in Kept(r)) /\ \A u \in Kept(r) : <<u, "candidate">> \in todo
  BY <1>9
<1>18. n = 3 => \A u \in Kept(r) : \E row \in todo : row[1] = u
  <2>1. \A u \in Kept(r) : <<u, found[u]>>[1] = u
    OBVIOUS
  <2> SUFFICES ASSUME n = 3, NEW u \in Kept(r) PROVE \E row \in todo : row[1] = u
    OBVIOUS
  <2>2. <<u, found[u]>> \in todo
    BY <1>14
  <2> QED
    BY <2>1, <2>2
<1>19. n = 4 => \A u \in Kept(r) : <<u, "triaged">> \in todo
  BY <1>12, <1>14
<1>16. PICK work : work = todo
  OBVIOUS
<1> SUFFICES WorkedAt("work", n, r, work)'
  BY <1>5, <1>16, WorkedNext
<1>20. CASE n = 1
  BY <1>20 DEF WorkedAt
<1>21. CASE n = 2
  BY <1>4, <1>8, <1>17, <1>16, <1>21 DEF WorkedAt
<1>22. CASE n = 3
  BY <1>4, <1>8, <1>11, <1>18, <1>16, <1>22 DEF WorkedAt
<1>23. CASE n = 4
  BY <1>4, <1>8, <1>11, <1>12, <1>19, <1>16, <1>23 DEF WorkedAt
<1>24. CASE n = 5
  BY <1>4, <1>8, <1>11, <1>12, <1>13, <1>15, <1>16, <1>24 DEF WorkedAt
<1> QED
  BY <1>20, <1>21, <1>22, <1>23, <1>24

\* What there is to know of a run at the second stage.
LEMMA LinkedAt ==
  ASSUME NEW r, NEW todo, WorkedAt("work", 2, r, todo)
  PROVE  \A u \in Kept(r) : <<r, u>> \in links \/ <<u, "candidate">> \in todo
BY DEF WorkedAt

\* One finding is worked off.
LEMMA WorkOn ==
  ASSUME Basics, Backed, NEW p \in Process, NEW row \in job[p].todo,
         Insert(p, row) \/ Triage(p, row) \/ Package(p, row), Lasts
  PROVE  Worked(p)'
<1> TypeOK
  BY DEF Basics
<1>1. job[p] # None /\ job[p] \in Job /\ Fits(p) /\ job[p].at = "work"
  BY DEF Insert, Triage, Package, Working, At, Basics, TypeOK
<1>2. PICK r \in Run, n \in {1, 2, 3, 4, 5} :
         r = job[p].run /\ n = job[p].n /\ scope[r] \in Scope /\ job[p].cmd = "local"
  BY <1>1 DEF Fits
<1> USE <1>2
<1>3. WorkedAt("work", n, r, job[p].todo)
  BY <1>1 DEF Backed, Worked
<1>4. /\ job'[p].at = "work" /\ job'[p].run = r /\ job'[p].n = n
      /\ job'[p].todo = job[p].todo \ {row} /\ UNCHANGED <<scope, report>>
  BY <1>1 DEF Insert, Triage, Package, Done, TypeOK, Job, runs
<1>5. Kept(r)' = Kept(r) /\ Full(r)' = Full(r) /\ Kept(r) \subseteq Url
  BY KeptStays
<1>6. PICK work : work = job[p].todo \ {row}
  OBVIOUS
<1> SUFFICES WorkedAt("work", n, r, work)'
  BY <1>4, <1>6, WorkedNext
<1>7. row \in Row
  BY <1>1 DEF Job
<1>8. n \in {2, 3, 4}
  BY StagesAre DEF Insert, Triage, Package, Working
<1>9. CASE n = 2
  <2>1. links' = links \cup {<<r, row[1]>>}
    BY <1>9, StagesAre DEF Insert, Triage, Package, Working
  <2>2. \A u \in Kept(r) : <<r, u>> \in links \/ <<u, "candidate">> \in job[p].todo
    BY <1>3, <1>9 DEF WorkedAt
  <2>3. ASSUME NEW u \in Kept(r) PROVE <<r, u>> \in links' \/ <<u, "candidate">> \in job[p].todo \ {row}
    <3>1. CASE row = <<u, "candidate">>
      <4>1. row[1] = u
        BY <3>1
      <4> QED
        BY <2>1, <4>1
    <3> QED
      BY <2>1, <2>2, <3>1
  <2>4. \A x \in job[p].todo \ {row} : x[1] \in Kept(r)
    BY <1>3, <1>9 DEF WorkedAt
  <2> QED
    BY <1>4, <1>5, <1>6, <1>9, <2>3, <2>4 DEF WorkedAt
<1>10. CASE n = 3
  <2>1. found' = [found EXCEPT ![row[1]] = "triaged"] /\ UNCHANGED links
    BY <1>10, StagesAre DEF Insert, Triage, Package, Working
  <2>2. ASSUME NEW u \in Kept(r) PROVE found'[u] = "triaged" \/ \E x \in job[p].todo \ {row} : x[1] = u
    <3>1. found[u] = "triaged" \/ \E x \in job[p].todo : x[1] = u
      BY <1>3, <1>10 DEF WorkedAt
    <3> QED
      BY <1>5, <2>1, <3>1 DEF TypeOK
  <2>3. \A u \in Kept(r) : <<r, u>> \in links'
    BY <1>3, <1>10, <2>1 DEF WorkedAt
  <2> QED
    BY <1>4, <1>5, <1>6, <1>10, <2>2, <2>3 DEF WorkedAt
<1>11. CASE n = 4
  <2>1. packed' = packed \cup {<<r, row[1]>>} /\ UNCHANGED <<links, found>>
    BY <1>11, StagesAre DEF Insert, Triage, Package, Working
  <2>2. ASSUME NEW u \in Kept(r) PROVE <<r, u>> \in packed' \/ <<u, "triaged">> \in job[p].todo \ {row}
    <3>1. <<r, u>> \in packed \/ <<u, "triaged">> \in job[p].todo
      BY <1>3, <1>11 DEF WorkedAt
    <3>2. CASE row = <<u, "triaged">>
      <4>1. row[1] = u
        BY <3>2
      <4> QED
        BY <2>1, <4>1
    <3> QED
      BY <2>1, <3>1, <3>2
  <2>3. \A u \in Kept(r) : <<r, u>> \in links' /\ found'[u] = "triaged"
    BY <1>3, <1>11, <2>1 DEF WorkedAt
  <2>4. \A u \in Kept(r) : <<r, u>> \in packed' \/ <<u, "triaged">> \in work
    BY <1>6, <2>2
  <2>5. WorkedAt("work", n, r, work)'
    <3>1. \A u \in Kept(r)' : <<r, u>> \in links' /\ found'[u] = "triaged"
      BY <1>5, <2>3
    <3>2. \A u \in Kept(r)' : <<r, u>> \in packed' \/ <<u, "triaged">> \in work
      BY <1>5, <2>4
    <3>3. n # 2 /\ n # 3 /\ n # 5 /\ "work" # "close"
      BY <1>11
    <3> QED
      BY <3>1, <3>2, <3>3, ZenonT(30) DEF WorkedAt
  <2> QED
    BY <2>5
<1> QED
  BY <1>8, <1>9, <1>10, <1>11

\* A stage is over, or the report is written.
LEMMA LeaveWork ==
  ASSUME Basics, Backed, NEW p \in Process, EndStage(p) \/ Write(p), Lasts
  PROVE  Worked(p)'
<1> TypeOK
  BY DEF Basics
<1>1. job[p] # None /\ job[p] \in Job /\ Fits(p) /\ job[p].at = "work"
  BY DEF EndStage, Write, Working, At, Basics, TypeOK
<1>2. PICK r \in Run, n \in {1, 2, 3, 4, 5} :
         r = job[p].run /\ n = job[p].n /\ scope[r] \in Scope /\ job[p].cmd = "local"
  BY <1>1 DEF Fits
<1> USE <1>2
<1>3. WorkedAt("work", n, r, job[p].todo)
  BY <1>1 DEF Backed, Worked
<1>4. Kept(r)' = Kept(r) /\ Full(r)' = Full(r) /\ Kept(r) \subseteq Url
  BY KeptStays
<1>5. CASE EndStage(p)
  <2>1. /\ job'[p].at = "boundary" /\ job'[p].run = r /\ job'[p].n = n + 1
        /\ UNCHANGED <<scope, found, links, packed, report>>
    BY <1>1, <1>5 DEF EndStage, TypeOK, Job, runs, books
  <2>2. job[p].todo = {} /\ n \in {1, 2, 3, 4}
    BY <1>5, StagesAre DEF EndStage, Working
  <2>4. n \in {2, 3, 4} => \A u \in Kept(r) : <<r, u>> \in links
    <3>1. ASSUME n = 2 PROVE \A u \in Kept(r) : <<r, u>> \in links \/ <<u, "candidate">> \in job[p].todo
      <4>1. PICK todo : todo = job[p].todo
        OBVIOUS
      <4>2. WorkedAt("work", 2, r, todo)
        BY <1>3, <3>1, <4>1
      <4>3. \A u \in Kept(r) : <<r, u>> \in links \/ <<u, "candidate">> \in todo
        BY <4>2, LinkedAt
      <4> QED
        BY <4>1, <4>3
    <3>2. n \in {3, 4} => \A u \in Kept(r) : <<r, u>> \in links
      BY <1>3 DEF WorkedAt
    <3> QED
      BY <2>2, <3>1, <3>2
  <2>5. n \in {3, 4} => \A u \in Kept(r) : found[u] = "triaged"
    BY <1>3, <2>2 DEF WorkedAt
  <2>6. n = 4 => \A u \in Kept(r) : <<r, u>> \in packed
    BY <1>3, <2>2 DEF WorkedAt
  <2>7. /\ n + 1 \in {3, 4, 5} => n \in {2, 3, 4}
        /\ n + 1 \in {4, 5} => n \in {3, 4}
        /\ n + 1 = 5 => n = 4
    BY <2>2
  <2>8. WorkedAt("boundary", n + 1, r, {})'
    BY <1>4, <2>1, <2>4, <2>5, <2>6, <2>7 DEF WorkedAt
  <2>9. job'[p].todo = {}
    BY <1>1, <1>5, <2>2 DEF EndStage, TypeOK, Job
  <2> QED
    BY <2>1, <2>8, <2>9, WorkedNext
<1>6. CASE Write(p)
  <2>1. /\ job'[p].at = "close" /\ job'[p].run = r /\ job'[p].n = n
        /\ UNCHANGED <<scope, found, links, packed>>
    BY <1>1, <1>6 DEF Write, TypeOK, Job, runs
  <2>2. n = 5 /\ report'[r] = Full(r)
    BY <1>6, WriteIsFull DEF TypeOK
  <2>3. WorkedAt("close", n, r, {})'
    BY <1>3, <1>4, <2>1, <2>2 DEF WorkedAt
  <2>4. job'[p].todo = {}
    BY <1>1, <1>6 DEF Write, TypeOK, Job
  <2> QED
    BY <2>1, <2>3, <2>4, WorkedNext
<1> QED
  BY <1>5, <1>6
\* The jobs a step begins, ends or moves, without working on a finding.
LEMMA OwnMoves ==
  ASSUME Basics, Backed, NEW p \in Process, Step(p), job'[p] # None, job'[p].cmd = "local",
         Lasts
  PROVE  \/ job'[p] = job[p]
         \/ Boundary(p)
         \/ \E row \in job[p].todo : Insert(p, row) \/ Triage(p, row) \/ Package(p, row)
         \/ EndStage(p) \/ Write(p)
         \/ job'[p].at = "start" /\ job'[p].n = 1
         \/ Start(p)
<1> DEFINE Goal == \/ job'[p] = job[p]
                   \/ Boundary(p)
                   \/ \E row \in job[p].todo : Insert(p, row) \/ Triage(p, row) \/ Package(p, row)
                   \/ EndStage(p) \/ Write(p)
                   \/ job'[p].at = "start" /\ job'[p].n = 1
                   \/ Start(p)
<1> TypeOK
  BY DEF Basics
<1>1. ASSUME NEW r \in Run, NEW s \in Scope, NewRun(p, r, s) PROVE Goal
  BY <1>1 DEF NewRun
<1>2. ASSUME NEW r \in Run, NEW resume \in BOOLEAN,
             BeginLocal(p, r, resume) \/ BeginNothing(p, r, resume) \/ RefuseLive(p, r)
      PROVE  Goal
  BY <1>2 DEF BeginLocal, BeginNothing, RefuseLive, Command, TypeOK
<1>3. ASSUME NEW r \in Run, NEW targets \in LiveTargets, BeginLive(p, r, targets)
      PROVE  FALSE
  <2>1. job'[p].cmd = "live"
    BY <1>3 DEF BeginLive, Command, TypeOK
  <2> QED
    BY <2>1
<1>4. ASSUME NEW r \in Run, NEW u \in Url, NEW digest \in told, BeginReview(p, r, u, digest)
      PROVE  FALSE
  <2>1. job'[p].cmd = "review"
    BY <1>4 DEF BeginReview, Command, TypeOK
  <2> QED
    BY <2>1
<1>5. ASSUME NEW rs \in SUBSET Run, Stop(p, rs) PROVE Goal
  BY <1>5 DEF Stop
<1>6. CASE Close(p) \/ Fail(p) \/ Exit(p) \/ Send(p) \/ EndCall(p)
  BY <1>6 DEF Close, Fail, Exit, Send, EndCall, Over, TypeOK
<1>7. CASE Tool(p)
  <2>1. job[p].cmd = "live" /\ job[p] \in Job
    BY <1>7 DEF Tool, At, Basics, Fits, TypeOK
  <2> QED
    BY <1>7, <2>1 DEF Tool, Over, TypeOK, Job
<1>8. CASE Gate(p) \/ Call(p)
  <2>1. job[p].cmd \in {"review", "cloud"} /\ job[p] \in Job
    BY <1>8 DEF Gate, Call, At, Basics, Fits, TypeOK
  <2> QED
    BY <1>8, <2>1 DEF Gate, Call, ToStep, Over, TypeOK, Job
<1>9. CASE Reserve(p)
  BY <1>9 DEF Reserve, TypeOK
<1>10. ASSUME NEW r \in Run, NEW u \in Url, TellDigest(p, r, u) PROVE Goal
  BY <1>10 DEF TellDigest
<1>11. ASSUME NEW row \in (IF job[p] = None THEN {} ELSE job[p].todo),
              Insert(p, row) \/ Triage(p, row) \/ Package(p, row)
       PROVE  Goal
  BY <1>11
<1> QED
  BY <1>1, <1>2, <1>3, <1>4, <1>5, <1>6, <1>7, <1>8, <1>9, <1>10, <1>11 DEF Step

LEMMA BackedStep ==
  ASSUME Basics, Backed, NEW p \in Process, Step(p)
  PROVE  Backed'
<1> TypeOK /\ Lasts
  BY LastsStep DEF Basics
<1>1. \A r \in Run : report'[r] \in {report[r], Full(r)}
  BY BooksStay
<1>2. ASSUME NEW q \in Process, job[q] # None, job[q].cmd = "local", job'[q] = job[q]
      PROVE  Worked(q)'
  <2>1. Fits(q) /\ Worked(q)
    BY <1>2 DEF Basics, Backed
  <2>2. job[q].run \in Run
    BY <1>2, <2>1 DEF Fits
  <2> QED
    BY <1>1, <1>2, <2>1, <2>2, WorkStays
<1>3. ASSUME job'[p] # None, job'[p].cmd = "local"
      PROVE  Worked(p)'
  <2>1. CASE job'[p] = job[p]
    BY <1>2, <1>3, <2>1
  <2>2. CASE Boundary(p)
    BY <1>3, <2>2, EnterWork
  <2>3. CASE \E row \in job[p].todo : Insert(p, row) \/ Triage(p, row) \/ Package(p, row)
    BY <2>3, WorkOn
  <2>4. CASE EndStage(p) \/ Write(p)
    BY <2>4, LeaveWork
  <2>5. CASE job'[p].at = "start" /\ job'[p].n = 1
    BY <2>5 DEF Worked, WorkedAt
  <2>6. CASE Start(p)
    <3>1. job[p] # None /\ job[p] \in Job /\ job[p].at = "start"
      BY <2>6 DEF Start, At, TypeOK
    <3>2. job' = [job EXCEPT ![p].at = "boundary"] /\ UNCHANGED <<scope, books>>
      BY <1>3, <2>6 DEF Start, Over, ToStep, TypeOK
    <3>3. /\ job'[p].at = "boundary" /\ job'[p].run = job[p].run /\ job'[p].n = job[p].n
          /\ job'[p].todo = job[p].todo /\ job'[p].cmd = job[p].cmd
      BY <3>1, <3>2 DEF TypeOK, Job
    <3>4. Fits(p) /\ Worked(p)
      BY <1>3, <3>1, <3>3 DEF Basics, Backed
    <3>5. PICK r \in Run, n \in {1, 2, 3, 4, 5} :
             r = job[p].run /\ n = job[p].n /\ scope[r] \in Scope
      BY <1>3, <3>3, <3>4 DEF Fits
    <3>6. PICK todo : todo = job[p].todo
      OBVIOUS
    <3>7. WorkedAt("start", n, r, todo)
      BY <3>1, <3>4, <3>5, <3>6 DEF Worked
    <3>8. Kept(r)' = Kept(r)
      BY <3>5, KeptStays
    <3>9. WorkedAt("boundary", n, r, todo)'
      BY <3>2, <3>7, <3>8 DEF WorkedAt, books
    <3> QED
      BY <3>3, <3>5, <3>6, <3>9, WorkedNext
  <2> QED
    BY <1>3, <2>1, <2>2, <2>3, <2>4, <2>5, <2>6, OwnMoves
<1>4. ASSUME NEW q \in Process, job'[q] # None, job'[q].cmd = "local"
      PROVE  Worked(q)'
  <2>1. CASE q = p
    BY <1>3, <1>4, <2>1
  <2>2. CASE q # p
    <3>1. job'[q] = job[q]
      BY <2>2, OthersStay
    <3> QED
      BY <1>2, <1>4, <3>1
  <2> QED
    BY <2>1, <2>2
<1>5. \A r \in Run, u \in Url : <<r, u>> \in links' => scope'[r] \in Scope /\ u \in Kept(r)'
  BY BooksStay
<1>6. \A r \in Run : report'[r] # {} => /\ scope'[r] \in Scope /\ report'[r] = Full(r)'
                                        /\ \A u \in Kept(r)' : <<r, u>> \in packed'
  BY BooksStay
<1>7. \A r \in Run : status'[r] = "completed" => report'[r] = Full(r)'
  BY BooksStay
<1> QED
  BY <1>4, <1>5, <1>6, <1>7 DEF Backed

\* A report that is written is of all the findings its run has in scope, every one
\* triaged and with its evidence packaged, and a completed run has such a report, for any
\* number of processes on any number of runs with findings in common.
THEOREM ReportsAreBacked == Spec => []ReportIsBacked
<1>1. Init => Backed
  <2> SUFFICES ASSUME Init PROVE Backed
    OBVIOUS
  <2>1. links = {} /\ (\A r \in Run : report[r] = {} /\ status[r] = "none")
        /\ \A p \in Process : job[p] = None
    BY DEF Init
  <2> QED
    BY <2>1 DEF Backed
<1>2. Basics /\ Backed /\ [Next]_vars => Backed'
  <2> SUFFICES ASSUME Basics, Backed, [Next]_vars PROVE Backed'
    OBVIOUS
  <2>1. CASE Next
    BY <2>1, BackedStep DEF Next
  <2>2. CASE UNCHANGED vars
    <3>1. UNCHANGED <<scope, status, links, found, packed, report, job>>
      BY <2>2 DEF vars, runs, books
    <3> QED
      BY <3>1 DEF Backed, Worked, WorkedAt, Full, Kept
  <2> QED
    BY <2>1, <2>2
<1>3. Basics /\ Backed => ReportIsBacked
  <2> SUFFICES ASSUME Basics, Backed, NEW r \in Run
               PROVE  /\ \A row \in report[r] :
                           row[2] = "triaged" /\ row[1] \in InScope[scope[r]]
                           /\ <<r, row[1]>> \in packed
                      /\ status[r] = "completed" =>
                           {row[1] : row \in report[r]} = FixtureOf[r] \cap InScope[scope[r]]
    BY DEF ReportIsBacked
  <2>1. ASSUME NEW row \in report[r]
        PROVE  row[2] = "triaged" /\ row[1] \in InScope[scope[r]] /\ <<r, row[1]>> \in packed
    <3>1. report[r] = Full(r) /\ \A u \in Kept(r) : <<r, u>> \in packed
      BY DEF Backed
    <3>2. PICK u \in Kept(r) : row = <<u, "triaged">>
      BY <3>1 DEF Full
    <3>3. row[1] = u /\ row[2] = "triaged"
      BY <3>2
    <3> QED
      BY <3>1, <3>3 DEF Kept
  <2>2. ASSUME status[r] = "completed"
        PROVE  {row[1] : row \in report[r]} = Kept(r)
    <3>1. report[r] = Full(r)
      BY <2>2 DEF Backed
    <3>2. \A u \in Kept(r) : <<u, "triaged">>[1] = u
      OBVIOUS
    <3>3. {row[1] : row \in Full(r)} = {<<u, "triaged">>[1] : u \in Kept(r)}
      BY DEF Full
    <3> QED
      BY <3>1, <3>2, <3>3
  <2> QED
    BY <2>1, <2>2 DEF Kept
<1> QED
  BY <1>1, <1>2, <1>3, BasicsAlways, PTL DEF Spec
=============================================================================
