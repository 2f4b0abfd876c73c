---------------------------- MODULE LabVisitsProofs ----------------------------
(***************************************************************************)
(* Theorems about LabVisits, for every inventory of labs and of cases,     *)
(* every policy, and every limit of requests, containers, redirects,       *)
(* scripts and rounds.                                                     *)
(***************************************************************************)
EXTENDS LabVisits, TLAPS

-----------------------------------------------------------------------------
(***************************************************************************)
(* The cases and the requests of a tool.                                   *)
(***************************************************************************)

\* A remainder is a number below the divisor.
LEMMA Remainder == ASSUME NEW a \in Nat, NEW b \in Nat \ {0} PROVE (a % b) + 1 \in 1..b
OBVIOUS

LEMMA Product == ASSUME NEW a \in Nat \ {0}, NEW b \in Nat \ {0} PROVE a * b \in Nat \ {0}
OBVIOUS

LEMMA CasesFacts ==
  ASSUME lab \in Inventory
  PROVE  /\ Len(CasesOf) \in Nat \ {0}
         /\ \A i \in 1..Len(CasesOf) :
              CasesOf[i].auth # "none" => "surface" \in CasesOf[i].expected.contains
<1>1. lab.lab_id \in DOMAIN Cases /\ DOMAIN CasesOf = 1..Len(CasesOf)
  BY VisitAssumption DEF CasesOf
<1>2. ASSUME NEW i \in 1..Len(CasesOf) PROVE <<lab.lab_id, i>> \in Places(Cases)
  BY <1>1 DEF Places, CasesOf
<1>3. ASSUME NEW x \in Places(Cases), Cases[x[1]][x[2]].auth # "none"
      PROVE  "surface" \in Cases[x[1]][x[2]].expected.contains
  BY <1>3, VisitAssumption
<1>4. Len(CasesOf) \in Nat \ {0}
  BY VisitAssumption DEF CasesOf
<1> QED
  BY <1>2, <1>3, <1>4 DEF CasesOf

LEMMA ItemsFacts == ASSUME lab \in Inventory, NEW p, NEW k PROVE Items(p, k) \in Nat \ {0}
<1>1. Len(CasesOf) \in Nat \ {0} /\ Rounds \in Nat \ {0} /\ Objects \in Nat \ {0} /\ MaxScripts \in Nat
  BY CasesFacts, VisitAssumption
<1>2. Len(CasesOf) * Rounds \in Nat \ {0} /\ Len(CasesOf) * 1 \in Nat \ {0} /\ 3 * Objects \in Nat \ {0}
  BY <1>1, Product
<1> QED
  BY <1>1, <1>2 DEF Items

LEMMA CaseLooks ==
  ASSUME lab \in Inventory, NEW p, NEW left \in 1..Items(p, "regression"),
         CaseAt(p, left).auth # "none"
  PROVE  "surface" \in CaseAt(p, left).expected.contains
<1>1. Len(CasesOf) \in Nat \ {0} /\ Items(p, "regression") - left \in Nat
  BY CasesFacts, ItemsFacts
<1>2. ((Items(p, "regression") - left) % Len(CasesOf)) + 1 \in 1..Len(CasesOf)
  BY <1>1, Remainder
<1> QED
  BY <1>2, CasesFacts DEF CaseAt

-----------------------------------------------------------------------------
(***************************************************************************)
(* Type correctness, and what a job of a process looks like.               *)
(***************************************************************************)
Shells   == {"none", "operate", "regression"}
Making   == {"setup", "create", "page again", "login again"}

\* Each place belongs to one kind of job, and a request is asked for while one is left.
\* The dashboard never gets where the database is made.
Fits(p, j) ==
  /\ j \in Job /\ ~j.refused
  /\ j.at = "idle" <=> j.kind = "none"
  /\ j.at \in Look <=> j.kind = "detect"
  /\ j.kind = "operate" => j.at = "lab"
  /\ j.at \in Login \cup {"ask"} => j.left >= 1
  /\ j.at \in Filing \cup {"over"} /\ j.kind \in Session => j.left = 0
  /\ j.candidate => j.at \in Filing
  /\ p = Shell => j.kind \in Shells /\ j.at \notin Filing
  /\ p = Console => /\ j.at \notin Making \cup {"printed"}
                    /\ j.at = "lab" => j.kind = "operate"

LEMMA NoJobFits == ASSUME NEW p PROVE Fits(p, NoJob)
<1>1. NoJob \in Job
  BY ManagerAssumption DEF NoJob, Job, Kind
<1> QED
  BY <1>1 DEF Fits, NoJob, Look, Login, Filing, Shells, Making

\* A job that is moved to its next request is over, or at the first step of its login.
LEMMA PlacedFits ==
  ASSUME NEW p, NEW j \in Job, j.kind \in Tool, ~j.refused, ~j.candidate,
         p = Shell => j.kind = "regression"
  PROVE  /\ Fits(p, Placed(p, j))
         /\ Placed(p, j) = [j EXCEPT !.at = Placed(p, j).at]
         /\ Placed(p, j).at \in {"over", "page", "register", "ask"}
<1> DEFINE at == IF j.left = 0 THEN "over" ELSE Opening(Auth(p, j.kind, j.left))
<1>1. at \in {"over", "page", "register", "ask"} /\ (at = "over" <=> j.left = 0)
  BY DEF Opening
<1>2. Placed(p, j) = [j EXCEPT !.at = at]
  BY DEF Placed
<1> HIDE DEF at
<1>3. [j EXCEPT !.at = at] \in Job
  BY <1>1 DEF Job, Login
<1> DEFINE x == [j EXCEPT !.at = at]
<1>4. /\ x.kind = j.kind /\ x.left = j.left /\ x.refused = j.refused /\ x.candidate = j.candidate
      /\ x.at = at /\ j.left \in Nat
  BY DEF Job
<1>5. x \in Job
  BY <1>3
<1> HIDE DEF x
<1>6. Fits(p, x)
  <2>1. x.at \in {"over", "page", "register", "ask"} /\ x.kind \in Tool
    BY <1>1, <1>4
  <2>2. /\ x.at \notin Look \cup Filing \cup Making \cup {"idle", "printed", "lab"}
        /\ x.kind \notin {"none", "operate", "detect"}
    BY ONLY <2>1 DEF Tool, Session, Fetch, Look, Filing, Making
  <2>3. (x.at \in Login \cup {"ask"} => x.left >= 1) /\ (x.at = "over" => x.left = 0)
    <3>1. CASE j.left = 0
      <4>1. x.at = "over" /\ x.left = 0
        BY <1>1, <1>4, <3>1
      <4> QED
        BY ONLY <4>1 DEF Login
    <3>2. CASE j.left # 0
      <4>1. x.at # "over"
        BY <1>1, <1>4, <3>2
      <4>2. x.left \in Nat /\ x.left # 0
        BY <1>4, <3>2
      <4> QED
        BY ONLY <4>1, <4>2
    <3> QED
      BY <3>1, <3>2
  <2>4. ~x.refused /\ ~x.candidate
    BY <1>4
  <2>5. p = Shell => x.kind \in Shells
    BY <1>4 DEF Shells
  <2> QED
    BY ONLY <1>5, <2>2, <2>3, <2>4, <2>5 DEF Fits
<1> QED
  BY <1>1, <1>2, <1>4, <1>6 DEF x

LEMMA StartFits ==
  ASSUME lab \in Inventory, NEW p, NEW k \in Tool, p = Shell => k = "regression"
  PROVE  /\ Fits(p, Start(p, k)) /\ Start(p, k).kind = k
         /\ Start(p, k) = [NoJob EXCEPT !.kind = k, !.left = Items(p, k), !.at = Start(p, k).at]
<1> DEFINE j == [NoJob EXCEPT !.kind = k, !.left = Items(p, k)]
<1>0. Items(p, k) \in Nat /\ 0 \in 0..MaxBorn
  BY ItemsFacts, ManagerAssumption
<1>1. j \in Job /\ j.kind = k /\ ~j.refused /\ ~j.candidate
  BY ONLY <1>0, k \in Tool DEF Job, NoJob, Kind
<1>2. Start(p, k) = Placed(p, j)
  BY DEF Start
<1>3. /\ Fits(p, Placed(p, j)) /\ Placed(p, j) = [j EXCEPT !.at = Placed(p, j).at]
  BY <1>1, PlacedFits
<1>4. Fits(p, Start(p, k)) /\ Start(p, k) = [j EXCEPT !.at = Start(p, k).at]
  BY <1>2, <1>3
<1>5. [j EXCEPT !.at = Start(p, k).at].kind = k
  BY ONLY TRUE DEF NoJob
<1>6. [j EXCEPT !.at = Start(p, k).at] = [NoJob EXCEPT !.kind = k, !.left = Items(p, k), !.at = Start(p, k).at]
  BY ONLY TRUE DEF NoJob
<1> QED
  BY ONLY <1>4, <1>5, <1>6

\* A job with a request to make, and what becomes of it when that is judged.
Judging(p, j) ==
  /\ j \in Job /\ j.kind \in Tool /\ j.left >= 1 /\ ~j.refused /\ ~j.candidate
  /\ p = Shell => j.kind = "regression"

Advanced(j, v, known, d) ==
  /\ d \in Job /\ d.kind = j.kind /\ ~d.candidate
  /\ d.got = j.got \cup {v} /\ d.left = j.left - 1
  /\ v = "PASS" /\ known => d.good = j.good + 1
  /\ ~(v = "PASS" /\ known) => d.good = j.good
  /\ d.at \in {"over", "page", "register", "ask"}

LEMMA JudgedFits ==
  ASSUME NEW p, NEW j, Judging(p, j), NEW v \in Verdict, NEW known \in BOOLEAN
  PROVE  Fits(p, Judged(p, j, v, known)) /\ Advanced(j, v, known, Judged(p, j, v, known))
<1>0. /\ j \in Job /\ j.kind \in Tool /\ j.left >= 1 /\ ~j.refused /\ ~j.candidate
      /\ p = Shell => j.kind = "regression"
  BY DEF Judging
<1> DEFINE n == [j EXCEPT !.got = @ \cup {v}, !.good = IF v = "PASS" /\ known THEN @ + 1 ELSE @,
                          !.left = @ - 1, !.hop = 0, !.out = FALSE,
                          !.sess = IF j.kind = "regression" THEN 0 ELSE @]
<1>1. /\ j.left \in Nat /\ j.good \in Nat /\ 0 \in 0..MaxBorn
      /\ j.sess \in 0..MaxBorn /\ j.got \subseteq Verdict
  BY <1>0, ManagerAssumption DEF Job
<1>2. /\ n.kind = j.kind /\ n.got = j.got \cup {v} /\ n.left = j.left - 1
      /\ v = "PASS" /\ known => n.good = j.good + 1
      /\ ~(v = "PASS" /\ known) => n.good = j.good
      /\ n.refused = j.refused /\ n.candidate = j.candidate
  BY <1>0 DEF Job
<1>3. n \in Job
  <2>1. j.left - 1 \in Nat /\ j.got \cup {v} \in SUBSET Verdict
    BY <1>0, <1>1
  <2>2. (IF v = "PASS" /\ known THEN j.good + 1 ELSE j.good) \in Nat
    BY <1>1
  <2>3. (IF j.kind = "regression" THEN 0 ELSE j.sess) \in 0..MaxBorn
    BY <1>1
  <2> QED
    BY ONLY <1>0, <2>1, <2>2, <2>3 DEF Job
<1>4. Judged(p, j, v, known) = Placed(p, n)
  BY DEF Judged
<1> HIDE DEF n
<1>5. /\ Fits(p, Placed(p, n)) /\ Placed(p, n) = [n EXCEPT !.at = Placed(p, n).at]
      /\ Placed(p, n).at \in {"over", "page", "register", "ask"}
  BY <1>0, <1>2, <1>3, PlacedFits
<1>6. /\ Placed(p, n).kind = n.kind /\ Placed(p, n).got = n.got /\ Placed(p, n).left = n.left
      /\ Placed(p, n).good = n.good /\ Placed(p, n).candidate = n.candidate
  BY ONLY <1>5, <1>3 DEF Job
<1>7. Placed(p, n) \in Job
  BY <1>5 DEF Fits
<1> QED
  BY <1>0, <1>2, <1>4, <1>5, <1>6, <1>7 DEF Advanced

-----------------------------------------------------------------------------
(***************************************************************************)
(* What docker makes of a container is again one, no older, and a removed  *)
(* one comes back only as a newer one.                                     *)
(***************************************************************************)
Ages(b, x) ==
  /\ x \in Box /\ b.born <= x.born
  /\ b.state = "none" /\ x.born = b.born => x.state = "none"

LEMMA AfterAges ==
  ASSUME NEW c, NEW b \in Box, After(c, b).born <= MaxBorn
  PROVE  Ages(b, After(c, b))
<1>1. /\ b.state \in {"none", "created", "running", "exited"} /\ b.born \in 0..MaxBorn
      /\ MaxBorn \in Nat
  BY ManagerAssumption DEF Box
<1>2. CASE c = "up" /\ b.state = "none"
  <2>1. After(c, b) = [[b EXCEPT !.state = "running"] EXCEPT !.born = @ + 1]
    BY <1>2 DEF After, Made, Started
  <2>2. After(c, b) = [state |-> "running", born |-> b.born + 1]
    BY <2>1 DEF Box
  <2>3. b.born + 1 \in 0..MaxBorn
    BY <1>1, <2>2
  <2>4. After(c, b) \in Box /\ After(c, b).born = b.born + 1
    BY <2>2, <2>3 DEF Box
  <2> QED
    BY <1>1, <2>4 DEF Ages
<1>3. CASE ~(c = "up" /\ b.state = "none")
  <2>1. PICK s \in {"none", "created", "running", "exited"} :
          After(c, b) = [b EXCEPT !.state = s] /\ (b.state = "none" => s = "none")
    <3>1. b = [b EXCEPT !.state = b.state]
      BY DEF Box
    <3> QED
      BY <1>1, <1>3, <3>1 DEF After, Started
  <2>2. After(c, b) \in Box /\ After(c, b).born = b.born /\ After(c, b).state = s
    BY <1>1, <2>1 DEF Box
  <2> QED
    BY <1>1, <2>1, <2>2 DEF Ages
<1> QED
  BY <1>2, <1>3

LEMMA HalfAges == ASSUME NEW c, NEW b \in Box, NEW x \in Half(c, b) PROVE Ages(b, x)
<1>1. b.born \in 0..MaxBorn /\ MaxBorn \in Nat
  BY ManagerAssumption DEF Box
<1>2. CASE x = b
  BY <1>1, <1>2 DEF Ages
<1>3. CASE x = After(c, b)
  <2>1. After(c, b).born <= MaxBorn
    BY <1>3 DEF Half
  <2> QED
    BY <1>3, <2>1, AfterAges
<1>4. CASE x = [After(c, b) EXCEPT !.state = "created"] /\ x # b
  <2>1. x.born <= MaxBorn /\ (x.state = "created" => x.born > b.born)
    BY <1>4 DEF Half
  <2>2. PICK s \in {"none", "created", "running", "exited"}, n \in Nat :
          After(c, b) = [state |-> s, born |-> n]
    <3>1. /\ b = [state |-> b.state, born |-> b.born] /\ b.born \in Nat /\ b.born + 1 \in Nat
          /\ b.state \in {"none", "created", "running", "exited"}
      BY <1>1 DEF Box
    <3>2. \A s : [b EXCEPT !.state = s] = [state |-> s, born |-> b.born]
      BY <3>1
    <3>3. CASE c = "up" /\ b.state = "none"
      <4>1. After(c, b) = [state |-> "running", born |-> b.born + 1]
        BY <3>1, <3>3 DEF After, Made, Started
      <4> QED
        BY <3>1, <4>1
    <3>4. CASE ~(c = "up" /\ b.state = "none")
      <4>1. \/ After(c, b) = b
            \/ \E s \in {"none", "running", "exited"} : After(c, b) = [b EXCEPT !.state = s]
        BY <3>4 DEF After, Started
      <4> QED
        BY ONLY <3>1, <3>2, <4>1
    <3> QED
      BY <3>3, <3>4
  <2>3. x = [state |-> "created", born |-> n]
    BY <1>4, <2>2
  <2>4. x.state = "created" /\ x.born = n
    BY <2>3
  <2>5. n \in 0..MaxBorn /\ n > b.born
    BY <1>1, <2>1, <2>4
  <2>6. x \in Box /\ x.born > b.born
    BY <2>3, <2>4, <2>5 DEF Box
  <2> QED
    BY <1>1, <2>4, <2>6 DEF Ages
<1> QED
  BY <1>2, <1>3, <1>4 DEF Half

-----------------------------------------------------------------------------
(***************************************************************************)
(* The invariant of the tools: a job of a session accounts for each of its *)
(* requests, and what the task was told last is true.                      *)
(***************************************************************************)
Sound(p, j) ==
  \A k \in Session : j.kind = k /\ j.at \notin {"lab", "printed"} =>
    /\ j.left <= Items(p, k)
    /\ j.got \subseteq {"PASS"} => j.good + j.left = Items(p, k)

Jobs ==
  /\ job \in [Process -> Job]
  /\ \A p \in Process : Fits(p, job[p]) /\ Sound(p, job[p])

Honest ==
  /\ told \in Told
  /\ ResultIsBacked /\ CandidateIsFiled
  /\ job[Console].kind \in Tool => told = NoWord
  /\ job[Console].at \in {"insert", "mark"} => filed.noted
  /\ job[Console].at = "mark" => filed.found

\* The rest of the types.
Plain ==
  /\ ManagerTypeOK /\ made \in BOOLEAN
  /\ agent \in {"none", "active", "over"}
  /\ used \subseteq Tool /\ spent \in Nat /\ sent \in Nat
  /\ filed \in [run : {"none", "created", "review"}, noted : BOOLEAN, found : BOOLEAN]
  /\ run \in {"none", "created", "running", "blocked_dependency", "cancelled", "completed", "failed"}
  /\ report \in BOOLEAN /\ shown \in {"none", "completed", "cancelled", "failed"} /\ cut \in BOOLEAN
  /\ score \in [status : Profile \cup {"none", "failed"}, good : Nat]

Basics == Plain /\ Jobs /\ Honest

LEMMA Processes == Console \in Process /\ Shell \in Process /\ Console # Shell
BY ManagerAssumption DEF Process

\* A step of a tool of p leaves the dashboard with a tool, or with nothing, if it is
\* the dashboard's, and what the dashboard does alone if it is not.
Keeps(p) ==
  /\ p = Console => job'[Console].kind \in Tool \cup {"none"}
  /\ p # Console => job'[Console] = job[Console]

LEMMA ItemsStay == ASSUME lab' = lab, NEW p, NEW k PROVE Items(p, k)' = Items(p, k)
BY DEF Items, CasesOf

\* A process takes up another job.
LEMMA JobsMove ==
  ASSUME Jobs, lab' = lab, NEW p \in Process, NEW j, Set(p, j), Fits(p, j), Sound(p, j)
  PROVE  Jobs' /\ job'[p] = j /\ \A q \in Process : q # p => job'[q] = job[q]
<1>1. j \in Job
  BY DEF Fits
<1>2. /\ job' \in [Process -> Job] /\ job'[p] = j
      /\ \A q \in Process : q # p => job'[q] = job[q]
  BY <1>1 DEF Jobs, Set
<1>3. ASSUME NEW q \in Process PROVE (Fits(q, job[q]) /\ Sound(q, job[q]))'
  <2>1. Fits(q, job'[q]) /\ Sound(q, job'[q])
    BY <1>2 DEF Jobs
  <2>2. (\A k \in Session : job[q].kind = k /\ job[q].at \notin {"lab", "printed"} =>
           /\ job[q].left <= Items(q, k)
           /\ job[q].got \subseteq {"PASS"} => job[q].good + job[q].left = Items(q, k))'
    BY <2>1, ItemsStay DEF Sound
  <2> QED
    BY <2>1, <2>2 DEF Sound, Fits
<1> QED
  BY <1>2, <1>3 DEF Jobs

LEMMA JobsSame == ASSUME Jobs, lab' = lab, job' = job PROVE Jobs'
<1>1. ASSUME NEW q \in Process PROVE (Fits(q, job[q]) /\ Sound(q, job[q]))'
  <2>1. Fits(q, job'[q]) /\ Sound(q, job'[q])
    BY DEF Jobs
  <2>2. (\A k \in Session : job[q].kind = k /\ job[q].at \notin {"lab", "printed"} =>
           /\ job[q].left <= Items(q, k)
           /\ job[q].got \subseteq {"PASS"} => job[q].good + job[q].left = Items(q, k))'
    BY <2>1, ItemsStay DEF Sound
  <2> QED
    BY <2>1, <2>2 DEF Sound, Fits
<1> QED
  BY <1>1 DEF Jobs

\* What the task was told stays true while nothing is told, and while a tool runs
\* it has been told nothing yet.
LEMMA HonestMove ==
  ASSUME Jobs, Honest, lab' = lab,
         score' = score \/ (score'.status = "COMPLETED" => score'.good = Items(Shell, "regression")),
         NEW p \in Process, NEW j, Set(p, j), Fits(p, j),
         told' = NoWord \/ (told' = told /\ filed' = filed),
         p = Console => /\ j.kind \in Tool => told' = NoWord
                        /\ j.at \in {"insert", "mark"} => filed'.noted
                        /\ j.at = "mark" => filed'.found,
         p # Console => told' = told /\ filed' = filed
  PROVE  Honest'
<1>1. j \in Job
  BY DEF Fits
<1>2. IF p = Console THEN job'[Console] = j ELSE job'[Console] = job[Console]
  BY <1>1, Processes DEF Jobs, Set
<1>3. /\ job'[Console].kind \in Tool => told' = NoWord
      /\ job'[Console].at \in {"insert", "mark"} => filed'.noted
      /\ job'[Console].at = "mark" => filed'.found
  BY <1>2 DEF Honest
<1>4. (score.status = "COMPLETED" => score.good = Items(Shell, "regression"))'
  BY ItemsStay DEF Honest, ResultIsBacked
<1>5. CASE told' = NoWord
  <2>1. /\ told'.kind = "none" /\ told'.status = "none" /\ ~told'.refused /\ ~told'.candidate
        /\ told' \in Told
    BY <1>5 DEF NoWord, Told
  <2> QED
    BY <1>3, <1>4, <2>1 DEF Honest, ResultIsBacked, CandidateIsFiled
<1>6. CASE told' = told /\ filed' = filed
  <2>1. (told.status = "COMPLETED" /\ told.kind \in Session => told.good = Items(Console, told.kind))'
    <3>1. \A k \in Session : told.status = "COMPLETED" /\ told.kind = k => told.good = Items(Console, k)
      BY DEF Honest, ResultIsBacked
    <3>2. (\A k \in Session : told.status = "COMPLETED" /\ told.kind = k => told.good = Items(Console, k))'
      BY <1>6, <3>1, ItemsStay
    <3> QED
      BY <3>2
  <2> QED
    BY <1>3, <1>4, <1>6, <2>1 DEF Honest, ResultIsBacked, CandidateIsFiled
<1> QED
  BY <1>5, <1>6

\* A tool tells what it came to: its job is over, and the word must be true.
LEMMA HonestTell ==
  ASSUME Jobs, Honest, lab' = lab, score' = score, NEW j, NEW status, Tell(j, status),
         j.kind \in Tool, j.good \in Nat, j.refused \in BOOLEAN, j.candidate \in BOOLEAN,
         status \in Profile \cup Refusal \cup {"failed"},
         j.refused => status \in Refusal,
         j.kind \in Session /\ status = "COMPLETED" => j.good = Items(Console, j.kind),
         j.candidate => filed'.found /\ filed'.noted /\ filed'.run = "review"
  PROVE  /\ Jobs' /\ Honest' /\ agent' \in {"none", "active", "over"} /\ cancel' \in BOOLEAN
         /\ Keeps(Console)
<1>1. Fits(Console, NoJob) /\ Sound(Console, NoJob)
  BY NoJobFits DEF NoJob, Sound, Session
<1>2. Jobs' /\ job'[Console] = NoJob
  BY <1>1, JobsMove, Processes DEF Tell
<1>3. /\ told'.kind = j.kind /\ told'.status = status /\ told'.good = j.good
      /\ told'.refused = j.refused /\ told'.candidate = j.candidate
  BY DEF Tell
<1>4. told' \in Told
  BY DEF Tell, Told
<1>5. job'[Console].kind \notin Tool /\ job'[Console].at \notin {"insert", "mark"}
  BY <1>2 DEF NoJob, Tool, Session, Fetch
<1>6. (told.status = "COMPLETED" /\ told.kind \in Session => told.good = Items(Console, told.kind))'
  <2>1. (\A k \in Session : told.status = "COMPLETED" /\ told.kind = k => told.good = Items(Console, k))'
    BY <1>3, ItemsStay
  <2> QED
    BY <2>1
<1>7. (score.status = "COMPLETED" => score.good = Items(Shell, "regression"))'
  BY ItemsStay DEF Honest, ResultIsBacked
<1>8. (told.refused => told.status \in Refusal)' /\ CandidateIsFiled'
  BY <1>3 DEF CandidateIsFiled
<1>9. agent' \in {"none", "active", "over"} /\ cancel' \in BOOLEAN
  BY DEF Tell
<1>10. Keeps(Console)
  BY <1>2 DEF NoJob, Keeps
<1> QED
  BY <1>2, <1>4, <1>5, <1>6, <1>7, <1>8, <1>9, <1>10 DEF Honest, ResultIsBacked

\* What changes neither a job nor a word changes nothing here.
LEMMA HonestSame ==
  ASSUME Honest, lab' = lab, job' = job, told' = told, filed' = filed,
         score' = score \/ score' = NoScore
  PROVE  Honest'
<1>1. (told.status = "COMPLETED" /\ told.kind \in Session => told.good = Items(Console, told.kind))'
  <2>1. \A k \in Session : told.status = "COMPLETED" /\ told.kind = k => told.good = Items(Console, k)
    BY DEF Honest, ResultIsBacked
  <2>2. (\A k \in Session : told.status = "COMPLETED" /\ told.kind = k => told.good = Items(Console, k))'
    BY <2>1, ItemsStay
  <2> QED
    BY <2>2
<1>2. (score.status = "COMPLETED" => score.good = Items(Shell, "regression"))'
  BY ItemsStay DEF Honest, ResultIsBacked, NoScore
<1> QED
  BY <1>1, <1>2 DEF Honest, ResultIsBacked, CandidateIsFiled

-----------------------------------------------------------------------------
(***************************************************************************)
(* The tools.                                                              *)
(***************************************************************************)

\* A verdict keeps the account: a request is used up, and it passes only if the
\* session was known.
LEMMA JudgedSound ==
  ASSUME NEW p, NEW j, Judging(p, j), NEW v \in Verdict, NEW known \in BOOLEAN,
         lab \in Inventory, Sound(p, j), j.at \notin {"lab", "printed"},
         j.kind \in Session /\ v = "PASS" => known
  PROVE  Sound(p, Judged(p, j, v, known))
<1> DEFINE d == Judged(p, j, v, known)
<1>1. /\ d.kind = j.kind /\ d.got = j.got \cup {v} /\ d.left = j.left - 1
      /\ v = "PASS" /\ known => d.good = j.good + 1
  BY JudgedFits DEF Advanced
<1>0. j \in Job /\ j.left >= 1
  BY DEF Judging
<1> HIDE DEF d
<1>2. ASSUME NEW k \in Session, d.kind = k
      PROVE  /\ d.left <= Items(p, k)
             /\ d.got \subseteq {"PASS"} => d.good + d.left = Items(p, k)
  <2>1. /\ Items(p, k) \in Nat /\ j.left \in Nat /\ j.good \in Nat /\ j.left <= Items(p, k)
        /\ j.got \subseteq {"PASS"} => j.good + j.left = Items(p, k)
    BY <1>0, <1>1, <1>2, ItemsFacts DEF Sound, Job
  <2>2. d.left <= Items(p, k)
    BY <1>1, <2>1
  <2>3. ASSUME d.got \subseteq {"PASS"} PROVE d.good + d.left = Items(p, k)
    <3>1. v = "PASS" /\ j.got \subseteq {"PASS"}
      BY <1>1, <2>3
    <3>2. known
      BY <1>1, <1>2, <3>1
    <3>3. d.good = j.good + 1
      BY <1>1, <3>1, <3>2
    <3> QED
      BY ONLY <1>0, <1>1, <2>1, <3>1, <3>3
  <2> QED
    BY <2>2, <2>3
<1> QED
  BY <1>2 DEF d, Sound

\* A tool at its first request accounts for all it will make.
LEMMA StartSound ==
  ASSUME lab \in Inventory, NEW p, NEW k \in Tool, p = Shell => k = "regression"
  PROVE  Sound(p, Start(p, k))
<1>1. Items(p, k) \in Nat
  BY ItemsFacts
<1>2. Start(p, k) = [NoJob EXCEPT !.kind = k, !.left = Items(p, k), !.at = Start(p, k).at]
  BY StartFits
<1>3. Start(p, k).kind = k /\ Start(p, k).left = Items(p, k) /\ Start(p, k).good = 0
  BY ONLY <1>2 DEF NoJob
<1> QED
  BY <1>1, <1>3 DEF Sound

\* A case or a control passes only if the lab knew its session.
LEMMA PassIsKnown ==
  ASSUME lab \in Inventory, NEW p \in Process, job[p] \in Job, Sound(p, job[p]),
         job[p].kind \in Session, job[p].left >= 1, job[p].at = "ask", NEW a \in Answers(p)
  PROVE  LET v == IF job[p].kind = "regression" THEN Evaluate(CaseAt(p, job[p].left), Read(a))
                  ELSE IF a.status = 200 THEN "PASS" ELSE "FAIL"
         IN  v \in Verdict /\ (v = "PASS" => Known(p))
<1> DEFINE c == CaseAt(p, job[p].left)
<1>1. Evaluate(c, Read(a)) \in Verdict
  BY DEF Evaluate, Verdict
<1>2. ASSUME ~Known(p), job[p].kind = "regression" PROVE Evaluate(c, Read(a)) # "PASS"
  <2>1. c.auth # "none"
    BY <1>2 DEF Known, Auth
  <2>2. job[p].left \in 1..Items(p, "regression")
    BY <1>2, ItemsFacts DEF Sound, Session, Job
  <2>3. "surface" \in c.expected.contains
    BY <2>1, <2>2, CaseLooks
  <2>4. "surface" \notin Read(a).says
    BY <1>2 DEF Answers, Read
  <2> QED
    BY <2>3, <2>4 DEF Evaluate, Meets
<1>3. ASSUME ~Known(p) PROVE a.status = 302
  BY <1>3 DEF Answers
<1> QED
  BY <1>1, <1>2, <1>3 DEF Verdict, Known

LEMMA AskingFacts ==
  ASSUME Basics, NEW p \in Process, Asking(p)
  PROVE  /\ Judging(p, job[p]) /\ Fits(p, job[p]) /\ Sound(p, job[p])
         /\ job[p].at \in Login \cup {"ask"} /\ job[p].at \notin {"lab", "printed"}
         /\ p = Console => told = NoWord
<1>1. Fits(p, job[p]) /\ Sound(p, job[p])
  BY DEF Basics, Jobs
<1>2. job[p].kind \in Tool /\ job[p].at \in Login \cup {"ask"}
  BY DEF Asking
<1>3. job[p].at \notin {"lab", "printed"} \cup Filing
  BY ONLY <1>2 DEF Login, Filing
<1>4. job[p] \in Job /\ ~job[p].refused /\ ~job[p].candidate /\ job[p].left >= 1
  BY <1>1, <1>2, <1>3 DEF Fits
<1>5. p = Shell => job[p].kind = "regression"
  <2>1. p = Shell => job[p].kind \in Shells
    BY <1>1 DEF Fits
  <2> QED
    BY ONLY <1>2, <2>1 DEF Shells, Tool, Session, Fetch
<1>6. p = Console => told = NoWord
  BY <1>2 DEF Basics, Honest
<1> QED
  BY <1>1, <1>2, <1>3, <1>4, <1>5, <1>6 DEF Judging

LEMMA JudgedStep ==
  ASSUME Basics, NEW p \in Process, Asking(p), NEW v \in Verdict, NEW known \in BOOLEAN,
         job[p].kind \in Session /\ v = "PASS" => known,
         Set(p, Judged(p, job[p], v, known)),
         lab' = lab, score' = score, filed' = filed, told' = told
  PROVE  Jobs' /\ Honest' /\ Keeps(p)
<1> DEFINE d == Judged(p, job[p], v, known)
<1>1. lab \in Inventory /\ Jobs /\ Honest
  BY DEF Basics, Plain, ManagerTypeOK
<1>2. Judging(p, job[p]) /\ Sound(p, job[p]) /\ job[p].at \notin {"lab", "printed"}
  BY AskingFacts
<1>3. Fits(p, d) /\ Sound(p, d)
  BY <1>1, <1>2, JudgedFits, JudgedSound DEF Judging
<1>4. d.kind = job[p].kind /\ d.at \in {"over", "page", "register", "ask"}
  BY <1>2, JudgedFits DEF Advanced
<1>5. d.at \notin {"insert", "mark"} /\ (p = Console => told' = NoWord)
  BY <1>4, AskingFacts
<1>6. Set(p, d)
  OBVIOUS
<1> HIDE DEF d
<1>7. Jobs' /\ job'[p] = d /\ \A q \in Process : q # p => job'[q] = job[q]
  BY <1>1, <1>3, <1>6, JobsMove
<1>8. Honest'
  BY <1>1, <1>3, <1>5, <1>6, HonestMove
<1>9. Keeps(p)
  BY <1>2, <1>4, <1>7, Processes DEF Keeps, Judging
<1> QED
  BY <1>7, <1>8, <1>9

\* A request that came to nothing ends its tool, or its case.
LEMMA BlockedStep ==
  ASSUME Basics, NEW p \in Process, Asking(p), Blocked(p),
         lab' = lab, score' = score, filed' = filed
  PROVE  Jobs' /\ Honest' /\ agent' \in {"none", "active", "over"} /\ cancel' \in BOOLEAN /\ Keeps(p)
<1>1. CASE job[p].kind = "regression"
  <2>1. /\ Set(p, Judged(p, job[p], "BLOCKED_DEPENDENCY", FALSE))
        /\ told' = told /\ agent' = agent /\ cancel' = cancel
    BY <1>1 DEF Blocked
  <2>2. "BLOCKED_DEPENDENCY" \in Verdict /\ "BLOCKED_DEPENDENCY" # "PASS"
    BY DEF Verdict
  <2>3. Jobs' /\ Honest' /\ Keeps(p)
    BY <2>1, <2>2, JudgedStep
  <2> QED
    BY <2>1, <2>3 DEF Basics, Plain, ManagerTypeOK
<1>2. CASE job[p].kind # "regression"
  <2>1. Tell(job[p], "failed")
    BY <1>2 DEF Blocked
  <2>2. job[p] \in Job /\ job[p].kind \in Tool /\ ~job[p].refused /\ ~job[p].candidate
    BY AskingFacts DEF Judging
  <2>3. job[p].good \in Nat /\ job[p].refused \in BOOLEAN /\ job[p].candidate \in BOOLEAN
    BY <2>2 DEF Job
  <2>4. Jobs /\ Honest /\ p = Console
    BY <1>2, AskingFacts DEF Basics, Judging, Process
  <2> QED
    BY <2>1, <2>2, <2>3, <2>4, HonestTell
<1> QED
  BY <1>1, <1>2

LEMMA RefuseStep ==
  ASSUME Basics, NEW p \in Process, Refuse(p)
  PROVE  Jobs' /\ Honest' /\ agent' \in {"none", "active", "over"} /\ cancel' \in BOOLEAN /\ Keeps(p)
<1>1. PICK d \in Denials(p) \ {"none"} : Tell([job[p] EXCEPT !.refused = TRUE], d)
  BY DEF Refuse
<1>2. p = Console /\ d \in Refusal
  <2>1. p # Shell
    BY <1>1 DEF Denials
  <2> QED
    BY <1>1, <2>1 DEF Denials, Refusal, Process
<1> DEFINE j == [job[p] EXCEPT !.refused = TRUE]
<1>3. job[p] \in Job /\ job[p].kind \in Tool /\ ~job[p].candidate
  BY AskingFacts DEF Refuse, Judging
<1>4. j.kind \in Tool /\ j.good \in Nat /\ j.refused = TRUE /\ j.candidate = FALSE
  BY <1>3 DEF Job
<1>5. Tell(j, d)
  BY <1>1
<1> HIDE DEF j
<1>6. d # "COMPLETED" /\ d \in Profile \cup Refusal \cup {"failed"}
  BY <1>2 DEF Refusal
<1>7. Jobs /\ Honest /\ lab' = lab /\ score' = score
  BY DEF Basics, Refuse
<1> QED
  BY <1>2, <1>4, <1>5, <1>6, <1>7, HonestTell

LEMMA WithholdStep ==
  ASSUME Basics, NEW p \in Process, Withhold(p)
  PROVE  Jobs' /\ Honest' /\ agent' \in {"none", "active", "over"} /\ cancel' \in BOOLEAN /\ Keeps(p)
BY BlockedStep DEF Withhold

\* The next step of a login is one of the login, or the request itself.
LEMMA LogInMoves ==
  ASSUME Basics, NEW p \in Process, NEW j \in DvwaNext(p) \cup WebgoatNext(p)
  PROVE  \E x \in Login \cup {"ask"}, s \in 0..MaxBorn :
           /\ j = [job[p] EXCEPT !.at = x, !.sess = s]
           /\ p = Console => x \notin Making
<1>1. job[p] \in Job /\ (p = Console => job[p].at \notin Making) /\ box.born \in 0..MaxBorn
  BY DEF Basics, Jobs, Fits, Plain, ManagerTypeOK, Box
<1> DEFINE To(x, s) == [job[p] EXCEPT !.at = x, !.sess = s]
           Kept     == job[p].sess
<1>2. Kept \in 0..MaxBorn /\ 0 \in 0..MaxBorn
  BY <1>1, ManagerAssumption DEF Job
<1>3. /\ [job[p] EXCEPT !.at = "login"] = To("login", Kept)
      /\ [job[p] EXCEPT !.at = "setup"] = To("setup", Kept)
      /\ [job[p] EXCEPT !.at = "create"] = To("create", Kept)
      /\ [job[p] EXCEPT !.at = "page again"] = To("page again", Kept)
      /\ [job[p] EXCEPT !.at = "login again"] = To("login again", Kept)
      /\ [job[p] EXCEPT !.at = "join"] = To("join", Kept)
      /\ [job[p] EXCEPT !.at = "ask"] = To("ask", Kept)
  BY <1>1 DEF Job
<1>4. /\ {"login", "setup", "create", "page again", "login again", "ask", "join", "start"}
            \subseteq Login \cup {"ask"}
      /\ {"login", "ask", "join", "start"} \cap Making = {}
  BY DEF Login, Making
<1>5. CASE j \in DvwaNext(p)
  <2>1. \/ j = To("login", Kept)
        \/ MaySetup(p) /\ j = To("setup", Kept)
        \/ \E s \in {0, box.born} : j = To("ask", s)
        \/ job[p].at = "setup" /\ j = To("create", Kept)
        \/ job[p].at = "create" /\ j = To("page again", Kept)
        \/ job[p].at = "page again" /\ j = To("login again", Kept)
    <3>1. \/ j = [job[p] EXCEPT !.at = "login"]
          \/ MaySetup(p) /\ j = [job[p] EXCEPT !.at = "setup"]
          \/ \E s \in {0, box.born} : j = To("ask", s)
          \/ job[p].at = "setup" /\ j = [job[p] EXCEPT !.at = "create"]
          \/ job[p].at = "create" /\ j = [job[p] EXCEPT !.at = "page again"]
          \/ job[p].at = "page again" /\ j = [job[p] EXCEPT !.at = "login again"]
      BY <1>5 DEF DvwaNext
    <3> HIDE DEF To, Kept
    <3> QED
      BY ONLY <1>3, <3>1
  <2> HIDE DEF To, Kept
  <2>2. MaySetup(p) => p # Console
    BY Processes DEF MaySetup
  <2>3. job[p].at \in {"setup", "create", "page again"} => p # Console
    BY <1>1 DEF Making
  <2>4. \E x \in Login \cup {"ask"}, s \in 0..MaxBorn : j = To(x, s) /\ (p = Console => x \notin Making)
    BY ONLY <1>1, <1>2, <1>4, <2>1, <2>2, <2>3
  <2> QED
    BY ONLY <2>4 DEF To
<1>6. CASE j \in WebgoatNext(p)
  <2>1. \/ j = [job[p] EXCEPT !.at = "join"]
        \/ j = To("start", box.born)
        \/ j = [job[p] EXCEPT !.at = "ask"]
    BY <1>6 DEF WebgoatNext
  <2> HIDE DEF To, Kept
  <2>2. \E x \in Login \cup {"ask"}, s \in 0..MaxBorn : j = To(x, s) /\ (p = Console => x \notin Making)
    BY ONLY <1>1, <1>2, <1>3, <1>4, <2>1
  <2> QED
    BY ONLY <2>2 DEF To
<1> QED
  BY <1>5, <1>6

\* A job that goes on with the request it has to make still fits.
LEMMA LogInFits ==
  ASSUME Basics, NEW p \in Process, Asking(p),
         NEW x \in Login \cup {"ask"}, NEW s \in 0..MaxBorn, p = Console => x \notin Making,
         NEW j, j = [job[p] EXCEPT !.at = x, !.sess = s]
  PROVE  Fits(p, j) /\ Sound(p, j) /\ j.at \notin {"insert", "mark"}
<1>1. /\ Judging(p, job[p]) /\ Fits(p, job[p]) /\ Sound(p, job[p])
      /\ job[p].at \notin {"lab", "printed"}
  BY AskingFacts
<1>2. job[p] \in Job /\ job[p].kind \in Tool /\ job[p].left >= 1 /\ ~job[p].refused /\ ~job[p].candidate
  BY <1>1 DEF Judging
<1>3. /\ j.kind = job[p].kind /\ j.at = x /\ j.left = job[p].left /\ j.refused = job[p].refused
      /\ j.candidate = job[p].candidate /\ j.got = job[p].got /\ j.good = job[p].good
  BY <1>2 DEF Job
<1>4. j \in Job
  BY <1>2 DEF Job
<1>5. x \notin Look \cup Filing \cup {"idle", "lab", "over", "printed"}
  BY DEF Login, Look, Filing
<1>6. job[p].kind \notin {"none", "operate", "detect"}
  BY <1>2 DEF Tool, Session, Fetch
<1>7. p = Shell => job[p].kind \in Shells
  BY <1>1 DEF Fits
<1>8. Fits(p, j)
  BY ONLY <1>2, <1>3, <1>4, <1>5, <1>6, <1>7, p = Console => x \notin Making DEF Fits
<1>9. Sound(p, j)
  BY <1>1, <1>3, <1>5 DEF Sound
<1> QED
  BY <1>3, <1>5, <1>8, <1>9 DEF Filing

LEMMA LogInStep ==
  ASSUME Basics, NEW p \in Process, LogIn(p)
  PROVE  Jobs' /\ Honest' /\ agent' \in {"none", "active", "over"} /\ cancel' \in BOOLEAN /\ Keeps(p)
<1>1. Asking(p) /\ lab' = lab /\ score' = score /\ filed' = filed /\ Jobs /\ Honest
  BY DEF LogIn, Send, Basics
<1>2. CASE Blocked(p)
  BY <1>1, <1>2, BlockedStep
<1>3. CASE /\ \E j \in DvwaNext(p) \cup WebgoatNext(p) : Set(p, j)
           /\ UNCHANGED <<told, agent, cancel>>
  <2>1. PICK j \in DvwaNext(p) \cup WebgoatNext(p) : Set(p, j)
    BY <1>3
  <2>2. PICK x \in Login \cup {"ask"}, s \in 0..MaxBorn :
           /\ j = [job[p] EXCEPT !.at = x, !.sess = s]
           /\ p = Console => x \notin Making
    BY LogInMoves
  <2>3. Fits(p, j) /\ Sound(p, j) /\ j.at \notin {"insert", "mark"}
    BY <1>1, <2>2, LogInFits
  <2>4. told' = told /\ (p = Console => told' = NoWord)
    BY <1>1, <1>3, AskingFacts
  <2>5. Jobs' /\ job'[p] = j /\ \A q \in Process : q # p => job'[q] = job[q]
    BY <1>1, <2>1, <2>3, JobsMove
  <2>6. Honest'
    BY <1>1, <2>1, <2>3, <2>4, HonestMove
  <2>7. Keeps(p)
    <3>1. job[p] \in Job /\ job[p].kind \in Tool
      BY <1>1, AskingFacts DEF Judging
    <3>2. j.kind = job[p].kind
      BY <2>2, <3>1 DEF Job
    <3> QED
      BY <2>5, <3>1, <3>2, Processes DEF Keeps
  <2> QED
    BY <1>3, <2>5, <2>6, <2>7 DEF Basics, Plain, ManagerTypeOK
<1> QED
  BY <1>2, <1>3 DEF LogIn

LEMMA AskCaseStep ==
  ASSUME Basics, NEW p \in Process, AskCase(p)
  PROVE  Jobs' /\ Honest' /\ agent' \in {"none", "active", "over"} /\ cancel' \in BOOLEAN /\ Keeps(p)
<1>1. /\ Asking(p) /\ job[p].at = "ask" /\ job[p].kind \in Session
      /\ lab' = lab /\ score' = score /\ filed' = filed
  BY DEF AskCase, Send
<1>2. CASE Blocked(p)
  BY <1>1, <1>2, BlockedStep
<1>3. CASE /\ \E a \in Answers(p) :
                Set(p, Judged(p, job[p], IF job[p].kind = "regression"
                                         THEN Evaluate(CaseAt(p, job[p].left), Read(a))
                                         ELSE IF a.status = 200 THEN "PASS" ELSE "FAIL", Known(p)))
           /\ UNCHANGED <<told, agent, cancel>>
  <2>1. PICK a \in Answers(p) :
                Set(p, Judged(p, job[p], IF job[p].kind = "regression"
                                         THEN Evaluate(CaseAt(p, job[p].left), Read(a))
                                         ELSE IF a.status = 200 THEN "PASS" ELSE "FAIL", Known(p)))
    BY <1>3
  <2> DEFINE v == IF job[p].kind = "regression" THEN Evaluate(CaseAt(p, job[p].left), Read(a))
                  ELSE IF a.status = 200 THEN "PASS" ELSE "FAIL"
  <2>2. lab \in Inventory /\ job[p] \in Job /\ Sound(p, job[p]) /\ job[p].left >= 1
    BY <1>1, AskingFacts DEF Judging, Basics, Plain, ManagerTypeOK
  <2>3. v \in Verdict /\ (v = "PASS" => Known(p))
    BY <1>1, <2>2, PassIsKnown
  <2>4. Known(p) \in BOOLEAN
    BY DEF Known
  <2>5. Set(p, Judged(p, job[p], v, Known(p)))
    BY <2>1
  <2> HIDE DEF v
  <2>6. Jobs' /\ Honest' /\ Keeps(p)
    BY <1>1, <1>3, <2>3, <2>4, <2>5, JudgedStep
  <2> QED
    BY <1>3, <2>6 DEF Basics, Plain, ManagerTypeOK
<1> QED
  BY <1>2, <1>3 DEF AskCase

\* The clients that follow redirects work for the dashboard alone.
LEMMA FetchFacts ==
  ASSUME Basics, NEW p \in Process, Asking(p), job[p].kind \in Fetch
  PROVE  /\ p = Console /\ told = NoWord
         /\ \A j : j.kind \in Fetch => Sound(p, j)
<1>1. p # Shell
  <2>1. p = Shell => job[p].kind = "regression"
    BY AskingFacts DEF Judging
  <2> QED
    BY ONLY <2>1, job[p].kind \in Fetch DEF Fetch
<1>2. Fetch \cap Session = {}
  BY DEF Fetch, Session
<1> QED
  BY <1>1, <1>2, AskingFacts DEF Process, Sound

LEMMA AskFetchStep ==
  ASSUME Basics, NEW p \in Process, AskFetch(p)
  PROVE  Jobs' /\ Honest' /\ agent' \in {"none", "active", "over"} /\ cancel' \in BOOLEAN /\ Keeps(p)
<1> DEFINE j == job[p]
<1>1. /\ Asking(p) /\ j.at = "ask" /\ j.kind \in Fetch /\ Jobs /\ Honest
      /\ lab' = lab /\ score' = score /\ filed' = filed
      /\ agent \in {"none", "active", "over"} /\ cancel \in BOOLEAN
  BY DEF AskFetch, Send, Basics, Plain, ManagerTypeOK
<1>2. /\ j \in Job /\ j.kind \in Tool /\ j.left >= 1 /\ ~j.refused /\ ~j.candidate
      /\ Judging(p, j) /\ Fits(p, j)
  BY <1>1, AskingFacts DEF Judging
<1>3. p = Console /\ told = NoWord /\ p # Shell
  BY <1>1, FetchFacts, Processes
<1>4. ASSUME NEW status \in {"failed", "scope_blocked"}, Tell(j, status)
      PROVE  Jobs' /\ Honest' /\ agent' \in {"none", "active", "over"} /\ cancel' \in BOOLEAN /\ Keeps(p)
  <2>1. status # "COMPLETED" /\ status \in Profile \cup Refusal \cup {"failed"}
    BY DEF Refusal
  <2>2. j.good \in Nat /\ j.refused \in BOOLEAN /\ j.candidate \in BOOLEAN
    BY <1>2 DEF Job
  <2> HIDE DEF j
  <2> QED
    BY <1>1, <1>2, <1>3, <1>4, <2>1, <2>2, HonestTell
<1>5. ASSUME NEW n, Set(p, n), Fits(p, n), n.kind = j.kind, n.at \in Login \cup {"ask", "over"},
             UNCHANGED <<told, agent, cancel>>
      PROVE  Jobs' /\ Honest' /\ agent' \in {"none", "active", "over"} /\ cancel' \in BOOLEAN /\ Keeps(p)
  <2>1. Sound(p, n)
    BY <1>1, <1>5, FetchFacts
  <2>2. n.at \notin {"insert", "mark"}
    BY ONLY <1>5 DEF Login
  <2>3. Jobs' /\ job'[p] = n
    BY <1>1, <1>5, <2>1, JobsMove
  <2>4. Honest'
    BY <1>1, <1>3, <1>5, <2>2, HonestMove
  <2>5. Keeps(p)
    BY <1>2, <1>3, <1>5, <2>3 DEF Keeps
  <2> QED
    BY <1>1, <1>5, <2>3, <2>4, <2>5
<1>6. CASE \E u \in Location : IF j.hop + 1 = MaxHops THEN Tell(j, "scope_blocked")
                               ELSE /\ Set(p, [j EXCEPT !.hop = @ + 1, !.out = ~SameOrigin(u)])
                                    /\ UNCHANGED <<told, agent, cancel>>
  <2>1. CASE Tell(j, "scope_blocked")
    BY <1>4, <2>1
  <2>2. CASE \E u \in Location : /\ Set(p, [j EXCEPT !.hop = @ + 1, !.out = ~SameOrigin(u)])
                                 /\ UNCHANGED <<told, agent, cancel>>
    <3>1. PICK u \in Location : /\ Set(p, [j EXCEPT !.hop = @ + 1, !.out = ~SameOrigin(u)])
                                /\ UNCHANGED <<told, agent, cancel>>
      BY <2>2
    <3> DEFINE n == [j EXCEPT !.hop = @ + 1, !.out = ~SameOrigin(u)]
    <3>2. /\ n.kind = j.kind /\ n.at = j.at /\ n.left = j.left /\ n.refused = j.refused
          /\ n.candidate = j.candidate
      BY <1>2 DEF Job
    <3>3. n \in Job
      <4>1. j.hop + 1 \in Nat /\ (~SameOrigin(u)) \in BOOLEAN
        BY <1>2 DEF Job
      <4> QED
        BY ONLY <1>2, <4>1 DEF Job
    <3>4. Set(p, n)
      BY <3>1
    <3> HIDE DEF n
    <3>5. Fits(p, n)
      BY ONLY <1>2, <3>2, <3>3 DEF Fits
    <3>6. n.at \in Login \cup {"ask", "over"}
      BY <1>1, <3>2
    <3> QED
      BY <1>5, <3>1, <3>2, <3>4, <3>5, <3>6
  <2> QED
    BY <1>6, <2>1, <2>2
<1>7. ASSUME NEW v \in {"PASS", "FAIL"}, NEW m \in Nat,
             Set(p, Placed(p, [Judged(p, j, v, TRUE) EXCEPT !.left = m])),
             UNCHANGED <<told, agent, cancel>>
      PROVE  Jobs' /\ Honest' /\ agent' \in {"none", "active", "over"} /\ cancel' \in BOOLEAN /\ Keeps(p)
  <2> DEFINE d == Judged(p, j, v, TRUE)
             x == [d EXCEPT !.left = m]
  <2>1. Fits(p, d) /\ Advanced(j, v, TRUE, d)
    BY <1>2, JudgedFits DEF Verdict
  <2>2. d \in Job /\ d.kind = j.kind /\ ~d.candidate /\ ~d.refused
    BY <2>1 DEF Advanced, Fits
  <2> HIDE DEF d
  <2>3. x \in Job /\ x.kind = j.kind /\ ~x.candidate /\ ~x.refused
    BY <2>2 DEF Job
  <2>4. Set(p, Placed(p, x))
    BY <1>7 DEF d
  <2> HIDE DEF x
  <2>5. /\ Fits(p, Placed(p, x)) /\ Placed(p, x) = [x EXCEPT !.at = Placed(p, x).at]
        /\ Placed(p, x).at \in {"over", "page", "register", "ask"}
    BY <1>2, <1>3, <2>3, PlacedFits
  <2>6. Placed(p, x).kind = j.kind
    BY ONLY <2>3, <2>5 DEF Job
  <2>7. Placed(p, x).at \in Login \cup {"ask", "over"}
    BY <2>5 DEF Login
  <2> QED
    BY <1>5, <1>7, <2>4, <2>5, <2>6, <2>7
<1>8. CASE \E v \in {"PASS", "FAIL"} :
             LET d == Judged(p, j, v, TRUE) IN
             IF j.kind # "discover" /\ "FAIL" \in d.got /\ d.left % Group(j.kind) = 0
             THEN Tell(j, "failed")
             ELSE /\ \E n \in Found(j) : Set(p, Placed(p, [d EXCEPT !.left = n]))
                  /\ UNCHANGED <<told, agent, cancel>>
  <2>1. CASE Tell(j, "failed")
    BY <1>4, <2>1
  <2>2. CASE \E v \in {"PASS", "FAIL"}, n \in Found(j) :
               /\ Set(p, Placed(p, [Judged(p, j, v, TRUE) EXCEPT !.left = n]))
               /\ UNCHANGED <<told, agent, cancel>>
    <3>1. PICK v \in {"PASS", "FAIL"}, n \in Found(j) :
               /\ Set(p, Placed(p, [Judged(p, j, v, TRUE) EXCEPT !.left = n]))
               /\ UNCHANGED <<told, agent, cancel>>
      BY <2>2
    <3>2. j.left - 1 \in Nat
      BY <1>2 DEF Job
    <3>3. n \in Nat
      BY <3>2, VisitAssumption DEF Found
    <3> QED
      BY <1>7, <3>1, <3>3
  <2> QED
    BY <1>8, <2>1, <2>2
<1>9. CASE Set(p, Judged(p, j, "FAIL", TRUE)) /\ UNCHANGED <<told, agent, cancel>>
  <2>1. "FAIL" \in Verdict /\ "FAIL" # "PASS" /\ TRUE \in BOOLEAN
    BY DEF Verdict
  <2>2. Jobs' /\ Honest' /\ Keeps(p)
    BY <1>1, <1>9, <2>1, JudgedStep
  <2> QED
    BY <1>1, <1>9, <2>2
<1>10. CASE Tell(j, "failed")
  BY <1>4, <1>10
<1> QED
  BY <1>6, <1>8, <1>9, <1>10 DEF AskFetch

LEMMA Outcomes ==
  ASSUME NEW got
  PROVE  /\ Outcome(got) \in Profile /\ Outcome(got) # "none"
         /\ Outcome(got) = "COMPLETED" <=> got = {"PASS"}
BY DEF Outcome, Profile

\* A tool with nothing left to ask: if it was a session its account is closed.
LEMMA OverFacts ==
  ASSUME Basics, NEW p \in Process, job[p].kind \in Tool, job[p].at \in Filing \cup {"over"}
  PROVE  /\ job[p] \in Job /\ ~job[p].refused /\ Fits(p, job[p]) /\ Sound(p, job[p])
         /\ job[p].good \in Nat /\ job[p].candidate \in BOOLEAN
         /\ p = Console => told = NoWord
         /\ job[p].kind \in Session /\ Outcome(job[p].got) = "COMPLETED"
              => job[p].good = Items(p, job[p].kind)
<1>1. /\ Fits(p, job[p]) /\ Sound(p, job[p])
      /\ p = Console => told = NoWord
  BY DEF Basics, Jobs, Honest
<1>2. job[p] \in Job /\ ~job[p].refused
  BY <1>1 DEF Fits
<1>3. job[p].good \in Nat /\ job[p].candidate \in BOOLEAN
  BY <1>2 DEF Job
<1>4. ASSUME job[p].kind \in Session, Outcome(job[p].got) = "COMPLETED"
      PROVE  job[p].good = Items(p, job[p].kind)
  <2>1. job[p].left = 0
    BY <1>1, <1>4 DEF Fits
  <2>2. job[p].at \notin {"lab", "printed"}
    BY DEF Filing
  <2>3. job[p].got \subseteq {"PASS"}
    BY <1>4, Outcomes
  <2>4. job[p].good + job[p].left = Items(p, job[p].kind)
    BY <1>1, <1>4, <2>2, <2>3 DEF Sound
  <2> QED
    BY <1>3, <2>1, <2>4
<1> QED
  BY <1>1, <1>2, <1>3, <1>4

LEMMA ConcludeStep ==
  ASSUME Basics, Conclude
  PROVE  Jobs' /\ Honest' /\ agent' \in {"none", "active", "over"} /\ cancel' \in BOOLEAN /\ Keeps(Console)
<1> DEFINE j == job[Console]
<1>1. /\ j.kind \in Tool /\ j.at = "over" /\ Jobs /\ Honest
      /\ lab' = lab /\ score' = score /\ filed' = filed
      /\ agent \in {"none", "active", "over"} /\ cancel \in BOOLEAN
  BY DEF Conclude, Basics, Plain, ManagerTypeOK
<1>2. /\ j \in Job /\ ~j.refused /\ Fits(Console, j) /\ Sound(Console, j)
      /\ j.good \in Nat /\ j.candidate \in BOOLEAN /\ told = NoWord
      /\ j.kind \in Session /\ Outcome(j.got) = "COMPLETED" => j.good = Items(Console, j.kind)
  BY <1>1, OverFacts, Processes
<1>3. ~j.candidate
  <2>1. j.at \notin Filing
    BY <1>1 DEF Filing
  <2> QED
    BY <1>2, <2>1 DEF Fits
<1>4. ASSUME NEW status \in Profile \cup {"cancelled"}, Tell(j, status),
             j.kind \in Session /\ status = "COMPLETED" => j.good = Items(Console, j.kind)
      PROVE  Jobs' /\ Honest' /\ agent' \in {"none", "active", "over"} /\ cancel' \in BOOLEAN /\ Keeps(Console)
  <2>1. status \in Profile \cup Refusal \cup {"failed"} /\ j.refused \in BOOLEAN
    BY <1>2 DEF Refusal, Job
  <2> HIDE DEF j
  <2> QED
    BY <1>1, <1>2, <1>3, <1>4, <2>1, HonestTell
<1>5. CASE Tell(j, "cancelled")
  <2>1. "cancelled" # "COMPLETED"
    OBVIOUS
  <2> QED
    BY <1>4, <1>5, <2>1
<1>6. CASE Tell(j, Outcome(IF j.kind = "discover" THEN {"PASS"} ELSE j.got))
  <2> DEFINE status == Outcome(IF j.kind = "discover" THEN {"PASS"} ELSE j.got)
  <2>1. status \in Profile
    BY Outcomes
  <2>2. j.kind \in Session => status = Outcome(j.got)
    BY DEF Session
  <2>3. Tell(j, status)
    BY <1>6
  <2> HIDE DEF status
  <2> QED
    BY <1>2, <1>4, <2>1, <2>2, <2>3
<1>7. CASE /\ Set(Console, [j EXCEPT !.at = "file", !.candidate = TRUE])
           /\ UNCHANGED <<told, agent, cancel>>
  <2> DEFINE n == [j EXCEPT !.at = "file", !.candidate = TRUE]
  <2>1. /\ n \in Job /\ n.at = "file" /\ n.kind = j.kind /\ n.left = j.left /\ n.good = j.good
        /\ n.got = j.got /\ n.refused = j.refused /\ n.candidate = TRUE
    BY <1>2 DEF Job, Filing
  <2>2. Set(Console, n)
    BY <1>7
  <2> HIDE DEF n
  <2>3. Sound(Console, n)
    BY <1>1, <1>2, <2>1 DEF Sound
  <2>4. Fits(Console, n)
    <3>1. j.kind \in Session => j.left = 0
      BY <1>1, <1>2 DEF Fits
    <3>2. j.kind \notin {"none", "operate", "detect"}
      BY <1>1 DEF Tool, Session, Fetch
    <3>3. n.at \in Filing /\ n.at \notin Login \cup Look \cup Making \cup {"ask", "idle", "lab", "printed"}
      BY <2>1 DEF Filing, Login, Look, Making
    <3> QED
      BY <1>2, <2>1, <3>1, <3>2, <3>3, Processes DEF Fits
  <2>5. Jobs' /\ job'[Console] = n
    BY <1>1, <2>2, <2>3, <2>4, JobsMove, Processes
  <2>6. Honest'
    BY <1>1, <1>2, <1>7, <2>1, <2>2, <2>4, HonestMove, Processes
  <2>7. Keeps(Console)
    BY <1>1, <2>1, <2>5 DEF Keeps
  <2> QED
    BY <1>1, <1>7, <2>5, <2>6, <2>7
<1> QED
  BY <1>5, <1>6, <1>7 DEF Conclude

\* The writes of a candidate come in this order, and the word after all of them.
LEMMA FileStep ==
  ASSUME Basics, File
  PROVE  /\ Jobs' /\ Honest' /\ agent' \in {"none", "active", "over"} /\ cancel' \in BOOLEAN
         /\ Keeps(Console)
         /\ filed' \in [run : {"none", "created", "review"}, noted : BOOLEAN, found : BOOLEAN]
<1> DEFINE j == job[Console]
<1>1. /\ j.at \in Filing /\ Jobs /\ Honest /\ lab' = lab /\ score' = score
      /\ agent \in {"none", "active", "over"} /\ cancel \in BOOLEAN
      /\ filed \in [run : {"none", "created", "review"}, noted : BOOLEAN, found : BOOLEAN]
  BY DEF File, Filing, Basics, Plain, ManagerTypeOK
<1>2. Fits(Console, j) /\ j \in Job
  BY <1>1, Processes DEF Jobs, Fits
<1>3. j.at \notin {"idle", "lab"} \cup Look \cup Login \cup {"ask", "printed"} \cup Making
  BY <1>1 DEF Filing, Look, Login, Making
<1>4. j.kind \in Tool
  <2>1. j.kind \in Kind /\ j.kind \notin {"none", "operate", "detect"}
    BY <1>2, <1>3 DEF Fits, Job
  <2> QED
    BY ONLY <2>1 DEF Kind
<1>5. /\ ~j.refused /\ Sound(Console, j) /\ j.good \in Nat /\ j.candidate \in BOOLEAN /\ told = NoWord
      /\ j.kind \in Session /\ Outcome(j.got) = "COMPLETED" => j.good = Items(Console, j.kind)
  BY <1>1, <1>4, OverFacts, Processes
<1>6. ASSUME NEW at \in {"note", "insert", "mark"}, Set(Console, [j EXCEPT !.at = at]),
             UNCHANGED <<told, agent, cancel>>,
             at \in {"insert", "mark"} => filed'.noted, at = "mark" => filed'.found
      PROVE  Jobs' /\ Honest' /\ agent' \in {"none", "active", "over"} /\ cancel' \in BOOLEAN /\ Keeps(Console)
  <2> DEFINE n == [j EXCEPT !.at = at]
  <2>0. at \in Filing /\ at \notin {"idle", "lab"} \cup Look \cup Login \cup {"ask", "printed"} \cup Making
    BY DEF Filing, Look, Login, Making
  <2>1. /\ n \in Job /\ n.at = at /\ n.kind = j.kind /\ n.left = j.left /\ n.good = j.good
        /\ n.got = j.got /\ n.refused = j.refused /\ n.candidate = j.candidate
    BY <1>2, <2>0 DEF Job
  <2>2. Set(Console, n)
    BY <1>6
  <2> HIDE DEF n
  <2>3. Sound(Console, n)
    BY <1>3, <1>5, <2>1 DEF Sound
  <2>4. Fits(Console, n)
    <3>1. j.kind \in Session => j.left = 0
      BY <1>1, <1>2 DEF Fits
    <3>2. j.kind \notin {"none", "operate", "detect"}
      BY <1>4 DEF Tool, Session, Fetch
    <3> QED
      BY <1>5, <2>0, <2>1, <3>1, <3>2, Processes DEF Fits
  <2>5. Jobs' /\ job'[Console] = n
    BY <1>1, <2>2, <2>3, <2>4, JobsMove, Processes
  <2>6. Honest'
    BY <1>1, <1>5, <1>6, <2>1, <2>2, <2>4, HonestMove, Processes
  <2>7. Keeps(Console)
    BY <1>4, <2>1, <2>5 DEF Keeps
  <2> QED
    BY <1>1, <1>6, <2>5, <2>6, <2>7
<1>7. CASE /\ j.at = "file"
           /\ IF filed.noted THEN UNCHANGED filed ELSE filed' = [filed EXCEPT !.run = "created"]
           /\ Set(Console, [j EXCEPT !.at = IF filed.noted THEN "insert" ELSE "note"])
           /\ UNCHANGED <<told, agent, cancel>>
  <2>1. CASE filed.noted
    <3>1. filed' = filed /\ Set(Console, [j EXCEPT !.at = "insert"])
      BY <1>7, <2>1
    <3> QED
      BY <1>1, <1>6, <1>7, <2>1, <3>1
  <2>2. CASE ~filed.noted
    <3>1. filed' = [filed EXCEPT !.run = "created"] /\ Set(Console, [j EXCEPT !.at = "note"])
      BY <1>7, <2>2
    <3>2. filed' \in [run : {"none", "created", "review"}, noted : BOOLEAN, found : BOOLEAN]
      BY <1>1, <3>1
    <3> QED
      BY <1>6, <1>7, <3>1, <3>2
  <2> QED
    BY <2>1, <2>2
<1>8. CASE /\ j.at = "note" /\ filed' = [filed EXCEPT !.noted = TRUE]
           /\ Set(Console, [j EXCEPT !.at = "insert"]) /\ UNCHANGED <<told, agent, cancel>>
  <2>1. /\ filed' \in [run : {"none", "created", "review"}, noted : BOOLEAN, found : BOOLEAN]
        /\ filed'.noted
    BY <1>1, <1>8
  <2> QED
    BY <1>6, <1>8, <2>1
<1>9. CASE /\ j.at = "insert" /\ filed' = [filed EXCEPT !.found = TRUE]
           /\ Set(Console, [j EXCEPT !.at = "mark"]) /\ UNCHANGED <<told, agent, cancel>>
  <2>1. filed.noted
    BY <1>1, <1>9 DEF Honest
  <2>2. /\ filed' \in [run : {"none", "created", "review"}, noted : BOOLEAN, found : BOOLEAN]
        /\ filed'.noted /\ filed'.found
    BY <1>1, <1>9, <2>1
  <2> QED
    BY <1>6, <1>9, <2>2
<1>10. CASE j.at = "mark" /\ filed' = [filed EXCEPT !.run = "review"] /\ Tell(j, Outcome(j.got))
  <2>1. filed.noted /\ filed.found
    BY <1>1, <1>10 DEF Honest
  <2>2. /\ filed' \in [run : {"none", "created", "review"}, noted : BOOLEAN, found : BOOLEAN]
        /\ filed'.noted /\ filed'.found /\ filed'.run = "review"
    BY <1>1, <1>10, <2>1
  <2>3. Outcome(j.got) \in Profile \cup Refusal \cup {"failed"} /\ j.refused \in BOOLEAN
    BY <1>2, Outcomes DEF Job
  <2>4. Tell(j, Outcome(j.got))
    BY <1>10
  <2> HIDE DEF j
  <2> QED
    BY <1>1, <1>4, <1>5, <2>2, <2>3, <2>4, HonestTell
<1> QED
  BY <1>7, <1>8, <1>9, <1>10 DEF File

-----------------------------------------------------------------------------
(***************************************************************************)
(* Operations, the operator's regression, detections.                      *)
(***************************************************************************)
LEMMA NewFits ==
  ASSUME NEW p, NEW k, NEW a,
         \/ k = "operate" /\ a = "lab"
         \/ p = Shell /\ k = "regression" /\ a \in {"lab", "printed"}
         \/ p = Console /\ k = "detect" /\ a = "precheck"
  PROVE  LET n == [NoJob EXCEPT !.kind = k, !.at = a] IN
         Fits(p, n) /\ Sound(p, n) /\ n.kind = k /\ n.at = a
<1> DEFINE n == [NoJob EXCEPT !.kind = k, !.at = a]
<1>1. 0 \in 0..MaxBorn /\ Console # Shell
  BY ManagerAssumption
<1>2. k \in Kind /\ a \in {"lab", "printed", "precheck"}
  BY DEF Kind, Tool, Session
<1>3. n \in Job
  BY <1>1, <1>2 DEF Job, NoJob, Look
<1>4. n.kind = k /\ n.at = a /\ n.refused = FALSE /\ n.candidate = FALSE
  BY DEF NoJob
<1> HIDE DEF n
<1>5. a \notin Filing \cup Login \cup Making \cup {"ask", "over", "idle"}
  BY <1>2 DEF Filing, Login, Making
<1>6. a \in Look <=> k = "detect"
  BY <1>1 DEF Look
<1>7. /\ k = "operate" => a = "lab"
      /\ p = Shell => k \in Shells
      /\ p = Console => a # "printed" /\ (a = "lab" => k = "operate")
      /\ k # "none"
  BY <1>1 DEF Shells
<1>8. Fits(p, n)
  BY ONLY <1>3, <1>4, <1>5, <1>6, <1>7 DEF Fits
<1>9. Sound(p, n)
  BY <1>4 DEF Sound, Session
<1> QED
  BY <1>4, <1>8, <1>9 DEF n

LEMMA LookFits ==
  ASSUME NEW j \in Job, Fits(Console, j), j.kind = "detect", NEW s \in Look
  PROVE  LET n == [j EXCEPT !.at = s] IN
         Fits(Console, n) /\ Sound(Console, n) /\ n.kind = "detect" /\ n.at = s
<1> DEFINE n == [j EXCEPT !.at = s]
<1>1. n \in Job
  BY DEF Job
<1>2. /\ n.kind = "detect" /\ n.at = s /\ n.refused = j.refused /\ n.candidate = j.candidate
  BY DEF Job
<1> HIDE DEF n
<1>3. s \notin Filing \cup Login \cup Making \cup {"ask", "over", "idle", "lab", "printed"}
  BY DEF Filing, Login, Making, Look
<1>4. ~j.refused /\ ~j.candidate
  <2>1. j.at \in Look
    BY DEF Fits
  <2>2. j.at \notin Filing
    BY ONLY <2>1 DEF Look, Filing
  <2> QED
    BY <2>2 DEF Fits
<1>5. Fits(Console, n)
  BY <1>1, <1>2, <1>3, <1>4, Processes DEF Fits
<1>6. Sound(Console, n)
  BY <1>2 DEF Sound, Session
<1> QED
  BY <1>2, <1>5, <1>6 DEF n

\* The dashboard takes up something else, which is no tool.
LEMMA ConsoleMoves ==
  ASSUME Basics, lab' = lab, score' = score, NEW j, Set(Console, j), Fits(Console, j),
         Sound(Console, j), j.kind \notin Tool,
         told' = NoWord \/ (told' = told /\ filed' = filed)
  PROVE  Jobs' /\ Honest'
<1>1. Jobs /\ Honest /\ Console \in Process
  BY Processes DEF Basics
<1>2. j.at \notin Filing
  <2>1. j \in Job /\ (j.at \in Look <=> j.kind = "detect") /\ (j.at = "idle" <=> j.kind = "none")
        /\ (j.kind = "operate" => j.at = "lab")
    BY DEF Fits
  <2>2. j.kind \in {"none", "operate", "detect"}
    BY <2>1 DEF Job, Kind
  <2> QED
    BY ONLY <2>1, <2>2 DEF Look, Filing
<1>3. j.at \notin {"insert", "mark"}
  BY ONLY <1>2 DEF Filing
<1>4. Jobs'
  BY <1>1, JobsMove
<1>5. Honest'
  BY <1>1, <1>3, HonestMove
<1> QED
  BY <1>4, <1>5

\* The shell takes up something else, or prints what it has come to.
LEMMA ShellMoves ==
  ASSUME Basics, lab' = lab, NEW j, Set(Shell, j), Fits(Shell, j), Sound(Shell, j),
         told' = told, filed' = filed,
         score' = score \/ (score'.status = "COMPLETED" => score'.good = Items(Shell, "regression"))
  PROVE  Jobs' /\ Honest'
<1>1. Jobs /\ Honest /\ Shell \in Process /\ Shell # Console
  BY Processes DEF Basics
<1>2. Jobs'
  BY <1>1, JobsMove
<1>3. Honest'
  BY <1>1, HonestMove
<1> QED
  BY <1>2, <1>3

LEMMA NoJobSound == ASSUME NEW p PROVE Fits(p, NoJob) /\ Sound(p, NoJob) /\ NoJob.kind \notin Tool
BY NoJobFits DEF NoJob, Sound, Session, Tool, Fetch

LEMMA BeginToolStep ==
  ASSUME Basics, NEW k \in Tool, BeginTool(k)
  PROVE  Jobs' /\ Honest' /\ agent' \in {"none", "active", "over"} /\ cancel' \in BOOLEAN /\ Keeps(Console)
<1>1. /\ Jobs /\ Honest /\ lab \in Inventory /\ lab' = lab /\ score' = score /\ filed' = filed
      /\ agent \in {"none", "active", "over"} /\ cancel \in BOOLEAN
  BY DEF BeginTool, Basics, Plain, ManagerTypeOK
<1>2. CASE Set(Console, Start(Console, k)) /\ told' = NoWord /\ UNCHANGED <<agent, cancel>>
  <2>1. Console # Shell /\ Console \in Process
    BY Processes
  <2>2. Fits(Console, Start(Console, k)) /\ Sound(Console, Start(Console, k))
    BY <1>1, <2>1, StartFits, StartSound
  <2>3. Start(Console, k).at \notin {"insert", "mark"}
    <3>1. Start(Console, k) = Placed(Console, [NoJob EXCEPT !.kind = k, !.left = Items(Console, k)])
      BY DEF Start
    <3>2. Start(Console, k).at \in {"over", "page", "register", "ask"}
      BY <3>1 DEF Placed, Opening, NoJob
    <3> QED
      BY <3>2
  <2>4. Jobs' /\ job'[Console] = Start(Console, k)
    BY <1>1, <1>2, <2>1, <2>2, JobsMove
  <2>5. Honest'
    BY <1>1, <1>2, <2>1, <2>2, <2>3, HonestMove
  <2>6. Start(Console, k).kind = k
    BY <1>1, <2>1, StartFits
  <2>7. Keeps(Console)
    BY <2>4, <2>6 DEF Keeps
  <2> QED
    BY <1>1, <1>2, <2>4, <2>5, <2>7
<1>3. CASE Tell([NoJob EXCEPT !.kind = k], "failed")
  <2> DEFINE j == [NoJob EXCEPT !.kind = k]
  <2>1. /\ j.kind = k /\ j.good = 0 /\ ~j.refused /\ ~j.candidate
        /\ j.refused \in BOOLEAN /\ j.candidate \in BOOLEAN
    BY DEF NoJob
  <2>2. Tell(j, "failed")
    BY <1>3
  <2> HIDE DEF j
  <2>3. j.kind \in Tool /\ j.good \in Nat
    BY <2>1
  <2>4. "failed" \in Profile \cup Refusal \cup {"failed"} /\ "failed" # "COMPLETED"
    OBVIOUS
  <2> QED
    BY <1>1, <2>1, <2>2, <2>3, <2>4, HonestTell
<1> QED
  BY <1>2, <1>3 DEF BeginTool

LEMMA BeginOperationStep ==
  ASSUME Basics, NEW p \in Process, NEW a, BeginOperation(p, a)
  PROVE  Jobs' /\ Honest'
<1> DEFINE n == [NoJob EXCEPT !.kind = "operate", !.at = "lab"]
<1>1. lab' = lab /\ score' = score /\ Set(p, n)
  BY DEF BeginOperation
<1>2. Fits(p, n) /\ Sound(p, n) /\ n.kind = "operate"
  BY NewFits
<1> HIDE DEF n
<1>3. CASE p = Console
  <2>1. told' = NoWord
    BY <1>3 DEF BeginOperation, ForgetTask
  <2>2. n.kind \notin Tool
    BY <1>2 DEF Tool, Session, Fetch
  <2> QED
    BY <1>1, <1>2, <1>3, <2>1, <2>2, ConsoleMoves
<1>4. CASE p = Shell
  <2>1. told' = told /\ filed' = filed
    BY <1>4, Processes DEF BeginOperation, task
  <2> QED
    BY <1>1, <1>2, <1>4, <2>1, ShellMoves
<1> QED
  BY <1>3, <1>4 DEF Process

LEMMA BeginRegressionStep == ASSUME Basics, BeginRegression PROVE Jobs' /\ Honest'
<1> DEFINE n == [NoJob EXCEPT !.kind = "regression", !.at = "lab"]
<1>1. lab' = lab /\ score' = score /\ told' = told /\ filed' = filed /\ Set(Shell, n)
  BY DEF BeginRegression, task
<1>2. Fits(Shell, n) /\ Sound(Shell, n)
  BY NewFits
<1> HIDE DEF n
<1> QED
  BY <1>1, <1>2, ShellMoves

LEMMA ReturnedStep ==
  ASSUME Basics, NEW p \in Process, Returned(p)
  PROVE  Jobs' /\ Honest' /\ cancel' \in BOOLEAN
<1>1. /\ lab' = lab /\ told' = told /\ filed' = filed /\ job[p].at = "lab" /\ lab \in Inventory
      /\ cancel \in BOOLEAN
  BY DEF Returned, At, task, Basics, Plain, ManagerTypeOK
<1>2. Fits(p, job[p]) /\ job[p] \in Job
  BY DEF Basics, Jobs, Fits
<1>3. CASE /\ job[p].kind = "regression"
           /\ Set(p, Start(p, "regression")) /\ UNCHANGED <<cancel, score>>
  <2>1. p = Shell /\ "regression" \in Tool
    BY <1>1, <1>2, <1>3 DEF Process, Fits, Tool, Session
  <2>2. Fits(Shell, Start(Shell, "regression")) /\ Sound(Shell, Start(Shell, "regression"))
    BY <1>1, <2>1, StartFits, StartSound
  <2>3. Set(Shell, Start(Shell, "regression"))
    BY <1>3, <2>1
  <2> QED
    BY <1>1, <1>3, <2>2, <2>3, ShellMoves
<1>4. CASE /\ job[p].kind = "regression" /\ UNCHANGED cancel
           /\ Set(p, [job[p] EXCEPT !.at = "printed"])
           /\ score' = [status |-> "failed", good |-> 0]
  <2> DEFINE n == [job[p] EXCEPT !.at = "printed"]
  <2>1. p = Shell /\ p # Console
    BY <1>1, <1>2, <1>4, Processes DEF Process, Fits
  <2>2. /\ n \in Job /\ n.at = "printed" /\ n.kind = "regression"
        /\ n.refused = job[p].refused /\ n.candidate = job[p].candidate
    BY <1>2, <1>4 DEF Job
  <2>3. Set(Shell, n) /\ score'.status # "COMPLETED"
    BY <1>4, <2>1
  <2> HIDE DEF n
  <2>4. Fits(Shell, n)
    <3>1. ~job[p].refused /\ ~job[p].candidate
      <4>1. job[p].at \notin Filing
        BY ONLY <1>1 DEF Filing
      <4> QED
        BY <1>2, <4>1 DEF Fits
    <3>2. "printed" \notin Filing \cup Look \cup Login \cup {"ask", "over", "idle", "lab"}
      BY DEF Filing, Look, Login
    <3> QED
      BY <2>1, <2>2, <3>1, <3>2 DEF Fits, Shells
  <2>5. Sound(Shell, n)
    BY <2>2 DEF Sound
  <2> QED
    BY <1>1, <1>4, <2>3, <2>4, <2>5, ShellMoves
<1>5. CASE Set(p, NoJob) /\ cancel' = (p # Console /\ cancel) /\ UNCHANGED score
  <2>1. cancel' \in BOOLEAN
    BY <1>5
  <2>2. CASE p = Console
    BY <1>1, <1>5, <2>1, <2>2, ConsoleMoves, NoJobSound
  <2>3. CASE p = Shell
    BY <1>1, <1>5, <2>1, <2>3, ShellMoves, NoJobSound
  <2> QED
    BY <2>2, <2>3 DEF Process
<1> QED
  BY <1>3, <1>4, <1>5 DEF Returned

LEMMA EndRegressionStep ==
  ASSUME Basics, EndRegression
  PROVE  /\ Jobs' /\ Honest'
         /\ score' \in [status : Profile \cup {"none", "failed"}, good : Nat]
<1> DEFINE j == job[Shell]
           n == [NoJob EXCEPT !.kind = "regression", !.at = "printed"]
<1>1. /\ lab' = lab /\ told' = told /\ filed' = filed /\ j.at = "over" /\ Set(Shell, n)
      /\ score' = [status |-> Outcome(j.got), good |-> j.good]
  BY DEF EndRegression, task, manager
<1>2. Fits(Shell, n) /\ Sound(Shell, n)
  BY NewFits
<1> HIDE DEF n
<1>3. Fits(Shell, j) /\ Shell \in Process
  BY Processes DEF Basics, Jobs
<1>4. j.kind = "regression" /\ j.kind \in Session /\ j.kind \in Tool
  BY <1>1, <1>3 DEF Fits, Shells, Session, Tool
<1>5. Outcome(j.got) = "COMPLETED" => j.good = Items(Shell, "regression")
  BY <1>1, <1>3, <1>4, OverFacts
<1>6. j.good \in Nat /\ Outcome(j.got) \in Profile
  BY <1>1, <1>3, <1>4, OverFacts, Outcomes
<1> QED
  BY <1>1, <1>2, <1>5, <1>6, ShellMoves

LEMMA ShellExitsStep == ASSUME Basics, ShellExits PROVE Jobs' /\ Honest'
<1>1. /\ lab' = lab /\ told' = told /\ filed' = filed /\ Set(Shell, NoJob)
      /\ score'.status # "COMPLETED"
  BY DEF ShellExits, task, manager, NoScore
<1> QED
  BY <1>1, ShellMoves, NoJobSound

LEMMA BeginDetectionStep == ASSUME Basics, BeginDetection PROVE Jobs' /\ Honest'
<1> DEFINE n == [NoJob EXCEPT !.kind = "detect", !.at = "precheck"]
<1>1. lab' = lab /\ score' = score /\ told' = NoWord /\ Set(Console, n)
  BY DEF BeginDetection, ForgetTask, manager
<1>2. Fits(Console, n) /\ Sound(Console, n)
  BY NewFits
<1>3. n.kind \notin Tool
  BY DEF NoJob, Tool, Session, Fetch
<1> HIDE DEF n
<1> QED
  BY <1>1, <1>2, <1>3, ConsoleMoves

\* A detection goes on, and its run with it, or it is shown as what it came to.
LEMMA DetectMoves ==
  ASSUME DetectStep
  PROVE  /\ job[Console].kind = "detect"
         /\ \/ \E s \in Look : Onward(s)
            \/ \E s \in {"completed", "cancelled", "failed"} : Show(s)
<1>1. job[Console].kind = "detect"
  BY DEF DetectStep, Precheck, OpenRun, BeginRun, ProbeEntry, Discover, Check, WriteReport, Complete,
         Fail, Detecting
<1>2. \A s : UnlessCancelled(s) => Show("cancelled") \/ Onward(s)
  BY DEF UnlessCancelled
<1>3. {"open", "begin", "probe", "discover", "check", "store", "complete"} \subseteq Look
  BY DEF Look
<1>4. \/ \E s \in {"open", "begin", "probe", "discover", "check", "store", "complete"} : Onward(s)
      \/ \E s \in {"completed", "cancelled", "failed"} : Show(s)
  BY <1>2 DEF DetectStep, Precheck, OpenRun, BeginRun, ProbeEntry, Discover, Check, WriteReport,
              Complete, Fail
<1> QED
  BY <1>1, <1>3, <1>4

LEMMA DetectionStep ==
  ASSUME Basics, DetectStep
  PROVE  Jobs' /\ Honest' /\ cancel' \in BOOLEAN
           /\ shown' \in {"none", "completed", "cancelled", "failed"}
<1>1. /\ lab' = lab /\ score' = score /\ told' = told /\ filed' = filed /\ cancel \in BOOLEAN
      /\ shown \in {"none", "completed", "cancelled", "failed"}
  BY DEF DetectStep, task, Basics, Plain, ManagerTypeOK
<1>2. Fits(Console, job[Console]) /\ job[Console] \in Job /\ job[Console].kind = "detect"
  BY DetectMoves, Processes DEF Basics, Jobs, Fits
<1>3. ASSUME NEW s \in Look, Onward(s)
      PROVE  Jobs' /\ Honest' /\ cancel' \in BOOLEAN
               /\ shown' \in {"none", "completed", "cancelled", "failed"}
  <2> DEFINE n == [job[Console] EXCEPT !.at = s]
  <2>1. Fits(Console, n) /\ Sound(Console, n) /\ n.kind = "detect"
    BY <1>2, LookFits
  <2>2. Set(Console, n) /\ shown' = shown /\ cancel' = cancel
    BY <1>3 DEF Onward
  <2> HIDE DEF n
  <2>3. n.kind \notin Tool
    BY <2>1 DEF Tool, Session, Fetch
  <2> QED
    BY <1>1, <2>1, <2>2, <2>3, ConsoleMoves
<1>4. ASSUME NEW s \in {"completed", "cancelled", "failed"}, Show(s)
      PROVE  Jobs' /\ Honest' /\ cancel' \in BOOLEAN
               /\ shown' \in {"none", "completed", "cancelled", "failed"}
  <2>1. Set(Console, NoJob) /\ shown' = s /\ cancel' = FALSE
    BY <1>4 DEF Show
  <2> QED
    BY <1>1, <2>1, ConsoleMoves, NoJobSound
<1> QED
  BY <1>3, <1>4, DetectMoves

LEMMA ConsoleExitsStep == ASSUME Basics, ConsoleExits PROVE Jobs' /\ Honest'
<1>1. lab' = lab /\ score' = score /\ told' = told /\ filed' = filed /\ Set(Console, NoJob)
  BY DEF ConsoleExits
<1> QED
  BY <1>1, ConsoleMoves, NoJobSound

\* Whatever leaves the jobs alone.
LEMMA JobsStay ==
  ASSUME Basics, lab' = lab, job' = job,
         \/ told' = told /\ filed' = filed
         \/ told' = NoWord /\ job[Console].kind = "none",
         score' = score
  PROVE  Jobs' /\ Honest'
<1>1. Jobs'
  BY JobsSame DEF Basics
<1>2. CASE told' = told /\ filed' = filed
  BY <1>1, <1>2, HonestSame DEF Basics
<1>3. CASE told' = NoWord /\ job[Console].kind = "none"
  <2>1. job[Console].at = "idle"
    BY <1>3, Processes DEF Basics, Jobs, Fits
  <2>2. told'.status = "none" /\ told'.kind = "none" /\ ~told'.refused /\ ~told'.candidate /\ told' \in Told
    BY <1>3 DEF NoWord, Told
  <2>3. (score.status = "COMPLETED" => score.good = Items(Shell, "regression"))'
    BY ItemsStay DEF Basics, Honest, ResultIsBacked
  <2> QED
    BY <1>1, <1>3, <2>1, <2>2, <2>3 DEF Honest, ResultIsBacked, CandidateIsFiled
<1> QED
  BY <1>2, <1>3

-----------------------------------------------------------------------------
(***************************************************************************)
(* The operations of the manager: docker's container only gets older, and  *)
(* a reset goes through removal, a new container and its health.           *)
(***************************************************************************)

\* What a reset can say of the container, from where it stands.
Fresh(p) ==
  call[p].action = "reset" =>
    /\ call[p].at \in {"remove", "command"} => call[p].since <= box.born
    /\ call[p].at = "command" => call[p].since < box.born \/ box.state = "none"
    /\ call[p].at = "wait" \/ call[p].status = "READY" => call[p].since < box.born

Operations == call \in [Process -> Call] /\ box \in Box /\ \A p \in Process : Fresh(p)

\* One call moves, and the container goes on.
LEMMA OperationsMove ==
  ASSUME Operations, Ages(box, box'), NEW p \in Process, NEW c \in Call,
         call' = [call EXCEPT ![p] = c],
         c.action = "reset" =>
           /\ c.at \in {"remove", "command"} => c.since <= box'.born
           /\ c.at = "command" => c.since < box'.born \/ box'.state = "none"
           /\ c.at = "wait" \/ c.status = "READY" => c.since < box'.born
  PROVE  Operations'
<1>1. /\ call' \in [Process -> Call] /\ call'[p] = c
      /\ \A q \in Process : q # p => call'[q] = call[q]
  BY DEF Operations
<1>2. /\ box' \in Box /\ box.born <= box'.born /\ box.born \in Nat /\ box'.born \in Nat
      /\ box.state = "none" /\ box'.born = box.born => box'.state = "none"
  BY ManagerAssumption DEF Ages, Operations, Box
<1>3. Fresh(p)'
  BY <1>1 DEF Fresh
<1>4. ASSUME NEW q \in Process, q # p PROVE Fresh(q)'
  <2>1. call'[q] = call[q] /\ call[q] \in Call /\ Fresh(q)
    BY <1>1, <1>4 DEF Operations
  <2>2. call[q].since \in Nat
    BY <2>1, ManagerAssumption DEF Call
  <2>3. CASE box'.born = box.born
    BY <1>2, <2>1, <2>3 DEF Fresh
  <2>4. CASE box'.born # box.born
    <3>1. box.born < box'.born
      BY <1>2, <2>4
    <3>2. call[q].since <= box.born => call[q].since < box'.born /\ call[q].since <= box'.born
      BY <1>2, <2>2, <3>1
    <3>3. call[q].since < box.born => call[q].since < box'.born
      BY <1>2, <2>2, <3>1
    <3> QED
      BY <2>1, <3>2, <3>3 DEF Fresh
  <2> QED
    BY <2>3, <2>4
<1> QED
  BY <1>1, <1>2, <1>3, <1>4 DEF Operations

LEMMA AgesSame == ASSUME NEW b \in Box PROVE Ages(b, b)
BY ManagerAssumption DEF Ages, Box

\* Nobody's call moves.
LEMMA OperationsStay == ASSUME Operations, call' = call, Ages(box, box') PROVE Operations'
<1>1. Console \in Process /\ call[Console] \in Call
  BY Processes DEF Operations
<1>2. call' = [call EXCEPT ![Console] = call[Console]]
  BY DEF Operations
<1>3. Fresh(Console)
  BY <1>1 DEF Operations
<1>4. /\ box.born <= box'.born /\ box.born \in Nat /\ box'.born \in Nat /\ call[Console].since \in Nat
      /\ box.state = "none" /\ box'.born = box.born => box'.state = "none"
  BY <1>1, ManagerAssumption DEF Ages, Operations, Box, Call
<1>5. call[Console].action = "reset" =>
        /\ call[Console].at \in {"remove", "command"} => call[Console].since <= box'.born
        /\ call[Console].at = "command" => call[Console].since < box'.born \/ box'.state = "none"
        /\ call[Console].at = "wait" \/ call[Console].status = "READY" => call[Console].since < box'.born
  <2>1. CASE box'.born = box.born
    BY <1>3, <1>4, <2>1 DEF Fresh
  <2>2. CASE box'.born # box.born
    <3>1. /\ call[Console].since <= box.born => call[Console].since < box'.born
          /\ call[Console].since <= box.born => call[Console].since <= box'.born
          /\ call[Console].since < box.born => call[Console].since < box'.born
      BY <1>4, <2>2
    <3> QED
      BY <1>3, <3>1 DEF Fresh
  <2> QED
    BY <2>1, <2>2
<1> QED
  BY <1>1, <1>2, <1>5, OperationsMove

LEMMA ReturnIs ==
  ASSUME call \in [Process -> Call], NEW p \in Process, NEW s, Return(p, s),
         s \in {"READY", "COMPLETED", "FAILED", "CANCELLED", "BLOCKED_HEALTH_TIMEOUT", "raised"}
  PROVE  \E c \in Call : /\ call' = [call EXCEPT ![p] = c]
                         /\ c.at = "idle" /\ c.action = call[p].action
                         /\ c.since = call[p].since /\ c.status = s
<1> DEFINE c == [call[p] EXCEPT !.at = "idle", !.status = s]
<1>1. call[p] \in Call
  OBVIOUS
<1>2. call' = [call EXCEPT ![p] = c]
  BY DEF Return
<1>3. /\ c \in Call /\ c.at = "idle" /\ c.action = call[p].action
      /\ c.since = call[p].since /\ c.status = s
  BY <1>1 DEF Call
<1> QED
  BY <1>2, <1>3

LEMMA OnIs ==
  ASSUME call \in [Process -> Call], NEW p \in Process, NEW x \in {"command", "wait"},
         call' = [call EXCEPT ![p].at = x]
  PROVE  \E c \in Call : /\ call' = [call EXCEPT ![p] = c]
                         /\ c.at = x /\ c.action = call[p].action
                         /\ c.since = call[p].since /\ c.status = call[p].status
<1> DEFINE c == [call[p] EXCEPT !.at = x]
<1>1. call[p] \in Call
  OBVIOUS
<1>2. call' = [call EXCEPT ![p] = c]
  OBVIOUS
<1>3. /\ c \in Call /\ c.at = x /\ c.action = call[p].action
      /\ c.since = call[p].since /\ c.status = call[p].status
  BY <1>1 DEF Call
<1> QED
  BY <1>2, <1>3

\* A call that returns anything but READY leaves nothing to be said of it.
LEMMA ReturnsOther ==
  ASSUME Operations, NEW p \in Process, Ages(box, box'), NEW s, Return(p, s),
         s \in {"COMPLETED", "FAILED", "CANCELLED", "BLOCKED_HEALTH_TIMEOUT", "raised"}
  PROVE  Operations'
<1>1. PICK c \in Call : /\ call' = [call EXCEPT ![p] = c]
                        /\ c.at = "idle" /\ c.action = call[p].action
                        /\ c.since = call[p].since /\ c.status = s
  BY ReturnIs DEF Operations
<1> QED
  BY <1>1, OperationsMove

LEMMA RemoveStep == ASSUME Operations, NEW p \in Process, Remove(p) PROVE Operations'
<1>1. call \in [Process -> Call] /\ box \in Box /\ Fresh(p) /\ call[p] \in Call /\ call[p].at = "remove"
  BY DEF Operations, Remove
<1>2. CASE box' = After("rm", box) /\ call' = [call EXCEPT ![p].at = "command"]
  <2>1. box' = [box EXCEPT !.state = "none"]
    BY <1>2 DEF After
  <2>2. box' \in Box /\ box'.state = "none" /\ box'.born = box.born /\ box.born \in Nat
    BY <1>1, <2>1, ManagerAssumption DEF Box
  <2>3. Ages(box, box')
    BY <2>2 DEF Ages
  <2>4. PICK c \in Call : /\ call' = [call EXCEPT ![p] = c]
                          /\ c.at = "command" /\ c.action = call[p].action
                          /\ c.since = call[p].since /\ c.status = call[p].status
    BY <1>1, <1>2, OnIs
  <2>5. c.action = "reset" =>
           /\ c.at \in {"remove", "command"} => c.since <= box'.born
           /\ c.at = "command" => c.since < box'.born \/ box'.state = "none"
           /\ c.at = "wait" \/ c.status = "READY" => c.since < box'.born
    BY <1>1, <2>2, <2>4 DEF Fresh
  <2> QED
    BY <2>3, <2>4, <2>5, OperationsMove
<1>3. CASE box' \in Half("rm", box) /\ Return(p, "FAILED")
  <2>1. Ages(box, box')
    BY <1>1, <1>3, HalfAges
  <2> QED
    BY <1>3, <2>1, ReturnsOther
<1> QED
  BY <1>2, <1>3 DEF Remove

LEMMA RunCommandStep == ASSUME Operations, NEW p \in Process, RunCommand(p) PROVE Operations'
<1>1. call \in [Process -> Call] /\ box \in Box /\ Fresh(p) /\ call[p] \in Call /\ call[p].at = "command"
  BY DEF Operations, RunCommand
<1> DEFINE c == Command(call[p].action)
<1>2. CASE /\ box' = After(c, box) /\ box'.born <= MaxBorn
           /\ IF c = "up" THEN call' = [call EXCEPT ![p].at = "wait"] ELSE Return(p, "COMPLETED")
  <2>1. Ages(box, box')
    BY <1>1, <1>2, AfterAges
  <2>2. CASE c = "up" /\ call' = [call EXCEPT ![p].at = "wait"]
    <3>1. PICK d \in Call : /\ call' = [call EXCEPT ![p] = d]
                            /\ d.at = "wait" /\ d.action = call[p].action
                            /\ d.since = call[p].since /\ d.status = call[p].status
      BY <1>1, <2>2, OnIs
    <3>2. /\ box.born \in Nat /\ box'.born \in Nat /\ box.born <= box'.born /\ call[p].since \in Nat
      BY <1>1, <2>1, ManagerAssumption DEF Ages, Box, Call
    <3>3. box.state = "none" => box'.born = box.born + 1
      BY <1>1, <1>2, <2>2 DEF After, Made, Started, Box
    <3>4. call[p].action = "reset" => call[p].since < box'.born
      BY <1>1, <3>2, <3>3 DEF Fresh
    <3> HIDE DEF c
    <3> QED
      BY <2>1, <3>1, <3>4, OperationsMove
  <2>3. CASE Return(p, "COMPLETED")
    BY <2>1, <2>3, ReturnsOther
  <2> QED
    BY <1>2, <2>2, <2>3
<1>3. CASE /\ box' \in Half(c, box)
           /\ \/ Return(p, "FAILED")
              \/ Cancelled(p) /\ Return(p, "CANCELLED")
  <2>1. Ages(box, box')
    BY <1>1, <1>3, HalfAges
  <2> QED
    BY <1>3, <2>1, ReturnsOther
<1> QED
  BY <1>2, <1>3 DEF RunCommand

LEMMA WaitHealthStep == ASSUME Operations, NEW p \in Process, WaitHealth(p) PROVE Operations'
<1>1. /\ call \in [Process -> Call] /\ box \in Box /\ Fresh(p) /\ call[p] \in Call /\ call[p].at = "wait"
      /\ box' = box
  BY DEF Operations, WaitHealth
<1>2. Ages(box, box')
  BY <1>1, AgesSame
<1>3. CASE Return(p, "READY")
  <2>1. PICK c \in Call : /\ call' = [call EXCEPT ![p] = c]
                          /\ c.at = "idle" /\ c.action = call[p].action
                          /\ c.since = call[p].since /\ c.status = "READY"
    BY <1>1, <1>3, ReturnIs
  <2>2. c.action = "reset" => c.since < box'.born
    BY <1>1, <2>1 DEF Fresh
  <2> QED
    BY <1>2, <2>1, <2>2, OperationsMove
<1>4. CASE Return(p, "CANCELLED") \/ Return(p, "BLOCKED_HEALTH_TIMEOUT") \/ Return(p, "raised")
  BY <1>2, <1>4, ReturnsOther
<1> QED
  BY <1>3, <1>4 DEF WaitHealth

LEMMA CallStepKeeps == ASSUME Operations, NEW p \in Process, CallStep(p) PROVE Operations'
BY RemoveStep, RunCommandStep, WaitHealthStep DEF CallStep

LEMMA OperateStep ==
  ASSUME Operations, NEW p \in Process, NEW a \in {"up", "start", "stop", "reset", "down"},
         Operate(p, a), box' = box
  PROVE  Operations'
<1> DEFINE c == IF Cancelled(p) THEN [NoCall EXCEPT !.action = a, !.status = "CANCELLED"]
                ELSE [at |-> IF a = "reset" THEN "remove" ELSE "command", action |-> a,
                      since |-> IF a = "reset" THEN box.born ELSE 0, status |-> "none"]
<1>1. box \in Box /\ box.born \in 0..MaxBorn /\ 0 \in 0..MaxBorn /\ MaxBorn \in Nat
  BY ManagerAssumption DEF Operations, Box
<1>2. c \in Call
  BY <1>1 DEF Call, NoCall
<1>3. c.action = "reset" =>
        /\ c.at \in {"remove", "command"} => c.since <= box'.born
        /\ c.at = "command" => c.since < box'.born \/ box'.state = "none"
        /\ c.at = "wait" \/ c.status = "READY" => c.since < box'.born
  BY <1>1 DEF NoCall
<1>4. Ages(box, box') /\ call' = [call EXCEPT ![p] = c]
  BY <1>1, AgesSame DEF Operate
<1> HIDE DEF c
<1> QED
  BY <1>2, <1>3, <1>4, OperationsMove

\* A process that has its answer, or is gone, has no call.
LEMMA ForgetCall ==
  ASSUME Operations, NEW p \in Process, Ages(box, box'), call' = [call EXCEPT ![p] = NoCall]
  PROVE  Operations'
<1>1. NoCall \in Call /\ NoCall.action # "reset"
  BY ManagerAssumption DEF NoCall, Call
<1> QED
  BY <1>1, OperationsMove

\* The disjuncts of Next, one by one.
LEMMA NextCases ==
  ASSUME [Next]_vars
  PROVE  \/ \E p \in Process : CallStep(p) /\ UNCHANGED <<made, job, task, probed, score>>
         \/ \E p \in Process : Refuse(p) \/ Withhold(p) \/ LogIn(p) \/ AskCase(p) \/ AskFetch(p)
         \/ \E p \in Process : Returned(p)
         \/ Conclude \/ File \/ DetectStep \/ EndRegression \/ ShellExits
         \/ \E p \in Process, a \in {"start", "stop", "reset", "down"} : BeginOperation(p, a)
         \/ \E k \in Tool : BeginTool(k)
         \/ StartAgent \/ BeginRegression \/ BeginDetection
         \/ Cancel \/ ConsoleExits \/ Docker \/ UNCHANGED vars
BY DEF Next, Step, ToolStep

LEMMA OperationsStep == Basics /\ Operations /\ [Next]_vars => Operations'
<1> SUFFICES ASSUME Basics, Operations, [Next]_vars PROVE Operations'
  OBVIOUS
<1>1. Console \in Process /\ Shell \in Process /\ box \in Box /\ call \in [Process -> Call]
  BY Processes DEF Operations
<1>2. CASE call' = call /\ box' = box
  BY <1>1, <1>2, AgesSame, OperationsStay
<1>3. ASSUME NEW p \in Process, CallStep(p) PROVE Operations'
  BY <1>3, CallStepKeeps
<1>4. ASSUME NEW p \in Process, Refuse(p) \/ Withhold(p) \/ LogIn(p) \/ AskCase(p) \/ AskFetch(p)
      PROVE  call' = call /\ box' = box
  BY <1>4 DEF Refuse, Withhold, LogIn, AskCase, AskFetch
<1>5. ASSUME NEW p \in Process, Returned(p) PROVE Operations'
  <2>1. box' = box /\ call' = [call EXCEPT ![p] = NoCall]
    BY <1>5 DEF Returned
  <2> QED
    BY <1>1, <2>1, AgesSame, ForgetCall
<1>6. ASSUME Conclude \/ File \/ DetectStep \/ EndRegression \/ ShellExits
      PROVE  call' = call /\ box' = box
  BY <1>6 DEF Conclude, File, DetectStep, EndRegression, ShellExits, manager
<1>7. ASSUME NEW p \in Process, NEW a \in {"start", "stop", "reset", "down"}, BeginOperation(p, a)
      PROVE  Operations'
  BY <1>7, OperateStep DEF BeginOperation
<1>8. ASSUME BeginRegression PROVE Operations'
  BY <1>1, <1>8, OperateStep DEF BeginRegression
<1>9. ASSUME \/ \E k \in Tool : BeginTool(k)
             \/ StartAgent \/ BeginDetection \/ Cancel \/ UNCHANGED vars
      PROVE  call' = call /\ box' = box
  BY <1>9 DEF BeginTool, StartAgent, BeginDetection, Cancel, vars, manager
<1>10. ASSUME ConsoleExits PROVE Operations'
  <2>1. call' = [call EXCEPT ![Console] = NoCall]
    BY <1>10 DEF ConsoleExits
  <2>2. Ages(box, box')
    <3>1. box' \in (CASE call[Console].at = "remove"  -> Half("rm", box)
                      [] call[Console].at = "command" -> Half(Command(call[Console].action), box)
                      [] OTHER                        -> {box})
      BY <1>10 DEF ConsoleExits
    <3>2. CASE call[Console].at = "remove"
      <4>1. box' \in Half("rm", box)
        BY <3>1, <3>2
      <4> QED
        BY <1>1, <4>1, HalfAges
    <3>3. CASE call[Console].at = "command"
      <4>1. box' \in Half(Command(call[Console].action), box)
        BY <3>1, <3>3
      <4> QED
        BY <1>1, <4>1, HalfAges
    <3>4. CASE call[Console].at \notin {"remove", "command"}
      <4>1. box' = box
        BY <3>1, <3>4
      <4> QED
        BY <1>1, <4>1, AgesSame
    <3> QED
      BY <3>2, <3>3, <3>4
  <2> QED
    BY <1>1, <2>1, <2>2, ForgetCall
<1>11. ASSUME Docker PROVE Operations'
  <2>1. call' = call /\ box.state = "running" /\ box' = [box EXCEPT !.state = "exited"]
    BY <1>11 DEF Docker, Exit
  <2>2. Ages(box, box')
    BY <1>1, <2>1, ManagerAssumption DEF Ages, Box
  <2> QED
    BY <2>1, <2>2, OperationsStay
<1> QED
  BY <1>2, <1>3, <1>4, <1>5, <1>6, <1>7, <1>8, <1>9, <1>10, <1>11, NextCases

\* What no lemma above has spoken of.
Rest ==
  /\ made \in BOOLEAN /\ used \subseteq Tool /\ spent \in Nat /\ sent \in Nat
  /\ run \in {"none", "created", "running", "blocked_dependency", "cancelled", "completed", "failed"}
  /\ report \in BOOLEAN /\ cut \in BOOLEAN

LEMMA RestStep == Basics /\ [Next]_vars => Rest' /\ lab' = lab
<1> SUFFICES ASSUME Basics, [Next]_vars PROVE Rest' /\ lab' = lab
  OBVIOUS
<1>1. Rest /\ spent + 1 \in Nat /\ sent + 1 \in Nat
  BY DEF Basics, Plain, Rest
<1>2. ASSUME NEW p \in Process, \/ CallStep(p) /\ UNCHANGED <<made, job, task, probed, score>>
                                \/ Refuse(p) \/ Withhold(p) \/ Returned(p)
      PROVE  Rest' /\ lab' = lab
  BY <1>1, <1>2 DEF Rest, CallStep, Refuse, Withhold, Returned, task, probed
<1>3. ASSUME NEW p \in Process, LogIn(p) \/ AskCase(p) \/ AskFetch(p)
      PROVE  Rest' /\ lab' = lab
  <2>1. spent' \in Nat /\ sent' \in Nat
    BY <1>1, <1>3 DEF Rest, LogIn, AskCase, AskFetch, Send, Count
  <2>2. made' \in BOOLEAN
    <3>1. CASE LogIn(p)
      BY <1>1, <3>1 DEF Rest, LogIn
    <3>2. CASE AskCase(p) \/ AskFetch(p)
      BY <1>1, <3>2 DEF Rest, AskCase, AskFetch
    <3> QED
      BY <1>3, <3>1, <3>2
  <2>3. used' = used /\ run' = run /\ report' = report /\ cut' = cut /\ lab' = lab
    BY <1>3 DEF LogIn, AskCase, AskFetch, probed
  <2> QED
    BY <1>1, <2>1, <2>2, <2>3 DEF Rest
<1>4. ASSUME Conclude \/ File \/ EndRegression \/ ShellExits \/ Cancel \/ Docker \/ UNCHANGED vars
      PROVE  Rest' /\ lab' = lab
  BY <1>1, <1>4 DEF Rest, Conclude, File, EndRegression, ShellExits, Cancel, Docker, vars, task,
                    probed, manager
<1>5. ASSUME DetectStep PROVE Rest' /\ lab' = lab
  <2>1. made' = made /\ used' = used /\ spent' = spent /\ sent' = sent /\ cut' = cut /\ lab' = lab
    BY <1>5 DEF DetectStep, task
  <2>2. /\ run' \in {run, "created", "running", "blocked_dependency", "cancelled", "completed", "failed"}
        /\ report' \in {report, TRUE}
    BY <1>5 DEF DetectStep, Precheck, OpenRun, BeginRun, ProbeEntry, Discover, Check, WriteReport,
                Complete, Fail, UnlessCancelled
  <2> QED
    BY <1>1, <2>1, <2>2 DEF Rest
<1>0. ASSUME made' = made, lab' = lab, used' \in {{}, used}, spent' \in {0, spent}, sent' \in {0, sent},
             run' \in {"none", run}, report' \in {FALSE, report}, cut' \in {FALSE, cut}
      PROVE  Rest' /\ lab' = lab
  <2>1. made' \in BOOLEAN /\ used' \subseteq Tool /\ spent' \in Nat /\ sent' \in Nat
    BY <1>0, <1>1 DEF Rest
  <2>2. run' \in {"none", "created", "running", "blocked_dependency", "cancelled", "completed", "failed"}
    BY <1>0, <1>1 DEF Rest
  <2>3. report \in BOOLEAN /\ cut \in BOOLEAN
    BY <1>1 DEF Rest
  <2>4. report' \in BOOLEAN
    BY ONLY <1>0, <2>3
  <2>5. cut' \in BOOLEAN
    BY ONLY <1>0, <2>3
  <2> QED
    BY <1>0, <2>1, <2>2, <2>4, <2>5 DEF Rest
<1>6. ASSUME NEW p \in Process, NEW a, BeginOperation(p, a) PROVE Rest' /\ lab' = lab
  <2>1. CASE p = Console
    BY <1>0, <1>6, <2>1 DEF BeginOperation, ForgetTask, ForgetRun
  <2>2. CASE p # Console
    BY <1>0, <1>6, <2>2 DEF BeginOperation, task, probed
  <2> QED
    BY <2>1, <2>2
<1>7. ASSUME NEW k \in Tool, BeginTool(k) PROVE Rest' /\ lab' = lab
  BY <1>1, <1>7 DEF Rest, BeginTool, probed
<1>8. ASSUME StartAgent \/ BeginRegression \/ BeginDetection PROVE Rest' /\ lab' = lab
  <2>1. CASE StartAgent
    BY <1>0, <2>1 DEF StartAgent, ForgetTask, ForgetRun, manager
  <2>2. CASE BeginRegression
    BY <1>0, <2>2 DEF BeginRegression, task, probed
  <2>3. CASE BeginDetection
    BY <1>0, <2>3 DEF BeginDetection, ForgetTask, ForgetRun, manager
  <2> QED
    BY <1>8, <2>1, <2>2, <2>3
<1>9. ASSUME ConsoleExits PROVE Rest' /\ lab' = lab
  BY <1>1, <1>9 DEF Rest, ConsoleExits
<1> QED
  BY <1>2, <1>3, <1>4, <1>5, <1>6, <1>7, <1>8, <1>9, NextCases

Words ==
  /\ cancel \in BOOLEAN /\ agent \in {"none", "active", "over"}
  /\ filed \in [run : {"none", "created", "review"}, noted : BOOLEAN, found : BOOLEAN]
  /\ shown \in {"none", "completed", "cancelled", "failed"}
  /\ score \in [status : Profile \cup {"none", "failed"}, good : Nat]

LEMMA WordsStep ==
  ASSUME Basics, [Next]_vars, lab' = lab
  PROVE  Jobs' /\ Honest' /\ Words'
<1>1. Words
  BY DEF Basics, Plain, ManagerTypeOK, Words
<1>2. /\ NoFile \in [run : {"none", "created", "review"}, noted : BOOLEAN, found : BOOLEAN]
      /\ NoScore \in [status : Profile \cup {"none", "failed"}, good : Nat]
      /\ [status |-> "failed", good |-> 0] \in [status : Profile \cup {"none", "failed"}, good : Nat]
  BY DEF NoFile, NoScore
<1>3. ASSUME NEW p \in Process, CallStep(p) /\ UNCHANGED <<made, job, task, probed, score>>
      PROVE  Jobs' /\ Honest' /\ Words'
  <2>1. job' = job /\ told' = told /\ filed' = filed /\ score' = score /\ cancel' = cancel
        /\ agent' = agent /\ shown' = shown
    BY <1>3 DEF CallStep, task, probed
  <2> QED
    BY <1>1, <2>1, JobsStay DEF Words
<1>4. ASSUME NEW p \in Process, Refuse(p) \/ Withhold(p) \/ LogIn(p) \/ AskCase(p) \/ AskFetch(p)
      PROVE  Jobs' /\ Honest' /\ Words'
  <2>1. filed' = filed /\ shown' = shown /\ score' = score
    BY <1>4 DEF Refuse, Withhold, LogIn, AskCase, AskFetch, probed
  <2>2. Jobs' /\ Honest' /\ agent' \in {"none", "active", "over"} /\ cancel' \in BOOLEAN
    BY <1>4, RefuseStep, WithholdStep, LogInStep, AskCaseStep, AskFetchStep
  <2> QED
    BY <1>1, <2>1, <2>2 DEF Words
<1>5. ASSUME NEW p \in Process, Returned(p) PROVE Jobs' /\ Honest' /\ Words'
  <2>1. /\ filed' = filed /\ shown' = shown /\ agent' = agent
        /\ score' \in {score, [status |-> "failed", good |-> 0]}
    BY <1>5 DEF Returned, task, probed
  <2>2. score' \in [status : Profile \cup {"none", "failed"}, good : Nat]
    BY <1>1, <1>2, <2>1 DEF Words
  <2>3. Jobs' /\ Honest' /\ cancel' \in BOOLEAN
    BY <1>5, ReturnedStep
  <2> QED
    BY <1>1, <2>1, <2>2, <2>3 DEF Words
<1>6. ASSUME Conclude PROVE Jobs' /\ Honest' /\ Words'
  <2>1. filed' = filed /\ shown' = shown /\ score' = score
    BY <1>6 DEF Conclude, probed
  <2> QED
    BY <1>1, <1>6, <2>1, ConcludeStep DEF Words
<1>7. ASSUME File PROVE Jobs' /\ Honest' /\ Words'
  <2>1. shown' = shown /\ score' = score
    BY <1>7 DEF File, probed
  <2> QED
    BY <1>1, <1>7, <2>1, FileStep DEF Words
<1>8. ASSUME DetectStep PROVE Jobs' /\ Honest' /\ Words'
  <2>1. filed' = filed /\ score' = score /\ agent' = agent
    BY <1>8 DEF DetectStep, task
  <2> QED
    BY <1>1, <1>8, <2>1, DetectionStep DEF Words
<1>9. ASSUME EndRegression PROVE Jobs' /\ Honest' /\ Words'
  <2>1. filed' = filed /\ shown' = shown /\ agent' = agent /\ cancel' = cancel
    BY <1>9 DEF EndRegression, task, probed, manager
  <2> QED
    BY <1>1, <1>9, <2>1, EndRegressionStep DEF Words
<1>10. ASSUME ShellExits PROVE Jobs' /\ Honest' /\ Words'
  <2>1. filed' = filed /\ shown' = shown /\ agent' = agent /\ cancel' = cancel /\ score' = NoScore
    BY <1>10 DEF ShellExits, task, probed, manager
  <2> QED
    BY <1>1, <1>2, <1>10, <2>1, ShellExitsStep DEF Words
<1>11. ASSUME NEW p \in Process, NEW a, BeginOperation(p, a) PROVE Jobs' /\ Honest' /\ Words'
  <2>1. cancel' = cancel /\ score' = score
    BY <1>11 DEF BeginOperation
  <2>2. CASE p = Console
    <3>1. agent' = "none" /\ filed' = NoFile /\ shown' = "none"
      BY <1>11, <2>2 DEF BeginOperation, ForgetTask, ForgetRun
    <3> QED
      BY <1>1, <1>2, <1>11, <2>1, <3>1, BeginOperationStep DEF Words
  <2>3. CASE p # Console
    <3>1. agent' = agent /\ filed' = filed /\ shown' = shown
      BY <1>11, <2>3 DEF BeginOperation, task, probed
    <3> QED
      BY <1>1, <1>11, <2>1, <3>1, BeginOperationStep DEF Words
  <2> QED
    BY <2>2, <2>3
<1>12. ASSUME NEW k \in Tool, BeginTool(k) PROVE Jobs' /\ Honest' /\ Words'
  <2>1. filed' = filed /\ shown' = shown /\ score' = score
    BY <1>12 DEF BeginTool, probed
  <2> QED
    BY <1>1, <1>12, <2>1, BeginToolStep DEF Words
<1>13. ASSUME StartAgent PROVE Jobs' /\ Honest' /\ Words'
  <2>1. /\ job' = job /\ told' = NoWord /\ job[Console].kind = "none" /\ score' = score
        /\ agent' = "active" /\ filed' = NoFile /\ shown' = "none" /\ cancel' = cancel
    BY <1>13 DEF StartAgent, ForgetTask, ForgetRun, Idle, manager
  <2> QED
    BY <1>1, <1>2, <2>1, JobsStay DEF Words
<1>14. ASSUME BeginRegression PROVE Jobs' /\ Honest' /\ Words'
  <2>1. /\ filed' = filed /\ shown' = shown /\ agent' = agent /\ cancel' = cancel /\ score' = score
    BY <1>14 DEF BeginRegression, task, probed
  <2> QED
    BY <1>1, <1>14, <2>1, BeginRegressionStep DEF Words
<1>15. ASSUME BeginDetection PROVE Jobs' /\ Honest' /\ Words'
  <2>1. agent' = "none" /\ filed' = NoFile /\ shown' = "none" /\ cancel' = cancel /\ score' = score
    BY <1>15 DEF BeginDetection, ForgetTask, ForgetRun, manager
  <2> QED
    BY <1>1, <1>2, <1>15, <2>1, BeginDetectionStep DEF Words
<1>16. ASSUME ConsoleExits PROVE Jobs' /\ Honest' /\ Words'
  <2>1. /\ filed' = filed /\ shown' \in {"failed", shown} /\ agent' \in {"over", agent}
        /\ cancel' = FALSE /\ score' = score
    BY <1>16 DEF ConsoleExits
  <2>2. shown' \in {"none", "completed", "cancelled", "failed"} /\ agent' \in {"none", "active", "over"}
        /\ cancel' \in BOOLEAN
    BY <1>1, <2>1 DEF Words
  <2> QED
    BY <1>1, <1>16, <2>1, <2>2, ConsoleExitsStep DEF Words
<1>17. ASSUME Cancel \/ Docker \/ UNCHANGED vars PROVE Jobs' /\ Honest' /\ Words'
  <2>1. /\ job' = job /\ told' = told /\ filed' = filed /\ score' = score /\ shown' = shown
        /\ agent' = agent
    BY <1>17 DEF Cancel, Docker, vars, task, probed
  <2>2. cancel' = cancel \/ cancel' = TRUE
    BY <1>17 DEF Cancel, Docker, vars, manager
  <2>3. cancel' \in BOOLEAN
    BY <1>1, <2>2 DEF Words
  <2> QED
    BY <1>1, <2>1, <2>3, JobsStay DEF Words
<1> QED
  BY <1>3, <1>4, <1>5, <1>6, <1>7, <1>8, <1>9, <1>10, <1>11, <1>12, <1>13, <1>14, <1>15, <1>16,
     <1>17, NextCases

LEMMA BasicsStep == Basics /\ Operations /\ [Next]_vars => Basics'
<1> SUFFICES ASSUME Basics, Operations, [Next]_vars PROVE Basics'
  OBVIOUS
<1>1. Operations' /\ Rest' /\ lab' = lab
  BY OperationsStep, RestStep
<1>2. Jobs' /\ Honest' /\ Words'
  BY <1>1, WordsStep
<1>3. lab' \in Inventory
  BY <1>1 DEF Basics, Plain, ManagerTypeOK
<1>4. Plain'
  BY <1>1, <1>2, <1>3 DEF Plain, ManagerTypeOK, Operations, Rest, Words
<1> QED
  BY <1>2, <1>4 DEF Basics

LEMMA BasicsInit == Init => Basics /\ Operations
<1> SUFFICES ASSUME Init PROVE Basics /\ Operations
  OBVIOUS
<1>1. Console \in Process /\ 0 \in 0..MaxBorn
  BY Processes, ManagerAssumption
<1>2. NoCall \in Call /\ NoBox \in Box
  BY <1>1 DEF NoCall, Call, NoBox, Box
<1>3. NoJob \in Job /\ \A p : Fits(p, NoJob) /\ Sound(p, NoJob)
  BY NoJobSound DEF Fits
<1>4. Jobs
  BY <1>3 DEF Init, Jobs
<1>5. job[Console] = NoJob /\ told = NoWord /\ score = NoScore
  BY <1>1 DEF Init
<1>6. Honest
  <2>1. told.status = "none" /\ told.kind = "none" /\ ~told.refused /\ ~told.candidate /\ told \in Told
    BY <1>5 DEF NoWord, Told
  <2>2. NoJob.kind = "none" /\ NoJob.at = "idle" /\ score.status = "none"
    BY <1>5 DEF NoJob, NoScore
  <2> QED
    BY <1>5, <2>1, <2>2 DEF Honest, ResultIsBacked, CandidateIsFiled
<1>7. Operations
  <2>1. call \in [Process -> Call] /\ box \in Box
    BY <1>2 DEF Init, ManagerInit
  <2>2. ASSUME NEW p \in Process PROVE Fresh(p)
    BY DEF Init, ManagerInit, NoCall, Fresh
  <2> QED
    BY <2>1, <2>2 DEF Operations
<1>8. Plain
  <2>1. ManagerTypeOK
    BY <1>7 DEF Init, ManagerInit, ManagerTypeOK, Operations
  <2>2. score \in [status : Profile \cup {"none", "failed"}, good : Nat]
    BY <1>5 DEF NoScore
  <2>3. filed \in [run : {"none", "created", "review"}, noted : BOOLEAN, found : BOOLEAN]
    BY DEF Init, NoFile
  <2> QED
    BY <2>1, <2>2, <2>3 DEF Init, Plain
<1> QED
  BY <1>4, <1>6, <1>7, <1>8 DEF Basics

LEMMA BasicsAlways == Spec => [](Basics /\ Operations)
BY BasicsInit, BasicsStep, OperationsStep, PTL DEF Spec

-----------------------------------------------------------------------------
(***************************************************************************)
(* The limit of requests.                                                  *)
(***************************************************************************)
Counted == sent = spent /\ sent <= MaxRequests

LEMMA CountedStep == Basics /\ Counted /\ [Next]_vars => Counted'
<1> SUFFICES ASSUME Basics, Counted, [Next]_vars PROVE Counted'
  OBVIOUS
<1>1. spent \in Nat /\ sent \in Nat /\ MaxRequests \in Nat
  BY VisitAssumption DEF Basics, Plain
<1>2. CASE sent' = sent /\ spent' = spent
  BY <1>2 DEF Counted
<1>3. CASE sent' = 0 /\ spent' = 0
  BY <1>1, <1>3 DEF Counted
<1>4. ASSUME NEW p \in Process, \/ CallStep(p) /\ UNCHANGED <<made, job, task, probed, score>>
                                \/ Refuse(p) \/ Withhold(p) \/ Returned(p)
      PROVE  sent' = sent /\ spent' = spent
  BY <1>4 DEF Refuse, Withhold, Returned, task
<1>5. ASSUME NEW p \in Process, LogIn(p) \/ AskCase(p) \/ AskFetch(p) PROVE Counted'
  <2>1. Send(p)
    BY <1>5 DEF LogIn, AskCase, AskFetch
  <2>2. CASE p # Console
    BY <2>1, <2>2 DEF Send, Count, Counted
  <2>3. CASE p = Console
    <3>1. sent' = sent + 1 /\ spent' = spent + 1
      BY <2>1, <2>3 DEF Send, Count
    <3>2. spent < MaxRequests
      <4>1. "none" \in Denials(Console) /\ Console # Shell
        BY <2>1, <2>3, Processes DEF Send
      <4>2. ~(spent >= MaxRequests)
        BY <4>1 DEF Denials
      <4> QED
        BY <1>1, <4>2
    <3> QED
      BY <1>1, <3>1, <3>2 DEF Counted
  <2> QED
    BY <2>2, <2>3
<1>6. ASSUME \/ Conclude \/ File \/ DetectStep \/ EndRegression \/ ShellExits \/ BeginRegression
             \/ Cancel \/ ConsoleExits \/ Docker \/ UNCHANGED vars
      PROVE  sent' = sent /\ spent' = spent
  BY <1>6 DEF Conclude, File, DetectStep, EndRegression, ShellExits, BeginRegression, Cancel,
              ConsoleExits, Docker, vars, task
<1>7. ASSUME NEW p \in Process, NEW a, BeginOperation(p, a) PROVE Counted'
  <2>1. CASE p = Console
    BY <1>3, <1>7, <2>1 DEF BeginOperation, ForgetTask
  <2>2. CASE p # Console
    BY <1>2, <1>7, <2>2 DEF BeginOperation, task
  <2> QED
    BY <2>1, <2>2
<1>8. ASSUME NEW k \in Tool, BeginTool(k) PROVE sent' = sent /\ spent' = spent
  BY <1>8 DEF BeginTool
<1>9. ASSUME StartAgent \/ BeginDetection PROVE sent' = 0 /\ spent' = 0
  BY <1>9 DEF StartAgent, BeginDetection, ForgetTask
<1> QED
  BY <1>2, <1>3, <1>4, <1>5, <1>6, <1>7, <1>8, <1>9, NextCases

-----------------------------------------------------------------------------
(***************************************************************************)
(* The run of a detection.                                                 *)
(***************************************************************************)

\* While a detection is on, its run is where the detection is.
Staged ==
  job[Console].kind = "detect" =>
    /\ ~cut /\ shown = "none"
    /\ report <=> job[Console].at = "complete"
    /\ job[Console].at \in {"precheck", "open"} => run = "none"
    /\ job[Console].at = "begin" => run = "created"
    /\ job[Console].at \notin {"precheck", "open", "begin"} => run = "running"

Settled == Staged /\ RunIsSettled

\* A job that is neither begun nor over as a detection leaves the run as it was.
LEMMA SettledStays ==
  ASSUME Settled, UNCHANGED <<run, report, shown, cut>>, job'[Console].kind # "detect",
         job[Console].kind # "detect"
  PROVE  Settled'
BY DEF Settled, Staged, RunIsSettled

LEMMA SettledSame ==
  ASSUME Settled, UNCHANGED <<run, report, shown, cut>>, job'[Console] = job[Console]
  PROVE  Settled'
BY DEF Settled, Staged, RunIsSettled

LEMMA ForgottenIsSettled ==
  ASSUME ForgetRun, job'[Console].kind = "detect" => job'[Console].at = "precheck"
  PROVE  Settled'
BY DEF ForgetRun, Settled, Staged, RunIsSettled

LEMMA DetectionSettles == ASSUME Basics, Settled, DetectStep PROVE Settled'
<1> DEFINE j == job[Console]
<1>1. /\ j.kind = "detect" /\ job \in [Process -> Job] /\ Console \in Process /\ j \in Job
      /\ cut' = cut /\ ~cut /\ shown = "none"
  BY DetectMoves, Processes DEF Basics, Jobs, Settled, Staged, DetectStep
<1>2. ASSUME NEW s, Onward(s) PROVE job'[Console].kind = "detect" /\ job'[Console].at = s /\ shown' = "none"
  <2>1. job'[Console] = [j EXCEPT !.at = s]
    BY <1>1, <1>2 DEF Onward, Set
  <2> QED
    BY <1>1, <1>2, <2>1 DEF Onward, Job
<1>3. ASSUME NEW s, Show(s) PROVE job'[Console].kind # "detect" /\ shown' = s
  BY <1>1, <1>3 DEF Show, Set, NoJob
<1>4. ~cut'
  BY <1>1
<1>5. CASE Precheck
  <2>1. /\ j.at = "precheck" /\ run' = run /\ report' = report
        /\ Show("cancelled") \/ Show("failed") \/ Onward("open")
    BY <1>5 DEF Precheck, Detecting
  <2>2. run' = "none" /\ ~report'
    BY <1>1, <2>1 DEF Settled, Staged
  <2> QED
    BY <1>2, <1>3, <1>4, <2>1, <2>2 DEF Settled, Staged, RunIsSettled
<1>6. CASE OpenRun
  <2>1. /\ j.at = "open" /\ report' = report
        /\ \/ run' = run /\ Show("cancelled")
           \/ run' = "created" /\ Onward("begin")
    BY <1>6 DEF OpenRun, Detecting
  <2>2. run = "none" /\ ~report'
    BY <1>1, <2>1 DEF Settled, Staged
  <2> QED
    BY <1>2, <1>3, <1>4, <2>1, <2>2 DEF Settled, Staged, RunIsSettled
<1>7. CASE BeginRun
  <2>1. j.at = "begin" /\ report' = report /\ run' = "running" /\ Onward("probe")
    BY <1>7 DEF BeginRun, Detecting
  <2>2. ~report'
    BY <1>1, <2>1 DEF Settled, Staged
  <2> QED
    BY <1>2, <1>4, <2>1, <2>2 DEF Settled, Staged, RunIsSettled
<1>8. CASE ProbeEntry \/ Discover \/ Check
  <2>1. /\ j.at \in {"probe", "discover", "check"} /\ report' = report
        /\ \/ run' = "blocked_dependency" /\ Show("failed")
           \/ run' = "cancelled" /\ Show("cancelled")
           \/ run' = run /\ \E s \in {"discover", "check", "store"} : Onward(s)
    BY <1>8 DEF ProbeEntry, Discover, Check, Detecting, UnlessCancelled
  <2>2. run = "running" /\ ~report'
    BY <1>1, <2>1 DEF Settled, Staged
  <2> QED
    BY <1>2, <1>3, <1>4, <2>1, <2>2 DEF Settled, Staged, RunIsSettled
<1>9. CASE WriteReport
  <2>1. j.at = "store" /\ report' = TRUE /\ run' = run /\ Onward("complete")
    BY <1>9 DEF WriteReport, Detecting
  <2>2. run = "running"
    BY <1>1, <2>1 DEF Settled, Staged
  <2> QED
    BY <1>2, <1>4, <2>1, <2>2 DEF Settled, Staged, RunIsSettled
<1>10. CASE Complete
  <2>1. j.at = "complete" /\ report' = report /\ run' = "completed" /\ Show("completed")
    BY <1>10 DEF Complete, Detecting
  <2>2. report'
    BY <1>1, <2>1 DEF Settled, Staged
  <2> QED
    BY <1>3, <2>1, <2>2 DEF Settled, Staged, RunIsSettled
<1>11. CASE Fail
  <2>1. run' = "failed" /\ Show("failed")
    BY <1>11 DEF Fail
  <2> QED
    BY <1>3, <2>1 DEF Settled, Staged, RunIsSettled
<1> QED
  BY <1>5, <1>6, <1>7, <1>8, <1>9, <1>10, <1>11 DEF DetectStep

LEMMA SettledStep == Basics /\ Settled /\ [Next]_vars => Settled'
<1> SUFFICES ASSUME Basics, Settled, [Next]_vars PROVE Settled'
  OBVIOUS
<1>1. job \in [Process -> Job] /\ Console \in Process /\ Shell \in Process /\ Shell # Console
  BY Processes DEF Basics, Jobs
<1>2. "detect" \notin Tool \cup {"none", "operate"}
  BY DEF Tool, Session, Fetch
<1>3. ASSUME NEW p \in Process, Refuse(p) \/ Withhold(p) \/ LogIn(p) \/ AskCase(p) \/ AskFetch(p)
      PROVE  Settled'
  <2>1. Keeps(p)
    BY <1>3, RefuseStep, WithholdStep, LogInStep, AskCaseStep, AskFetchStep
  <2>2. UNCHANGED <<run, report, shown, cut>>
    BY <1>3 DEF Refuse, Withhold, LogIn, AskCase, AskFetch, probed
  <2>3. CASE p = Console
    <3>1. job[Console].kind \in Tool
      BY <1>3, <2>3 DEF Refuse, Withhold, LogIn, AskCase, AskFetch, Send, Asking
    <3> QED
      BY <1>2, <2>1, <2>2, <2>3, <3>1, SettledStays DEF Keeps
  <2>4. CASE p # Console
    BY <2>1, <2>2, <2>4, SettledSame DEF Keeps
  <2> QED
    BY <2>3, <2>4
<1>4. ASSUME Conclude PROVE Settled'
  <2>1. Keeps(Console) /\ UNCHANGED <<run, report, shown, cut>> /\ job[Console].kind \in Tool
    BY <1>4, ConcludeStep DEF Conclude, probed
  <2> QED
    BY <1>2, <2>1, SettledStays DEF Keeps
<1>5. ASSUME File PROVE Settled'
  <2>1. Keeps(Console) /\ UNCHANGED <<run, report, shown, cut>> /\ job[Console].at \in Filing
    BY <1>5, FileStep DEF File, Filing, probed
  <2>2. job[Console].kind # "detect"
    <3>1. job[Console].at \notin Look
      BY ONLY <2>1 DEF Filing, Look
    <3> QED
      BY <1>1, <3>1 DEF Basics, Jobs, Fits
  <2> QED
    BY <1>2, <2>1, <2>2, SettledStays DEF Keeps
<1>6. ASSUME NEW p \in Process, Returned(p) PROVE Settled'
  <2>1. UNCHANGED <<run, report, shown, cut>> /\ job[p].at = "lab"
    BY <1>6 DEF Returned, At, probed
  <2>2. CASE p = Console
    <3>1. job[p].kind = "operate"
      BY <2>1, <2>2, <1>1 DEF Basics, Jobs, Fits
    <3>2. job'[Console] = NoJob
      BY <1>1, <1>6, <2>2, <3>1 DEF Returned, Set
    <3> QED
      BY <2>1, <2>2, <3>1, <3>2, SettledStays DEF NoJob
  <2>3. CASE p # Console
    <3>1. job'[Console] = job[Console]
      BY <1>1, <1>6, <2>3 DEF Returned, Set
    <3> QED
      BY <2>1, <3>1, SettledSame
  <2> QED
    BY <2>2, <2>3
<1>7. ASSUME EndRegression \/ ShellExits \/ BeginRegression PROVE Settled'
  <2>1. UNCHANGED <<run, report, shown, cut>> /\ job'[Console] = job[Console]
    BY <1>1, <1>7 DEF EndRegression, ShellExits, BeginRegression, Set, probed
  <2> QED
    BY <2>1, SettledSame
<1>8. ASSUME \/ \E p \in Process : CallStep(p) /\ UNCHANGED <<made, job, task, probed, score>>
             \/ Cancel \/ Docker \/ UNCHANGED vars
      PROVE  Settled'
  <2>1. UNCHANGED <<run, report, shown, cut>> /\ job' = job
    BY <1>8 DEF Cancel, Docker, vars, probed
  <2> QED
    BY <2>1, SettledSame
<1>9. ASSUME NEW p \in Process, NEW a, BeginOperation(p, a) PROVE Settled'
  <2>1. Set(p, [NoJob EXCEPT !.kind = "operate", !.at = "lab"])
    BY <1>9 DEF BeginOperation
  <2>2. CASE p = Console
    <3>1. job'[Console].kind # "detect"
      BY <1>1, <2>1, <2>2 DEF Set, NoJob
    <3>2. ForgetRun
      BY <1>9, <2>2 DEF BeginOperation
    <3> QED
      BY <3>1, <3>2, ForgottenIsSettled
  <2>3. CASE p # Console
    <3>1. UNCHANGED <<run, report, shown, cut>> /\ job'[Console] = job[Console]
      BY <1>1, <1>9, <2>1, <2>3 DEF BeginOperation, Set, probed
    <3> QED
      BY <3>1, SettledSame
  <2> QED
    BY <2>2, <2>3
<1>10. ASSUME NEW k \in Tool, BeginTool(k) PROVE Settled'
  <2>1. Keeps(Console) /\ UNCHANGED <<run, report, shown, cut>> /\ job[Console].kind = "none"
    BY <1>10, BeginToolStep DEF BeginTool, Idle, probed
  <2> QED
    BY <1>2, <2>1, SettledStays DEF Keeps
<1>11. ASSUME StartAgent PROVE Settled'
  <2>1. ForgetRun /\ job' = job /\ job[Console].kind = "none"
    BY <1>11 DEF StartAgent, Idle
  <2> QED
    BY <2>1, ForgottenIsSettled
<1>12. ASSUME BeginDetection PROVE Settled'
  <2>1. ForgetRun /\ job'[Console].at = "precheck"
    BY <1>1, <1>12 DEF BeginDetection, Set, NoJob
  <2> QED
    BY <2>1, ForgottenIsSettled
<1>13. ASSUME ConsoleExits PROVE Settled'
  <2>1. job'[Console] = NoJob
    BY <1>1, <1>13 DEF ConsoleExits, Set
  <2>2. job'[Console].kind # "detect"
    BY <2>1 DEF NoJob
  <2>3. CASE job[Console].kind = "detect"
    <3>1. cut'
      BY <1>13, <2>3 DEF ConsoleExits
    <3> QED
      BY <2>2, <3>1 DEF Settled, Staged, RunIsSettled
  <2>4. CASE job[Console].kind # "detect"
    <3>1. UNCHANGED <<run, report, shown, cut>>
      BY <1>13, <2>4 DEF ConsoleExits
    <3> QED
      BY <2>2, <2>4, <3>1, SettledStays
  <2> QED
    BY <2>3, <2>4
<1> QED
  BY <1>3, <1>4, <1>5, <1>6, <1>7, <1>8, <1>9, <1>10, <1>11, <1>12, <1>13, DetectionSettles, NextCases

-----------------------------------------------------------------------------
(***************************************************************************)
(* The theorems.                                                           *)
(***************************************************************************)
LEMMA CountedInit == Init => Counted /\ Settled
<1> SUFFICES ASSUME Init PROVE Counted /\ Settled
  OBVIOUS
<1>1. Counted
  BY VisitAssumption DEF Init, Counted
<1>2. job[Console].kind = "none"
  BY Processes DEF Init, NoJob
<1>3. Settled
  BY <1>2 DEF Init, Settled, Staged, RunIsSettled
<1> QED
  BY <1>1, <1>3

\* Type correctness: what the two processes, docker and the store hold stays what it is.
THEOREM VisitsType == Spec => []TypeOK
<1>1. Basics => TypeOK
  BY DEF Basics, Plain, Jobs, Honest, TypeOK
<1> QED
  BY <1>1, BasicsAlways, PTL

\* Logins, redirects and cases alike count against one limit, over all tools of a task.
THEOREM RequestsAreLimited == Spec => []RequestsWithinLimit
<1>1. Counted => RequestsWithinLimit
  BY DEF Counted, RequestsWithinLimit
<1> QED
  BY <1>1, CountedInit, CountedStep, BasicsAlways, PTL DEF Spec

\* A complete session accounts for every one of its requests, and a refused request is
\* never taken for a result.
THEOREM ResultsAreBacked == Spec => []ResultIsBacked
<1>1. Basics => ResultIsBacked
  BY DEF Basics, Honest
<1> QED
  BY <1>1, BasicsAlways, PTL

\* What the dashboard shows of a detection agrees with the run in the store.
THEOREM RunsAreSettled == Spec => []RunIsSettled
<1>1. Settled => RunIsSettled
  BY DEF Settled
<1> QED
  BY <1>1, CountedInit, SettledStep, BasicsAlways, PTL DEF Spec

\* A reset that reports READY is of a newer container, whatever the other process,
\* docker and a cancellation did meanwhile.
THEOREM ResetsAreFresh == Spec => []ResetIsFresh
<1>1. Operations => ResetIsFresh
  <2> SUFFICES ASSUME Operations, NEW p \in Process, call[p].action = "reset", call[p].status = "READY"
               PROVE  box.born > call[p].since
    BY DEF ResetIsFresh
  <2>1. call[p].since < box.born /\ call[p] \in Call /\ box \in Box
    BY DEF Operations, Fresh
  <2> QED
    BY <2>1, ManagerAssumption DEF Call, Box
<1> QED
  BY <1>1, BasicsAlways, PTL

\* A candidate is told of after its run, its note and its finding are in the store.
THEOREM CandidatesAreFiled == Spec => []CandidateIsFiled
<1>1. Basics => CandidateIsFiled
  BY DEF Basics, Honest
<1> QED
  BY <1>1, BasicsAlways, PTL

\* The database is made by a shell's regression alone, and not by what the dashboard does.
LEMMA DataStep ==
  Basics /\ [Next]_vars =>
    (made' # made => job[Shell].kind = "regression" /\ job'[Console] = job[Console])
<1> SUFFICES ASSUME Basics, [Next]_vars, made' # made
             PROVE  job[Shell].kind = "regression" /\ job'[Console] = job[Console]
  OBVIOUS
<1>1. PICK p \in Process : LogIn(p)
  BY NextCases DEF Refuse, Withhold, AskCase, AskFetch, Returned, Conclude, File, DetectStep, EndRegression,
        ShellExits, BeginOperation, BeginTool, StartAgent, BeginRegression, BeginDetection, Cancel,
        ConsoleExits, Docker, vars
<1>2. job[p].at = "create"
  BY <1>1 DEF LogIn, Basics, Plain
<1>3. Asking(p)
  BY <1>1 DEF LogIn, Send
<1>4. p # Console
  BY <1>2, Processes DEF Basics, Jobs, Fits, Making
<1>5. p = Shell /\ job[p].kind = "regression"
  BY <1>3, <1>4, AskingFacts DEF Process, Judging
<1>6. Keeps(p)
  BY <1>1, LogInStep
<1> QED
  BY <1>4, <1>5, <1>6 DEF Keeps

THEOREM DataStaysAlone == Spec => DataIsLeftAlone
<1>1. Basics /\ [Next]_vars
        => [made' # made => job[Shell].kind = "regression" /\ job'[Console] = job[Console]]_vars
  BY DataStep
<1> QED
  BY <1>1, BasicsAlways, PTL DEF Spec, DataIsLeftAlone

-----------------------------------------------------------------------------
(***************************************************************************)
(* What a process has left runs out.  A request that is over is worth more *)
(* than any way to the next one, with its redirects; within a request the  *)
(* way itself gets shorter.                                                *)
(***************************************************************************)
LEMMA PlaceLeftIs ==
  /\ PlaceLeft("idle") = 0 /\ PlaceLeft("ask") = 1 /\ PlaceLeft("printed") = 1
  /\ PlaceLeft("complete") = 1 /\ PlaceLeft("lab") = 1
  /\ PlaceLeft("start") = 2 /\ PlaceLeft("login again") = 2 /\ PlaceLeft("mark") = 2
  /\ PlaceLeft("store") = 2 /\ PlaceLeft("join") = 3 /\ PlaceLeft("page again") = 3
  /\ PlaceLeft("insert") = 3 /\ PlaceLeft("check") = 3 /\ PlaceLeft("register") = 4
  /\ PlaceLeft("create") = 4 /\ PlaceLeft("note") = 4 /\ PlaceLeft("discover") = 4
  /\ PlaceLeft("setup") = 5 /\ PlaceLeft("file") = 5 /\ PlaceLeft("probe") = 5
  /\ PlaceLeft("login") = 6 /\ PlaceLeft("over") = 6 /\ PlaceLeft("begin") = 6
  /\ PlaceLeft("page") = 7 /\ PlaceLeft("open") = 7 /\ PlaceLeft("precheck") = 8
BY DEF PlaceLeft

LEMMA PlaceLeftRange ==
  /\ PlaceLeft("idle") = 0
  /\ \A x \in Login : PlaceLeft(x) \in 1..8
  /\ \A x \in Filing : PlaceLeft(x) \in 1..8
  /\ \A x \in Look : PlaceLeft(x) \in 1..8
  /\ \A x \in {"lab", "ask", "over", "printed"} : PlaceLeft(x) \in 1..8
  /\ \A x \in {"over", "page", "register", "ask"} : PlaceLeft(x) \in 0..7
<1>1. \A n \in {1, 2, 3, 4, 5, 6, 7, 8} : n \in 1..8
  OBVIOUS
<1>2. \A n \in {1, 4, 6, 7} : n \in 0..7
  OBVIOUS
<1>3. \A x \in Login : PlaceLeft(x) \in {1, 2, 3, 4, 5, 6, 7, 8}
  BY PlaceLeftIs, Zenon DEF Login
<1>4. \A x \in Filing : PlaceLeft(x) \in {1, 2, 3, 4, 5, 6, 7, 8}
  BY PlaceLeftIs, Zenon DEF Filing
<1>5. \A x \in Look : PlaceLeft(x) \in {1, 2, 3, 4, 5, 6, 7, 8}
  BY PlaceLeftIs, Zenon DEF Look
<1>6. \A x \in {"lab", "ask", "over", "printed"} : PlaceLeft(x) \in {1, 2, 3, 4, 5, 6, 7, 8}
  BY PlaceLeftIs, Zenon
<1>7. \A x \in {"over", "page", "register", "ask"} : PlaceLeft(x) \in {1, 4, 6, 7}
  BY PlaceLeftIs, Zenon
<1> QED
  BY <1>1, <1>2, <1>3, <1>4, <1>5, <1>6, <1>7, PlaceLeftIs

LEMMA CallLeftIs ==
  CallLeft["idle"] = 0 /\ CallLeft["wait"] = 1 /\ CallLeft["command"] = 2 /\ CallLeft["remove"] = 3
BY DEF CallLeft

\* Every place but the first is on the way to something.
LEMMA PlaceLeftType ==
  ASSUME NEW j \in Job
  PROVE  PlaceLeft(j.at) \in Nat /\ (j.at # "idle" => PlaceLeft(j.at) >= 1)
<1>1. j.at \in Login \cup Filing \cup Look \cup {"idle", "lab", "ask", "over", "printed"}
  BY DEF Job
<1>2. j.at = "idle" \/ PlaceLeft(j.at) \in 1..8
  BY <1>1, PlaceLeftRange
<1> QED
  BY ONLY <1>2, PlaceLeftRange

\* A fetch has requests left as long as it follows redirects.
Bounded(j) == j.hop \in 0..(MaxHops - 1)

\* Requests weigh more than a way: fewer of them leave less.
LEMMA Weigh ==
  ASSUME NEW k \in Nat, NEW m \in Nat, NEW n \in Nat, m < n
  PROVE  k * m \in Nat /\ k * n \in Nat /\ k * m + k <= k * n
<1>1. PICK i \in Nat : n = (m + 1) + i
  <2>1. n - (m + 1) \in Nat /\ n = (m + 1) + (n - (m + 1))
    OBVIOUS
  <2> QED
    BY <2>1
<1>2. k * m \in Nat /\ k * i \in Nat /\ k * n \in Nat
  OBVIOUS
<1>3. k * ((m + 1) + i) = (k * m + k) + k * i
  OBVIOUS
<1> QED
  BY <1>1, <1>2, <1>3

LEMMA JobLeftType ==
  ASSUME NEW j \in Job, Bounded(j)
  PROVE  /\ JobLeft(j) \in Nat /\ (j.at # "idle" => JobLeft(j) >= 1)
         /\ (7 + MaxHops) * j.left \in Nat /\ j.left \in Nat
         /\ (IF j.left = 0 THEN 0 ELSE MaxHops - j.hop) \in 0..MaxHops
<1>1. j.left \in Nat /\ MaxHops \in Nat \ {0}
  BY VisitAssumption DEF Job
<1>2. (7 + MaxHops) * j.left \in Nat
  BY <1>1
<1>3. (IF j.left = 0 THEN 0 ELSE MaxHops - j.hop) \in 0..MaxHops
  BY <1>1 DEF Bounded
<1>4. PlaceLeft(j.at) \in Nat /\ (j.at # "idle" => PlaceLeft(j.at) >= 1)
  BY PlaceLeftType
<1> DEFINE k == (7 + MaxHops) * j.left
           h == IF j.left = 0 THEN 0 ELSE MaxHops - j.hop
<1>5. JobLeft(j) = (k + PlaceLeft(j.at)) + h
  BY DEF JobLeft
<1>6. k \in Nat /\ h \in Nat
  BY <1>1, <1>2, <1>3
<1> HIDE DEF k, h
<1>7. JobLeft(j) \in Nat /\ (j.at # "idle" => JobLeft(j) >= 1)
  BY ONLY <1>4, <1>5, <1>6
<1> QED
  BY <1>1, <1>2, <1>3, <1>7

\* Nearer by a place, with the same requests left.
LEMMA NearerByPlace ==
  ASSUME NEW j \in Job, Bounded(j), NEW d \in Job, d.left = j.left, d.hop = j.hop,
         PlaceLeft(d.at) < PlaceLeft(j.at)
  PROVE  Bounded(d) /\ JobLeft(d) \in 0..(JobLeft(j) - 1)
<1>1. Bounded(d)
  BY DEF Bounded
<1> DEFINE k == (7 + MaxHops) * j.left
           h == IF j.left = 0 THEN 0 ELSE MaxHops - j.hop
<1>2. JobLeft(j) = (k + PlaceLeft(j.at)) + h /\ JobLeft(d) = (k + PlaceLeft(d.at)) + h
  BY DEF JobLeft
<1>3. k \in Nat /\ h \in Nat /\ PlaceLeft(j.at) \in Nat /\ PlaceLeft(d.at) \in Nat
  BY JobLeftType, PlaceLeftType
<1> HIDE DEF k, h
<1>4. JobLeft(d) \in 0..(JobLeft(j) - 1)
  BY ONLY <1>2, <1>3, PlaceLeft(d.at) < PlaceLeft(j.at)
<1> QED
  BY <1>1, <1>4

\* Nearer by a request, at the beginning of the next or at the end.
LEMMA NearerByRequest ==
  ASSUME NEW j \in Job, Bounded(j), NEW d \in Job, d.left < j.left, d.hop = 0,
         d.at \in {"over", "page", "register", "ask"}, j.at # "idle"
  PROVE  Bounded(d) /\ JobLeft(d) \in 0..(JobLeft(j) - 1)
<1>0. MaxHops \in Nat \ {0} /\ j.left \in Nat /\ d.left \in Nat
  BY VisitAssumption DEF Job
<1>1. Bounded(d)
  BY <1>0 DEF Bounded
<1> DEFINE k == (7 + MaxHops) * j.left
           m == (7 + MaxHops) * d.left
           h == IF j.left = 0 THEN 0 ELSE MaxHops - j.hop
           g == IF d.left = 0 THEN 0 ELSE MaxHops - d.hop
<1>2. JobLeft(j) = (k + PlaceLeft(j.at)) + h /\ JobLeft(d) = (m + PlaceLeft(d.at)) + g
  BY DEF JobLeft
<1>3. h \in 0..MaxHops /\ g \in 0..MaxHops
  BY <1>1, JobLeftType
<1>4. k \in Nat /\ m \in Nat /\ m + (7 + MaxHops) <= k
  BY <1>0, Weigh
<1>5. PlaceLeft(j.at) \in Nat /\ PlaceLeft(j.at) >= 1 /\ PlaceLeft(d.at) \in 0..7
  BY PlaceLeftRange, PlaceLeftType
<1> HIDE DEF k, m, h, g
<1>6. JobLeft(d) \in 0..(JobLeft(j) - 1)
  BY ONLY <1>0, <1>2, <1>3, <1>4, <1>5
<1> QED
  BY <1>1, <1>6

\* Nearer by a redirect.
LEMMA NearerByHop ==
  ASSUME NEW j \in Job, Bounded(j), NEW d \in Job, d.left = j.left, j.left >= 1, d.at = j.at,
         d.hop = j.hop + 1, d.hop # MaxHops
  PROVE  Bounded(d) /\ JobLeft(d) \in 0..(JobLeft(j) - 1)
<1>0. MaxHops \in Nat \ {0} /\ j.left \in Nat /\ j.hop \in Nat /\ j.hop <= MaxHops - 1
  BY VisitAssumption DEF Job, Bounded
<1>1. Bounded(d)
  BY <1>0 DEF Bounded
<1> DEFINE k == (7 + MaxHops) * j.left
<1>2. JobLeft(j) = (k + PlaceLeft(j.at)) + (MaxHops - j.hop)
  BY <1>0 DEF JobLeft
<1>3. JobLeft(d) = (k + PlaceLeft(j.at)) + (MaxHops - (j.hop + 1))
  BY <1>0 DEF JobLeft
<1>4. k \in Nat /\ PlaceLeft(j.at) \in Nat
  BY JobLeftType, PlaceLeftType
<1> HIDE DEF k
<1>5. JobLeft(d) \in 0..(JobLeft(j) - 1)
  BY ONLY <1>0, <1>1, <1>2, <1>3, <1>4 DEF Bounded
<1> QED
  BY <1>1, <1>5

\* A process that has nothing left to do is as near as can be.
LEMMA NearerByEnd ==
  ASSUME NEW j \in Job, Bounded(j), j.at # "idle"
  PROVE  NoJob \in Job /\ Bounded(NoJob) /\ JobLeft(NoJob) = 0 /\ JobLeft(NoJob) \in 0..(JobLeft(j) - 1)
<1>1. NoJob \in Job
  BY NoJobFits DEF Fits
<1>2. NoJob.hop = 0 /\ NoJob.left = 0 /\ NoJob.at = "idle" /\ MaxHops \in Nat \ {0}
  BY VisitAssumption DEF NoJob
<1>3. Bounded(NoJob)
  BY <1>2 DEF Bounded
<1>4. (7 + MaxHops) * 0 = 0
  BY <1>2
<1>5. JobLeft(NoJob) = 0
  <2> DEFINE z == (7 + MaxHops) * 0
  <2>1. JobLeft(NoJob) = (z + PlaceLeft("idle")) + 0
    BY <1>2 DEF JobLeft
  <2>2. z = 0
    BY <1>4
  <2>3. PlaceLeft("idle") = 0
    BY PlaceLeftIs
  <2> HIDE DEF z
  <2> QED
    BY ONLY <2>1, <2>2, <2>3
<1>6. JobLeft(j) \in Nat /\ JobLeft(j) >= 1
  BY JobLeftType
<1> QED
  BY <1>1, <1>3, <1>5, <1>6

Hops == \A p \in Process : Bounded(job[p])

\* A step of a job brings it nearer its end, and is its process's alone.
Nears(p) ==
  \E d \in Job : /\ Set(p, d) /\ d.at # "lab" /\ Bounded(d)
                 /\ JobLeft(d) \in 0..(JobLeft(job[p]) - 1)

LEMMA JobFacts == ASSUME Basics, Hops, NEW p \in Process PROVE job[p] \in Job /\ Bounded(job[p]) /\ Fits(p, job[p])
BY DEF Basics, Jobs, Hops, Fits

LEMMA EndNears ==
  ASSUME Basics, Hops, NEW p \in Process, job[p].at # "idle", Set(p, NoJob)
  PROVE  Nears(p)
<1>1. NoJob \in Job /\ Bounded(NoJob) /\ JobLeft(NoJob) \in 0..(JobLeft(job[p]) - 1)
  BY JobFacts, NearerByEnd
<1>2. NoJob.at # "lab"
  BY DEF NoJob
<1> QED
  BY <1>1, <1>2 DEF Nears

LEMMA PlaceNears ==
  ASSUME Basics, Hops, NEW p \in Process, NEW d \in Job, Set(p, d), d.at # "lab",
         d.left = job[p].left, d.hop = job[p].hop, PlaceLeft(d.at) < PlaceLeft(job[p].at)
  PROVE  Nears(p)
<1>1. Bounded(d) /\ JobLeft(d) \in 0..(JobLeft(job[p]) - 1)
  BY JobFacts, NearerByPlace
<1> QED
  BY <1>1 DEF Nears

\* A request that was judged is over, and the next begins with its first hop.
LEMMA JudgedHop ==
  ASSUME NEW p, NEW j, Judging(p, j), NEW v \in Verdict, NEW known \in BOOLEAN
  PROVE  Judged(p, j, v, known).hop = 0
<1> DEFINE n == [j EXCEPT !.got = @ \cup {v}, !.good = IF v = "PASS" /\ known THEN @ + 1 ELSE @,
                          !.left = @ - 1, !.hop = 0, !.out = FALSE,
                          !.sess = IF j.kind = "regression" THEN 0 ELSE @]
           at == IF n.left = 0 THEN "over" ELSE Opening(Auth(p, n.kind, n.left))
<1>1. Judged(p, j, v, known) = [n EXCEPT !.at = at]
  BY DEF Judged, Placed
<1>2. n.hop = 0 /\ DOMAIN n = DOMAIN j /\ "hop" \in DOMAIN j
  BY DEF Judging, Job
<1> HIDE DEF n, at
<1>3. [n EXCEPT !.at = at].hop = 0
  BY <1>2
<1> QED
  BY <1>1, <1>3

LEMMA JudgedNears ==
  ASSUME Basics, Hops, NEW p \in Process, Asking(p), NEW v \in Verdict, NEW known \in BOOLEAN,
         Set(p, Judged(p, job[p], v, known))
  PROVE  Nears(p)
<1> DEFINE d == Judged(p, job[p], v, known)
<1>1. Judging(p, job[p]) /\ job[p].at \in Login \cup {"ask"}
  BY AskingFacts
<1>2. d \in Job /\ d.left = job[p].left - 1 /\ d.at \in {"over", "page", "register", "ask"} /\ d.hop = 0
  BY <1>1, JudgedFits, JudgedHop DEF Advanced
<1>3. job[p] \in Job /\ Bounded(job[p]) /\ job[p].left \in Nat /\ job[p].at # "idle"
  BY <1>1, JobFacts DEF Job, Login
<1>4. Set(p, d)
  OBVIOUS
<1> HIDE DEF d
<1>5. d.left < job[p].left /\ d.at # "lab"
  BY <1>2, <1>3
<1>6. Bounded(d) /\ JobLeft(d) \in 0..(JobLeft(job[p]) - 1)
  BY <1>2, <1>3, <1>5, NearerByRequest
<1> QED
  BY <1>2, <1>4, <1>5, <1>6 DEF Nears

LEMMA BlockedNears ==
  ASSUME Basics, Hops, NEW p \in Process, Asking(p), Blocked(p)
  PROVE  Nears(p)
<1>1. CASE job[p].kind = "regression"
  <2>1. Set(p, Judged(p, job[p], "BLOCKED_DEPENDENCY", FALSE))
    BY <1>1 DEF Blocked
  <2>2. "BLOCKED_DEPENDENCY" \in Verdict /\ FALSE \in BOOLEAN
    BY DEF Verdict
  <2> QED
    BY <2>1, <2>2, JudgedNears
<1>2. CASE job[p].kind # "regression"
  <2>1. p = Console /\ job[p].at # "idle"
    BY <1>2, AskingFacts DEF Judging, Process, Login
  <2>2. Set(p, NoJob)
    BY <1>2, <2>1 DEF Blocked, Tell
  <2> QED
    BY <2>1, <2>2, EndNears
<1> QED
  BY <1>1, <1>2

LEMMA RefuseNears == ASSUME Basics, Hops, NEW p \in Process, Refuse(p) PROVE Nears(p)
<1>1. Asking(p) /\ p # Shell /\ Set(Console, NoJob)
  BY DEF Refuse, Denials, Tell
<1>2. p = Console /\ job[p].at # "idle"
  BY <1>1, AskingFacts DEF Process, Login
<1> QED
  BY <1>1, <1>2, EndNears

\* Each step of a login is followed by one nearer the request.
LEMMA LogInNears == ASSUME Basics, Hops, NEW p \in Process, LogIn(p) PROVE Nears(p)
<1>1. Asking(p)
  BY DEF LogIn, Send
<1>2. CASE Blocked(p)
  BY <1>1, <1>2, BlockedNears
<1>3. ASSUME NEW j \in DvwaNext(p) \cup WebgoatNext(p), Set(p, j) PROVE Nears(p)
  <2>1. PICK x \in Login \cup {"ask"}, s \in 0..MaxBorn :
           /\ j = [job[p] EXCEPT !.at = x, !.sess = s]
           /\ p = Console => x \notin Making
    BY LogInMoves
  <2>2. job[p] \in Job
    BY JobFacts
  <2>3. j \in Job /\ j.left = job[p].left /\ j.hop = job[p].hop /\ j.at = x
    BY <2>1, <2>2 DEF Job
  <2>4. \/ job[p].at = "page" /\ j.at = "login"
        \/ job[p].at = "login" /\ j.at = "setup"
        \/ job[p].at = "login" /\ j.at = "ask"
        \/ job[p].at = "login again" /\ j.at = "ask"
        \/ job[p].at = "setup" /\ j.at = "create"
        \/ job[p].at = "create" /\ j.at = "page again"
        \/ job[p].at = "page again" /\ j.at = "login again"
        \/ job[p].at = "register" /\ j.at = "join"
        \/ job[p].at = "join" /\ j.at = "start"
        \/ job[p].at = "start" /\ j.at = "ask"
    <3>1. CASE j \in DvwaNext(p)
      BY <2>2, <3>1 DEF DvwaNext, Job
    <3>2. CASE j \in WebgoatNext(p)
      BY <2>2, <3>2 DEF WebgoatNext, Job
    <3> QED
      BY <1>3, <3>1, <3>2
  <2>5. PlaceLeft(j.at) < PlaceLeft(job[p].at) /\ j.at # "lab"
    <3>1. \/ PlaceLeft(job[p].at) = 7 /\ PlaceLeft(j.at) = 6
          \/ PlaceLeft(job[p].at) = 6 /\ PlaceLeft(j.at) = 5
          \/ PlaceLeft(job[p].at) = 6 /\ PlaceLeft(j.at) = 1
          \/ PlaceLeft(job[p].at) = 5 /\ PlaceLeft(j.at) = 4
          \/ PlaceLeft(job[p].at) = 4 /\ PlaceLeft(j.at) = 3
          \/ PlaceLeft(job[p].at) = 3 /\ PlaceLeft(j.at) = 2
          \/ PlaceLeft(job[p].at) = 2 /\ PlaceLeft(j.at) = 1
      BY ONLY <2>4, PlaceLeftIs, Zenon
    <3>2. PlaceLeft(j.at) < PlaceLeft(job[p].at)
      BY ONLY <3>1
    <3>3. j.at # "lab"
      BY ONLY <2>4
    <3> QED
      BY <3>2, <3>3
  <2> QED
    BY <1>3, <2>3, <2>5, PlaceNears
<1> QED
  BY <1>2, <1>3 DEF LogIn

LEMMA AskCaseNears == ASSUME Basics, Hops, NEW p \in Process, AskCase(p) PROVE Nears(p)
<1>1. Asking(p) /\ job[p].at = "ask" /\ job[p].kind \in Session
  BY DEF AskCase, Send
<1>2. CASE Blocked(p)
  BY <1>1, <1>2, BlockedNears
<1>3. ASSUME NEW a \in Answers(p),
             Set(p, Judged(p, job[p], IF job[p].kind = "regression"
                                      THEN Evaluate(CaseAt(p, job[p].left), Read(a))
                                      ELSE IF a.status = 200 THEN "PASS" ELSE "FAIL", Known(p)))
      PROVE  Nears(p)
  <2> DEFINE v == IF job[p].kind = "regression" THEN Evaluate(CaseAt(p, job[p].left), Read(a))
                  ELSE IF a.status = 200 THEN "PASS" ELSE "FAIL"
  <2>1. lab \in Inventory /\ job[p] \in Job /\ Sound(p, job[p]) /\ job[p].left >= 1
    BY <1>1, AskingFacts DEF Judging, Basics, Plain, ManagerTypeOK
  <2>2. v \in Verdict
    BY <1>1, <2>1, PassIsKnown
  <2>3. Known(p) \in BOOLEAN
    BY DEF Known
  <2>4. Set(p, Judged(p, job[p], v, Known(p)))
    BY <1>3
  <2> HIDE DEF v
  <2> QED
    BY <1>1, <2>2, <2>3, <2>4, JudgedNears
<1> QED
  BY <1>2, <1>3 DEF AskCase

\* A fetch follows a redirect, or its request is over; what a page makes of the requests
\* that are left is fewer of them.
LEMMA AskFetchNears == ASSUME Basics, Hops, NEW p \in Process, AskFetch(p) PROVE Nears(p)
<1> DEFINE j == job[p]
<1>1. Asking(p) /\ j.at = "ask" /\ j.kind \in Fetch
  BY DEF AskFetch, Send
<1>2. /\ j \in Job /\ j.kind \in Tool /\ j.left >= 1 /\ Judging(p, j) /\ Bounded(j)
      /\ j.left \in Nat /\ j.hop \in Nat
  BY <1>1, AskingFacts, JobFacts DEF Judging, Job
<1>3. p = Console /\ p # Shell
  BY <1>1, FetchFacts, Processes
<1>4. ASSUME NEW status, Tell(j, status) PROVE Nears(p)
  BY <1>1, <1>3, <1>4, EndNears DEF Tell
<1>5. CASE \E u \in Location : IF j.hop + 1 = MaxHops THEN Tell(j, "scope_blocked")
                               ELSE /\ Set(p, [j EXCEPT !.hop = @ + 1, !.out = ~SameOrigin(u)])
                                    /\ UNCHANGED <<told, agent, cancel>>
  <2>1. CASE Tell(j, "scope_blocked")
    BY <1>4, <2>1
  <2>2. ASSUME NEW u \in Location, j.hop + 1 # MaxHops,
               Set(p, [j EXCEPT !.hop = @ + 1, !.out = ~SameOrigin(u)])
        PROVE  Nears(p)
    <3> DEFINE n == [j EXCEPT !.hop = @ + 1, !.out = ~SameOrigin(u)]
    <3>1. n.at = j.at /\ n.left = j.left /\ n.hop = j.hop + 1
      BY <1>2 DEF Job
    <3>2. n \in Job
      <4>1. j.hop + 1 \in Nat /\ (~SameOrigin(u)) \in BOOLEAN
        BY <1>2
      <4> QED
        BY ONLY <1>2, <4>1 DEF Job
    <3>3. Set(p, n)
      BY <2>2
    <3> HIDE DEF n
    <3>4. Bounded(n) /\ JobLeft(n) \in 0..(JobLeft(j) - 1)
      BY <1>2, <2>2, <3>1, <3>2, NearerByHop
    <3>5. n.at # "lab"
      BY <1>1, <3>1
    <3> QED
      BY <3>2, <3>3, <3>4, <3>5 DEF Nears
  <2> QED
    BY <1>5, <2>1, <2>2
<1>6. ASSUME NEW v \in {"PASS", "FAIL"}, NEW m \in Nat, m < j.left,
             Set(p, Placed(p, [Judged(p, j, v, TRUE) EXCEPT !.left = m]))
      PROVE  Nears(p)
  <2> DEFINE d == Judged(p, j, v, TRUE)
             x == [d EXCEPT !.left = m]
             n == Placed(p, x)
  <2>1. Fits(p, d) /\ Advanced(j, v, TRUE, d) /\ d.hop = 0
    BY <1>2, JudgedFits, JudgedHop DEF Verdict
  <2>2. d \in Job /\ d.kind = j.kind /\ ~d.candidate /\ ~d.refused
    BY <2>1 DEF Advanced, Fits
  <2> HIDE DEF d
  <2>3. x \in Job /\ x.kind = j.kind /\ ~x.candidate /\ ~x.refused /\ x.left = m /\ x.hop = 0
    BY <2>1, <2>2 DEF Job
  <2>4. Set(p, n)
    BY <1>6 DEF d
  <2> HIDE DEF x
  <2>5. /\ Fits(p, n) /\ n = [x EXCEPT !.at = n.at]
        /\ n.at \in {"over", "page", "register", "ask"}
    BY <1>2, <1>3, <2>3, PlacedFits
  <2> HIDE DEF n
  <2>6. n.left = m /\ n.hop = 0 /\ n \in Job
    <3>1. [x EXCEPT !.at = n.at].left = m /\ [x EXCEPT !.at = n.at].hop = 0
      BY ONLY <2>3 DEF Job
    <3> QED
      BY <2>5, <3>1 DEF Fits
  <2>7. Bounded(n) /\ JobLeft(n) \in 0..(JobLeft(j) - 1)
    BY <1>1, <1>2, <1>6, <2>5, <2>6, NearerByRequest
  <2> QED
    BY <2>4, <2>5, <2>6, <2>7 DEF Nears
<1>7. CASE \E v \in {"PASS", "FAIL"} :
             LET d == Judged(p, j, v, TRUE) IN
             IF j.kind # "discover" /\ "FAIL" \in d.got /\ d.left % Group(j.kind) = 0
             THEN Tell(j, "failed")
             ELSE /\ \E n \in Found(j) : Set(p, Placed(p, [d EXCEPT !.left = n]))
                  /\ UNCHANGED <<told, agent, cancel>>
  <2>1. CASE Tell(j, "failed")
    BY <1>4, <2>1
  <2>2. ASSUME NEW v \in {"PASS", "FAIL"}, NEW n \in Found(j),
               Set(p, Placed(p, [Judged(p, j, v, TRUE) EXCEPT !.left = n]))
        PROVE  Nears(p)
    <3>1. n \in Nat /\ n < j.left
      BY <1>2, VisitAssumption DEF Found
    <3> QED
      BY <1>6, <2>2, <3>1
  <2> QED
    BY <1>7, <2>1, <2>2
<1>8. CASE Set(p, Judged(p, j, "FAIL", TRUE))
  <2>1. "FAIL" \in Verdict /\ TRUE \in BOOLEAN
    BY DEF Verdict
  <2> QED
    BY <1>1, <1>8, <2>1, JudgedNears
<1>9. CASE Tell(j, "failed")
  BY <1>4, <1>9
<1> QED
  BY <1>5, <1>7, <1>8, <1>9 DEF AskFetch

\* A place on the way to the end, from another.
LEMMA WayNears ==
  ASSUME Basics, Hops, NEW p \in Process,
         NEW s \in Filing \cup Look, NEW c \in BOOLEAN,
         PlaceLeft(s) < PlaceLeft(job[p].at),
         \/ Set(p, [job[p] EXCEPT !.at = s])
         \/ Set(p, [job[p] EXCEPT !.at = s, !.candidate = c])
  PROVE  Nears(p)
<1>1. job[p] \in Job
  BY JobFacts
<1>2. s # "lab"
  BY DEF Filing, Look
<1>3. ASSUME NEW d, Set(p, d), d \in {[job[p] EXCEPT !.at = s], [job[p] EXCEPT !.at = s, !.candidate = c]}
      PROVE  Nears(p)
  <2>1. d \in Job /\ d.at = s /\ d.left = job[p].left /\ d.hop = job[p].hop
    BY <1>1, <1>3 DEF Job
  <2> QED
    BY <1>2, <1>3, <2>1, PlaceNears
<1> QED
  BY <1>3

LEMMA ConcludeNears == ASSUME Basics, Hops, Conclude PROVE Nears(Console)
<1>1. job[Console].at = "over" /\ Console \in Process
  BY Processes DEF Conclude
<1>2. CASE \E s : Tell(job[Console], s)
  BY <1>1, <1>2, EndNears DEF Tell
<1>3. CASE Set(Console, [job[Console] EXCEPT !.at = "file", !.candidate = TRUE])
  <2>1. PlaceLeft("file") = 5 /\ PlaceLeft(job[Console].at) = 6
    BY <1>1, PlaceLeftIs
  <2>2. PlaceLeft("file") < PlaceLeft(job[Console].at)
    BY ONLY <2>1
  <2>3. "file" \in Filing \cup Look /\ TRUE \in BOOLEAN
    BY DEF Filing
  <2> QED
    BY <1>1, <1>3, <2>2, <2>3, WayNears
<1> QED
  BY <1>2, <1>3 DEF Conclude

LEMMA FileNears == ASSUME Basics, Hops, File PROVE Nears(Console)
<1> DEFINE j == job[Console]
<1>1. Console \in Process
  BY Processes
<1>2. ASSUME NEW from, NEW s \in Filing \cup Look, j.at = from, Set(Console, [j EXCEPT !.at = s]),
             PlaceLeft(s) < PlaceLeft(from)
      PROVE  Nears(Console)
  BY <1>1, <1>2, WayNears
<1>3. \/ j.at = "file" /\ Set(Console, [j EXCEPT !.at = "insert"])
      \/ j.at = "file" /\ Set(Console, [j EXCEPT !.at = "note"])
      \/ j.at = "note" /\ Set(Console, [j EXCEPT !.at = "insert"])
      \/ j.at = "insert" /\ Set(Console, [j EXCEPT !.at = "mark"])
      \/ j.at = "mark" /\ Set(Console, NoJob)
  BY DEF File, Tell
<1>4. {"note", "insert", "mark"} \subseteq Filing \cup Look
  BY DEF Filing
<1>5. /\ PlaceLeft("insert") < PlaceLeft("file") /\ PlaceLeft("note") < PlaceLeft("file")
      /\ PlaceLeft("insert") < PlaceLeft("note") /\ PlaceLeft("mark") < PlaceLeft("insert")
  <2>1. /\ PlaceLeft("file") = 5 /\ PlaceLeft("note") = 4 /\ PlaceLeft("insert") = 3
        /\ PlaceLeft("mark") = 2
    BY PlaceLeftIs, Zenon
  <2> QED
    BY ONLY <2>1
<1>6. j.at = "mark" /\ Set(Console, NoJob) => Nears(Console)
  BY <1>1, EndNears
<1> HIDE DEF j
<1> QED
  BY <1>2, <1>3, <1>4, <1>5, <1>6

\* The stages of a detection come in their order.
LEMMA DetectNears == ASSUME Basics, Hops, DetectStep PROVE Nears(Console)
<1> DEFINE On(from, to) == job[Console].at = from /\ Onward(to)
<1>1. Console \in Process /\ job[Console].at # "idle"
  <2>1. job[Console].kind = "detect" /\ Fits(Console, job[Console])
    BY DetectMoves, JobFacts, Processes
  <2> QED
    BY <2>1, Processes DEF Fits
<1>2. \A s : UnlessCancelled(s) => Show("cancelled") \/ Onward(s)
  BY DEF UnlessCancelled
<1>3. \/ On("precheck", "open") \/ On("open", "begin") \/ On("begin", "probe")
      \/ On("probe", "discover") \/ On("discover", "check") \/ On("check", "store")
      \/ On("store", "complete")
      \/ \E s \in {"completed", "cancelled", "failed"} : Show(s)
  BY <1>2 DEF DetectStep, Precheck, OpenRun, BeginRun, ProbeEntry, Discover, Check, WriteReport,
              Complete, Fail, Detecting
<1>4. ASSUME NEW from, NEW to \in Look, PlaceLeft(to) < PlaceLeft(from), On(from, to)
      PROVE  Nears(Console)
  BY <1>1, <1>4, WayNears DEF Onward
<1>5. ASSUME NEW s, Show(s) PROVE Nears(Console)
  BY <1>1, <1>5, EndNears DEF Show
<1>6. {"open", "begin", "probe", "discover", "check", "store", "complete"} \subseteq Look
  BY DEF Look
<1>7. /\ PlaceLeft("open") < PlaceLeft("precheck") /\ PlaceLeft("begin") < PlaceLeft("open")
      /\ PlaceLeft("probe") < PlaceLeft("begin") /\ PlaceLeft("discover") < PlaceLeft("probe")
      /\ PlaceLeft("check") < PlaceLeft("discover") /\ PlaceLeft("store") < PlaceLeft("check")
      /\ PlaceLeft("complete") < PlaceLeft("store")
  <2>1. /\ PlaceLeft("precheck") = 8 /\ PlaceLeft("open") = 7 /\ PlaceLeft("begin") = 6
        /\ PlaceLeft("probe") = 5 /\ PlaceLeft("discover") = 4 /\ PlaceLeft("check") = 3
        /\ PlaceLeft("store") = 2 /\ PlaceLeft("complete") = 1
    BY PlaceLeftIs, Zenon
  <2> QED
    BY ONLY <2>1
<1> HIDE DEF On
<1> QED
  BY <1>3, <1>4, <1>5, <1>6, <1>7

LEMMA EndRegressionNears == ASSUME Basics, Hops, EndRegression PROVE Nears(Shell)
<1> DEFINE n == [NoJob EXCEPT !.kind = "regression", !.at = "printed"]
<1>1. job[Shell].at = "over" /\ Set(Shell, n) /\ Shell \in Process
  BY Processes DEF EndRegression
<1>2. n \in Job /\ n.at = "printed"
  <2>1. Fits(Shell, n) /\ Sound(Shell, n)
    BY NewFits
  <2>2. n.at = "printed"
    BY DEF NoJob
  <2> HIDE DEF n
  <2> QED
    BY <2>1, <2>2 DEF Fits
<1>3. n.left = 0 /\ n.hop = 0 /\ MaxHops \in Nat \ {0}
  BY VisitAssumption DEF NoJob
<1>4. Bounded(n)
  BY <1>3 DEF Bounded
<1> DEFINE j == job[Shell]
           k == (7 + MaxHops) * j.left
           h == IF j.left = 0 THEN 0 ELSE MaxHops - j.hop
           z == (7 + MaxHops) * 0
<1>5. JobLeft(j) = (k + PlaceLeft(j.at)) + h /\ k \in Nat /\ h \in Nat
  BY <1>3, JobFacts, JobLeftType, Processes DEF JobLeft
<1>6. PlaceLeft("printed") = 1 /\ PlaceLeft(j.at) = 6
  BY <1>1, PlaceLeftIs
<1>7. z = 0
  BY <1>3
<1> HIDE DEF n
<1>8. JobLeft(n) = (z + PlaceLeft("printed")) + 0
  BY <1>2, <1>3 DEF JobLeft
<1> HIDE DEF j, k, h, z
<1>9. JobLeft(n) \in 0..(JobLeft(j) - 1)
  BY ONLY <1>5, <1>6, <1>7, <1>8
<1> QED
  BY <1>1, <1>2, <1>4, <1>9 DEF Nears, j

LEMMA ShellExitsNears == ASSUME Basics, Hops, ShellExits PROVE Nears(Shell)
<1>1. job[Shell].at # "idle" /\ Set(Shell, NoJob) /\ Shell \in Process
  BY Processes DEF ShellExits
<1> QED
  BY <1>1, EndNears

\* What a process has left after a step, while the lab stays the same.
Coming(p, j) == j.at = "lab" /\ j.kind = "regression"

LEMMA WorkLeftIs ==
  ASSUME NEW p
  PROVE  WorkLeft(p) = (JobLeft(job[p]) + CallLeft[call[p].at])
                         + (IF Coming(p, job[p]) THEN JobLeft(Start(p, "regression")) ELSE 0)
BY DEF WorkLeft, ToCome, Coming

LEMMA WorkLeftAfter ==
  ASSUME lab' = lab, NEW p
  PROVE  WorkLeft(p)' = (JobLeft(job'[p]) + CallLeft[call'[p].at])
                          + (IF Coming(p, job'[p]) THEN JobLeft(Start(p, "regression")) ELSE 0)
<1>1. Start(p, "regression")' = Start(p, "regression")
  BY DEF Start, Placed, Items, Auth, CaseAt, CasesOf
<1>2. JobLeft(job[p])' = JobLeft(job'[p])
  BY DEF JobLeft, PlaceLeft
<1>3. JobLeft(Start(p, "regression"))' = JobLeft(Start(p, "regression")')
  BY DEF JobLeft, PlaceLeft
<1>4. Coming(p, job[p])' <=> Coming(p, job'[p])
  BY DEF Coming
<1>5. CallLeft[call[p].at]' = CallLeft[call'[p].at]
  BY DEF CallLeft
<1>6. WorkLeft(p)' = (JobLeft(job[p])' + CallLeft[call[p].at]')
                       + (IF Coming(p, job[p])' THEN JobLeft(Start(p, "regression"))' ELSE 0)
  BY DEF WorkLeft, ToCome, Coming
<1> QED
  BY <1>1, <1>2, <1>3, <1>4, <1>5, <1>6

LEMMA CallLeftType ==
  ASSUME NEW c \in Call PROVE CallLeft[c.at] \in Nat
BY CallLeftIs DEF Call

\* What moves a process, as the property says it; and the next hops stay within bounds.
Shrinks(p) == Bounded(job'[p]) /\ WorkLeft(p)' \in 0..(WorkLeft(p) - 1)

LEMMA WorkLeftType ==
  ASSUME Basics, Operations, Hops, NEW p \in Process
  PROVE  /\ JobLeft(job[p]) \in Nat /\ CallLeft[call[p].at] \in Nat
         /\ (IF Coming(p, job[p]) THEN JobLeft(Start(p, "regression")) ELSE 0) \in Nat
         /\ Coming(p, job[p]) => Bounded(Start(p, "regression")) /\ Start(p, "regression") \in Job
                                   /\ Start(p, "regression").at # "lab"
                                   /\ JobLeft(Start(p, "regression")) >= 1
<1>1. JobLeft(job[p]) \in Nat
  BY JobFacts, JobLeftType
<1>2. CallLeft[call[p].at] \in Nat
  BY CallLeftType DEF Operations
<1>3. ASSUME Coming(p, job[p])
      PROVE  /\ Bounded(Start(p, "regression")) /\ Start(p, "regression") \in Job
             /\ Start(p, "regression").at # "lab"
             /\ JobLeft(Start(p, "regression")) >= 1 /\ JobLeft(Start(p, "regression")) \in Nat
  <2> DEFINE s == Start(p, "regression")
  <2>1. lab \in Inventory /\ "regression" \in Tool
    BY DEF Basics, Plain, ManagerTypeOK, Tool, Session
  <2>2. /\ Fits(p, s) /\ s.kind = "regression"
        /\ s = [NoJob EXCEPT !.kind = "regression", !.left = Items(p, "regression"), !.at = s.at]
    BY <2>1, StartFits
  <2>3. s = Placed(p, [NoJob EXCEPT !.kind = "regression", !.left = Items(p, "regression")])
    BY DEF Start
  <2>4. s.at \in {"over", "page", "register", "ask"}
    BY <2>3 DEF Placed, Opening, NoJob
  <2> HIDE DEF s
  <2>5. s.hop = 0
    BY ONLY <2>2 DEF NoJob
  <2>6. Bounded(s) /\ s \in Job
    BY <2>2, <2>5, VisitAssumption DEF Bounded, Fits
  <2>7. JobLeft(s) \in Nat /\ JobLeft(s) >= 1
    BY <2>4, <2>6, JobLeftType
  <2> QED
    BY <2>4, <2>6, <2>7 DEF s
<1> QED
  BY <1>1, <1>2, <1>3

LEMMA NearsShrinks ==
  ASSUME Basics, Operations, Hops, lab' = lab, call' = call, NEW p \in Process, Nears(p)
  PROVE  Shrinks(p) /\ \A q \in Process : q # p => job'[q] = job[q]
<1>1. PICK d \in Job : /\ Set(p, d) /\ d.at # "lab" /\ Bounded(d)
                       /\ JobLeft(d) \in 0..(JobLeft(job[p]) - 1)
  BY DEF Nears
<1>2. job \in [Process -> Job]
  BY DEF Basics, Jobs
<1>3. job'[p] = d /\ \A q \in Process : q # p => job'[q] = job[q]
  BY <1>1, <1>2 DEF Set
<1> DEFINE n == CallLeft[call[p].at]
           t == IF Coming(p, job[p]) THEN JobLeft(Start(p, "regression")) ELSE 0
<1>4. WorkLeft(p) = (JobLeft(job[p]) + n) + t
  BY WorkLeftIs
<1>5. WorkLeft(p)' = (JobLeft(d) + n) + 0
  <2>1. ~Coming(p, d)
    BY <1>1 DEF Coming
  <2> QED
    BY <1>3, <2>1, WorkLeftAfter
<1>6. JobLeft(job[p]) \in Nat /\ n \in Nat /\ t \in Nat
  BY WorkLeftType
<1> DEFINE x == JobLeft(d)
           y == JobLeft(job[p])
<1>7. x \in 0..(y - 1)
  BY <1>1
<1> HIDE DEF n, t, x, y
<1>8. (x + n) + 0 \in 0..(((y + n) + t) - 1)
  BY ONLY <1>6, <1>7 DEF y
<1>9. WorkLeft(p)' \in 0..(WorkLeft(p) - 1)
  BY <1>4, <1>5, <1>8 DEF x, y
<1> QED
  BY <1>1, <1>3, <1>9 DEF Shrinks

\* A call of operate() goes on to what is left of it.
LEMMA CallShrinks ==
  ASSUME Basics, Operations, Hops, lab' = lab, job' = job, NEW p \in Process, CallStep(p)
  PROVE  Shrinks(p) /\ \A q \in Process : q # p => call'[q] = call[q]
<1>1. call \in [Process -> Call] /\ call[p] \in Call
  BY DEF Operations
<1>2. \/ call[p].at = "remove" /\ call' = [call EXCEPT ![p].at = "command"]
      \/ call[p].at = "command" /\ call' = [call EXCEPT ![p].at = "wait"]
      \/ call[p].at \in {"remove", "command", "wait"}
           /\ \E s : call' = [call EXCEPT ![p].at = "idle", ![p].status = s]
  BY DEF CallStep, Remove, RunCommand, WaitHealth, Return
<1>3. /\ \/ call[p].at = "remove" /\ call'[p].at = "command"
         \/ call[p].at = "command" /\ call'[p].at = "wait"
         \/ call[p].at \in {"remove", "command", "wait"} /\ call'[p].at = "idle"
      /\ \A q \in Process : q # p => call'[q] = call[q]
  BY <1>1, <1>2 DEF Call
<1> DEFINE x == CallLeft[call'[p].at]
           n == CallLeft[call[p].at]
           t == IF Coming(p, job[p]) THEN JobLeft(Start(p, "regression")) ELSE 0
           y == JobLeft(job[p])
<1>4. x \in 0..(n - 1) /\ n \in Nat
  <2>1. \/ n = 3 /\ x = 2
        \/ n = 2 /\ x = 1
        \/ n \in {1, 2, 3} /\ x = 0
    BY <1>3, CallLeftIs, Zenon
  <2> QED
    BY ONLY <2>1
<1>5. WorkLeft(p) = (y + n) + t
  BY WorkLeftIs
<1>6. WorkLeft(p)' = (y + x) + t
  BY WorkLeftAfter
<1>7. y \in Nat /\ t \in Nat
  BY WorkLeftType
<1> HIDE DEF n, t, x, y
<1>8. (y + x) + t \in 0..(((y + n) + t) - 1)
  BY ONLY <1>4, <1>7
<1>9. Bounded(job'[p])
  BY JobFacts
<1> QED
  BY <1>3, <1>5, <1>6, <1>8, <1>9 DEF Shrinks

\* The operation is behind it, whatever is still before it.
LEMMA LeaveShrinks ==
  ASSUME Basics, Operations, Hops, lab' = lab, NEW p \in Process, NEW d \in Job,
         Set(p, d), call' = [call EXCEPT ![p] = NoCall], d.at # "lab", Bounded(d),
         JobLeft(d) < JobLeft(job[p])
                        + (IF Coming(p, job[p]) THEN JobLeft(Start(p, "regression")) ELSE 0)
  PROVE  Shrinks(p) /\ \A q \in Process : q # p => job'[q] = job[q] /\ call'[q] = call[q]
<1>1. job \in [Process -> Job] /\ call \in [Process -> Call]
  BY DEF Basics, Jobs, Operations
<1>2. /\ job'[p] = d /\ call'[p] = NoCall
      /\ \A q \in Process : q # p => job'[q] = job[q] /\ call'[q] = call[q]
  BY <1>1 DEF Set
<1> DEFINE x == JobLeft(d)
           n == CallLeft[call[p].at]
           t == IF Coming(p, job[p]) THEN JobLeft(Start(p, "regression")) ELSE 0
           y == JobLeft(job[p])
<1>3. WorkLeft(p) = (y + n) + t
  BY WorkLeftIs
<1>4. WorkLeft(p)' = (x + 0) + 0
  <2>1. ~Coming(p, d)
    BY DEF Coming
  <2>2. CallLeft[call'[p].at] = 0
    <3>1. call'[p].at = "idle"
      BY <1>2 DEF NoCall
    <3> QED
      BY <3>1, CallLeftIs
  <2> QED
    BY <1>2, <2>1, <2>2, WorkLeftAfter
<1>5. y \in Nat /\ n \in Nat /\ t \in Nat /\ x \in Nat
  BY WorkLeftType, JobLeftType
<1>6. x < y + t
  OBVIOUS
<1> HIDE DEF n, t, x, y
<1>7. (x + 0) + 0 \in 0..(((y + n) + t) - 1)
  BY ONLY <1>5, <1>6
<1>8. WorkLeft(p)' \in 0..(WorkLeft(p) - 1)
  BY <1>3, <1>4, <1>7
<1> QED
  BY <1>2, <1>8 DEF Shrinks

LEMMA ReturnedShrinks ==
  ASSUME Basics, Operations, Hops, NEW p \in Process, Returned(p)
  PROVE  Shrinks(p) /\ \A q \in Process : q # p => job'[q] = job[q] /\ call'[q] = call[q]
<1> DEFINE s == Start(p, "regression")
           t == IF Coming(p, job[p]) THEN JobLeft(s) ELSE 0
           y == JobLeft(job[p])
<1>1. /\ job[p].at = "lab" /\ lab' = lab /\ call' = [call EXCEPT ![p] = NoCall]
      /\ job[p] \in Job /\ Bounded(job[p])
  BY JobFacts DEF Returned, At
<1>2. y \in Nat /\ y >= 1 /\ t \in Nat
  BY <1>1, WorkLeftType, JobLeftType
<1>3. CASE job[p].kind = "regression" /\ Set(p, s)
  <2>1. Coming(p, job[p])
    BY <1>1, <1>3 DEF Coming
  <2>2. s \in Job /\ Bounded(s) /\ s.at # "lab" /\ t = JobLeft(s)
    BY <2>1, WorkLeftType
  <2>3. JobLeft(s) < y + t
    BY ONLY <1>2, <2>2
  <2> QED
    BY <1>1, <1>3, <2>2, <2>3, LeaveShrinks
<1>4. CASE job[p].kind = "regression" /\ Set(p, [job[p] EXCEPT !.at = "printed"])
  <2> DEFINE d == [job[p] EXCEPT !.at = "printed"]
  <2>1. /\ d \in Job /\ d.at = "printed" /\ d.left = job[p].left /\ d.hop = job[p].hop
    BY <1>1 DEF Job
  <2>2. Set(p, d)
    BY <1>4
  <2> HIDE DEF d
  <2>3. Coming(p, job[p]) /\ JobLeft(s) >= 1 /\ t = JobLeft(s)
    BY <1>1, <1>4, WorkLeftType DEF Coming
  <2>4. PlaceLeft(d.at) = 1 /\ PlaceLeft(job[p].at) = 1
    BY <1>1, <2>1, PlaceLeftIs
  <2>5. JobLeft(d) = y
    BY <2>1, <2>4 DEF JobLeft
  <2>6. JobLeft(d) < y + t
    BY ONLY <1>2, <2>3, <2>5
  <2>7. Bounded(d) /\ d.at # "lab"
    BY <1>1, <2>1 DEF Bounded
  <2> QED
    BY <1>1, <2>1, <2>2, <2>6, <2>7, LeaveShrinks
<1>5. CASE Set(p, NoJob)
  <2>1. NoJob \in Job /\ Bounded(NoJob) /\ JobLeft(NoJob) = 0 /\ NoJob.at # "lab"
    BY <1>1, NearerByEnd DEF NoJob
  <2>2. JobLeft(NoJob) < y + t
    BY ONLY <1>2, <2>1
  <2> QED
    BY <1>1, <1>5, <2>1, <2>2, LeaveShrinks
<1> QED
  BY <1>3, <1>4, <1>5 DEF Returned

LEMMA ExitShrinks ==
  ASSUME Basics, Operations, Hops, ConsoleExits
  PROVE  Shrinks(Console) /\ \A q \in Process : q # Console => job'[q] = job[q] /\ call'[q] = call[q]
<1> DEFINE t == IF Coming(Console, job[Console]) THEN JobLeft(Start(Console, "regression")) ELSE 0
           y == JobLeft(job[Console])
<1>1. /\ lab' = lab /\ call' = [call EXCEPT ![Console] = NoCall] /\ Set(Console, NoJob)
      /\ Console \in Process /\ ~Idle(Console)
  BY Processes DEF ConsoleExits
<1>2. job[Console] \in Job /\ Bounded(job[Console]) /\ job[Console].at # "idle"
  BY <1>1, JobFacts DEF Idle, Fits
<1>3. y \in Nat /\ y >= 1 /\ t \in Nat
  BY <1>1, <1>2, WorkLeftType, JobLeftType
<1>4. NoJob \in Job /\ Bounded(NoJob) /\ JobLeft(NoJob) = 0 /\ NoJob.at # "lab"
  BY <1>2, NearerByEnd DEF NoJob
<1>5. JobLeft(NoJob) < y + t
  BY ONLY <1>3, <1>4
<1> QED
  BY <1>1, <1>4, <1>5, LeaveShrinks

\* Every step of a process takes it nearer its end and leaves the other where it is.
LEMMA StepShrinks ==
  ASSUME Basics, Operations, Hops, NEW p \in Process, Step(p)
  PROVE  Shrinks(p) /\ \A q \in Process : q # p => job'[q] = job[q] /\ call'[q] = call[q]
<1>1. CASE CallStep(p) /\ UNCHANGED <<made, job, task, probed, score>>
  <2>1. lab' = lab /\ job' = job
    BY <1>1 DEF CallStep
  <2> QED
    BY <1>1, <2>1, CallShrinks
<1>2. CASE Returned(p)
  BY <1>2, ReturnedShrinks
<1>3. ASSUME Nears(p), lab' = lab, call' = call
      PROVE  Shrinks(p) /\ \A q \in Process : q # p => job'[q] = job[q] /\ call'[q] = call[q]
  BY <1>3, NearsShrinks
<1>4. CASE ToolStep(p)
  <2>1. Nears(p)
    BY <1>4, RefuseNears, LogInNears, AskCaseNears, AskFetchNears, BlockedNears DEF ToolStep, Withhold
  <2>2. lab' = lab /\ call' = call
    BY <1>4 DEF ToolStep, Refuse, Withhold, LogIn, AskCase, AskFetch
  <2> QED
    BY <1>3, <2>1, <2>2
<1>5. CASE p = Console /\ (Conclude \/ File \/ DetectStep)
  <2>1. Nears(p)
    BY <1>5, ConcludeNears, FileNears, DetectNears
  <2>2. lab' = lab /\ call' = call
    BY <1>5 DEF Conclude, File, DetectStep
  <2> QED
    BY <1>3, <2>1, <2>2
<1>6. CASE p = Shell /\ (EndRegression \/ ShellExits)
  <2>1. Nears(p)
    BY <1>6, EndRegressionNears, ShellExitsNears
  <2>2. lab' = lab /\ call' = call
    BY <1>6 DEF EndRegression, ShellExits, manager
  <2> QED
    BY <1>3, <2>1, <2>2
<1> QED
  BY <1>1, <1>2, <1>4, <1>5, <1>6 DEF Step

\* A process moves by a step of its own, by an exit, or when it begins something.
Moves(p) ==
  \/ Shrinks(p)
  \/ job'[p] = job[p] /\ call'[p] = call[p] /\ ~Step(p)
  \/ Idle(p) /\ Bounded(job'[p])

LEMMA NextMoves ==
  ASSUME Basics, Operations, Hops, [Next]_vars, NEW p \in Process
  PROVE  Moves(p)
<1>1. job \in [Process -> Job] /\ call \in [Process -> Call]
  BY DEF Basics, Jobs, Operations
<1>2. CASE Step(p)
  BY <1>2, StepShrinks DEF Moves
<1>3. CASE ~Step(p) /\ job'[p] = job[p] /\ call'[p] = call[p]
  BY <1>3 DEF Moves
<1>4. ASSUME NEW q \in Process, q # p, Step(q) PROVE job'[p] = job[p] /\ call'[p] = call[p]
  BY <1>4, StepShrinks
<1>5. ASSUME NEW q \in Process, Idle(q), NEW d, Set(q, d), d.hop = 0,
             \A r \in Process : r # q => call'[r] = call[r]
      PROVE  \/ job'[p] = job[p] /\ call'[p] = call[p]
             \/ Idle(p) /\ Bounded(job'[p])
  <2>1. CASE q = p
    <3>1. job'[p] = d /\ Bounded(d)
      BY <1>1, <1>5, <2>1, VisitAssumption DEF Set, Bounded
    <3> QED
      BY <1>5, <2>1, <3>1
  <2>2. CASE q # p
    BY <1>1, <1>5, <2>2 DEF Set
  <2> QED
    BY <2>1, <2>2
<1>6. ASSUME NEW q \in Process, NEW a, BeginOperation(q, a)
      PROVE  \/ job'[p] = job[p] /\ call'[p] = call[p]
             \/ Idle(p) /\ Bounded(job'[p])
  <2> DEFINE d == [NoJob EXCEPT !.kind = "operate", !.at = "lab"]
  <2>1. Idle(q) /\ Set(q, d) /\ \A r \in Process : r # q => call'[r] = call[r]
    BY <1>1, <1>6 DEF BeginOperation, Operate
  <2>2. d.hop = 0
    BY DEF NoJob
  <2> HIDE DEF d
  <2> QED
    BY <1>5, <2>1, <2>2
<1>7. ASSUME NEW k \in Tool, BeginTool(k)
      PROVE  \/ job'[p] = job[p] /\ call'[p] = call[p]
             \/ Idle(p) /\ Bounded(job'[p])
  <2>1. Idle(Console) /\ Console \in Process /\ call' = call /\ lab \in Inventory /\ Console # Shell
    BY <1>7, Processes DEF BeginTool, Basics, Plain, ManagerTypeOK
  <2>2. NoJob.hop = 0
    BY DEF NoJob
  <2>3. Start(Console, k).hop = 0
    <3> DEFINE s == Start(Console, k)
    <3>1. s = [NoJob EXCEPT !.kind = k, !.left = Items(Console, k), !.at = s.at]
      BY <2>1, StartFits
    <3> HIDE DEF s
    <3>2. s.hop = 0
      BY ONLY <3>1 DEF NoJob
    <3> QED
      BY <3>2 DEF s
  <2>4. Set(Console, Start(Console, k)) \/ Set(Console, NoJob)
    BY <1>7 DEF BeginTool, Tell
  <2> QED
    BY <1>5, <2>1, <2>2, <2>3, <2>4
<1>8. ASSUME BeginRegression
      PROVE  \/ job'[p] = job[p] /\ call'[p] = call[p]
             \/ Idle(p) /\ Bounded(job'[p])
  <2> DEFINE d == [NoJob EXCEPT !.kind = "regression", !.at = "lab"]
  <2>1. /\ Idle(Shell) /\ Set(Shell, d) /\ Shell \in Process
        /\ \A r \in Process : r # Shell => call'[r] = call[r]
    BY <1>1, <1>8, Processes DEF BeginRegression, Operate
  <2>2. d.hop = 0
    BY DEF NoJob
  <2> HIDE DEF d
  <2> QED
    BY <1>5, <2>1, <2>2
<1>9. ASSUME BeginDetection
      PROVE  \/ job'[p] = job[p] /\ call'[p] = call[p]
             \/ Idle(p) /\ Bounded(job'[p])
  <2> DEFINE d == [NoJob EXCEPT !.kind = "detect", !.at = "precheck"]
  <2>1. Idle(Console) /\ Set(Console, d) /\ Console \in Process /\ call' = call
    BY <1>9, Processes DEF BeginDetection, manager
  <2>2. d.hop = 0
    BY DEF NoJob
  <2> HIDE DEF d
  <2> QED
    BY <1>5, <2>1, <2>2
<1>10. ASSUME StartAgent \/ Cancel \/ Docker \/ UNCHANGED vars
       PROVE  job'[p] = job[p] /\ call'[p] = call[p]
  BY <1>10 DEF StartAgent, Cancel, Docker, vars, manager
<1>11. ASSUME ConsoleExits PROVE Moves(p) \/ (job'[p] = job[p] /\ call'[p] = call[p])
  BY <1>11, ExitShrinks DEF Moves
<1>12. \/ \E q \in Process : Step(q)
       \/ \E q \in Process, a \in {"start", "stop", "reset", "down"} : BeginOperation(q, a)
       \/ \E k \in Tool : BeginTool(k)
       \/ StartAgent \/ BeginRegression \/ BeginDetection
       \/ Cancel \/ ConsoleExits \/ Docker \/ UNCHANGED vars
  BY DEF Next
<1>13. \/ Moves(p)
       \/ job'[p] = job[p] /\ call'[p] = call[p]
       \/ Idle(p) /\ Bounded(job'[p])
  BY <1>2, <1>4, <1>6, <1>7, <1>8, <1>9, <1>10, <1>11, <1>12
<1> QED
  BY <1>2, <1>3, <1>13 DEF Moves

LEMMA HopsStep == Basics /\ Operations /\ Hops /\ [Next]_vars => Hops'
<1> SUFFICES ASSUME Basics, Operations, Hops, [Next]_vars PROVE Hops'
  OBVIOUS
<1>1. ASSUME NEW p \in Process PROVE Bounded(job'[p])
  BY NextMoves DEF Moves, Shrinks, Hops
<1>2. ASSUME NEW p \in Process PROVE Bounded(job[p])'
  BY <1>1 DEF Bounded
<1> QED
  BY <1>2 DEF Hops

LEMMA HopsInit == Init => Hops
<1> SUFFICES ASSUME Init, NEW p \in Process PROVE Bounded(job[p])
  BY DEF Hops
<1>1. job[p].hop = 0
  BY DEF Init, NoJob
<1> QED
  BY <1>1, VisitAssumption DEF Bounded

LEMMA WorkStep ==
  Basics /\ Operations /\ Hops /\ [Next]_vars =>
    \A p \in Process :
      \/ Idle(p)
      \/ UNCHANGED <<job[p], call[p]>> /\ ~Step(p)
      \/ WorkLeft(p)' \in 0..(WorkLeft(p) - 1)
<1> SUFFICES ASSUME Basics, Operations, Hops, [Next]_vars, NEW p \in Process
             PROVE  \/ Idle(p)
                    \/ UNCHANGED <<job[p], call[p]>> /\ ~Step(p)
                    \/ WorkLeft(p)' \in 0..(WorkLeft(p) - 1)
  OBVIOUS
<1>1. Moves(p)
  BY NextMoves
<1>2. CASE job'[p] = job[p] /\ call'[p] = call[p] /\ ~Step(p)
  <2>1. UNCHANGED <<job[p], call[p]>>
    BY <1>2
  <2> QED
    BY <1>2, <2>1
<1> QED
  BY <1>1, <1>2 DEF Moves, Shrinks

\* Each step of a tool, of a detection, of an operation or of the operator's regression
\* leaves its process less to do, whatever the labs answer, docker does and the other
\* process begins; and nothing else gives it more.  With NeverStuck, which TLC checks, what
\* a process has begun comes to an end if the process goes on.
THEOREM VisitsRunOut == Spec => WorkRunsOut
<1>1. Basics /\ Operations /\ Hops /\ [Next]_vars =>
        [\A p \in Process : \/ Idle(p)
                            \/ UNCHANGED <<job[p], call[p]>> /\ ~Step(p)
                            \/ WorkLeft(p)' \in 0..(WorkLeft(p) - 1)]_vars
  BY WorkStep
<1> QED
  BY <1>1, HopsInit, HopsStep, BasicsAlways, PTL DEF Spec, WorkRunsOut
=============================================================================
