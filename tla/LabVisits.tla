------------------------------- MODULE LabVisits -------------------------------
(***************************************************************************)
(* Who visits a lab: in the dashboard's process the tools of one agent     *)
(* task (agent_actions.py with run_agent_regression and                    *)
(* run_agent_dvwa_controls of local_regression.py) and detections          *)
(* (dashboard_detection.py), in a shell the operator's regression          *)
(* (run_regression), and in both the operations of LabManager.             *)
(*                                                                         *)
(* The dashboard does one thing at a time with a lab (OneActsOnLab of      *)
(* LabControl); nothing keeps the shell from it.  A request is one step:   *)
(* the gates, the count and the answer.  What a page says is reduced to    *)
(* what the code makes of it.  Writes to the disk and the database         *)
(* succeed; a task cut off by an exit is not taken up again here (that is  *)
(* AgentRunner).                                                           *)
(***************************************************************************)
EXTENDS LabManager, Sequences

CONSTANTS
  Policy,       \* config/validation/local_only.json: its hosts and ports
  Cases,        \* Cases[id]: the cases of a lab, in the order of local_regression_cases.json
  Objects,      \* objects of the authorization matrix
  MaxRequests,  \* the task's Limits.max_requests
  MaxHops,      \* requests of one fetch, redirects included
  MaxScripts,   \* scripts that discover_surface reads
  Choice,       \* Choice[id]: the tools a task on a lab may choose (bound)
  Rounds,       \* rounds of the operator's regression
  Word,         \* what an answer may contain; "surface" only behind a login
  Location,     \* where a redirect may lead
  Nowhere       \* no redirect

-----------------------------------------------------------------------------
(***************************************************************************)
(* The cases of the regression.                                            *)
(***************************************************************************)
MAX_CASES == 64
AllowedAuth == {"none", "dvwa-default", "webgoat-synthetic"}

\* safe_case_path: a path of the lab itself, its query kept apart.
SafePath(x) == x.absolute /\ ~x.external /\ ~x.climbs /\ ~x.query

\* _validate_expected
ValidExpected(e) ==
  /\ e.status_in # {} \/ e.contains # {} \/ e.lacks # {}
  /\ e.status_in \subseteq 100..599 /\ Cardinality(e.status_in) <= 10

ValidCase(c) ==
  /\ c.kind \in {"public-surface", "auth-boundary", "authenticated-surface", "safe-reflection"}
  /\ c.method \in {"GET", "POST"} /\ c.auth \in AllowedAuth
  /\ SafePath(c.path) /\ ValidExpected(c.expected) /\ ~c.destructive

\* The places of the inventory's cases: a lab, and a number.
Places(cs) == UNION {{<<id, i>> : i \in DOMAIN cs[id]} : id \in DOMAIN cs}

\* load_regression_cases
ValidCases(cs) ==
  /\ Cardinality(Places(cs)) \in 1..MAX_CASES
  /\ \A x, y \in Places(cs) : cs[x[1]][x[2]].case_id = cs[y[1]][y[2]].case_id => x = y
  /\ \A x \in Places(cs) : ValidCase(cs[x[1]][x[2]])

\* The cases of the shipped inventory look for what is behind the login they use.
ASSUME VisitAssumption ==
  /\ ValidCases(Cases)
  /\ \A s \in Inventory :
       /\ s.lab_id \in DOMAIN Cases /\ Len(Cases[s.lab_id]) \in Nat \ {0}
       /\ DOMAIN Cases[s.lab_id] = 1..Len(Cases[s.lab_id])
  /\ \A x \in Places(Cases) :
       LET c == Cases[x[1]][x[2]] IN c.auth # "none" => "surface" \in c.expected.contains
  /\ Nowhere \notin Location
  /\ Objects \in Nat \ {0} /\ Rounds \in Nat \ {0} /\ MaxHops \in Nat \ {0}
  /\ MaxRequests \in Nat /\ MaxScripts \in Nat

VARIABLES
  made,    \* does the lab's database exist; it outlives the container
  job,     \* job[p]: what process p is doing
  agent,   \* the agent task: none, active or over
  used,    \* tools it has used
  spent,   \* requests its client has counted
  sent,    \* history: requests it has made
  told,    \* what its last tool told it
  filed,   \* its run in the store
  run,     \* status of the run of the latest detection
  report,  \* has that run a report
  shown,   \* what the dashboard shows of the latest detection
  cut,     \* history: the process exited during it
  score    \* what the operator's regression printed

task   == <<agent, used, spent, sent, told, filed>>
probed == <<run, report, shown, cut>>
vars   == <<manager, made, job, task, probed, score>>

-----------------------------------------------------------------------------
Session == {"regression", "controls"}
Fetch   == {"headers", "schema", "compare", "matrix", "discover"}
Tool    == Session \cup Fetch
Kind    == Tool \cup {"none", "operate", "detect"}
Login   == {"page", "login", "setup", "create", "page again", "login again",
            "register", "join", "start"}
Filing  == {"file", "note", "insert", "mark"}
Look    == {"precheck", "open", "begin", "probe", "discover", "check", "store", "complete"}
Verdict == {"PASS", "FAIL", "BLOCKED_SCOPE", "BLOCKED_DEPENDENCY"}
Refusal == {"cancelled", "scope_blocked", "request_limit"}
Profile == {"COMPLETED", "PARTIAL", "BLOCKED_DEPENDENCY"}

\* left: requests it has still to make for itself; sess: the container that
\* knows its session; out: a redirect led elsewhere; got: verdicts so far; good: history, how many passed.
Job  == [kind : Kind, at : Login \cup Filing \cup Look \cup {"idle", "lab", "ask", "over", "printed"},
         left : Nat, hop : Nat, sess : 0..MaxBorn, out : BOOLEAN,
         got : SUBSET Verdict, good : Nat, refused : BOOLEAN, candidate : BOOLEAN]
Told == [kind : Tool \cup {"none"}, status : Profile \cup Refusal \cup {"none", "failed"},
         good : Nat, refused : BOOLEAN, candidate : BOOLEAN]

TypeOK ==
  /\ ManagerTypeOK
  /\ made \in BOOLEAN /\ job \in [Process -> Job]
  /\ agent \in {"none", "active", "over"}
  /\ used \subseteq Tool /\ spent \in Nat /\ sent \in Nat /\ told \in Told
  /\ filed \in [run : {"none", "created", "review"}, noted : BOOLEAN, found : BOOLEAN]
  /\ run \in {"none", "created", "running", "blocked_dependency", "cancelled", "completed", "failed"}
  /\ report \in BOOLEAN /\ shown \in {"none", "completed", "cancelled", "failed"} /\ cut \in BOOLEAN
  /\ score \in [status : Profile \cup {"none", "failed"}, good : Nat]

NoJob  == [kind |-> "none", at |-> "idle", left |-> 0, hop |-> 0, sess |-> 0, out |-> FALSE,
           got |-> {}, good |-> 0, refused |-> FALSE, candidate |-> FALSE]
NoWord == [kind |-> "none", status |-> "none", good |-> 0, refused |-> FALSE, candidate |-> FALSE]
NoScore == [status |-> "none", good |-> 0]
NoFile == [run |-> "none", noted |-> FALSE, found |-> FALSE]

Init ==
  /\ ManagerInit
  /\ made = FALSE /\ job = [p \in Process |-> NoJob]
  /\ agent = "none" /\ used = {}
  /\ spent = 0 /\ sent = 0 /\ told = NoWord /\ filed = NoFile
  /\ run = "none" /\ report = FALSE /\ shown = "none" /\ cut = FALSE
  /\ score = NoScore

-----------------------------------------------------------------------------
Idle(p)    == job[p].kind = "none"
Set(p, j)  == job' = [job EXCEPT ![p] = j]
At(p, s)   == job[p].at = s /\ ~Calling(p)
Running    == box.state = "running"
Ready      == "READY" \in Seen(box)
CasesOf    == Cases[lab.lab_id]

\* RuntimePolicy.decide_url; "safe" stands for a url without credentials or
\* control characters.
PolicyAllows(u) ==
  /\ u.safe /\ u.scheme \in {"http", "https"}
  /\ u.host \in Policy.hosts /\ u.port \in Policy.ports
Entry == [scheme |-> lab.health_url.scheme, host |-> lab.host, port |-> lab.host_port, safe |-> TRUE]

\* What GuardedHTTP keeps to.
SameOrigin(u) ==
  u.safe /\ u.scheme = "http" /\ u.host = "127.0.0.1" /\ u.port = lab.host_port

\* LocalActions.capabilities, for a local assessment.
Capabilities ==
  {"headers", "discover", "regression"}
    \cup (IF lab.lab_id \in {"vampi", "business-api"} THEN {"schema"} ELSE {})
    \cup (IF lab.lab_id = "business-api" THEN {"compare", "matrix"} ELSE {})
    \cup (IF lab.lab_id = "dvwa" THEN {"controls"} ELSE {})

\* The requests a tool makes for itself, logins and redirects apart.
Items(p, k) ==
  CASE k = "regression" -> Len(CasesOf) * (IF p = Shell THEN Rounds ELSE 1)
    [] k = "controls"   -> 4
    [] k = "compare"    -> 3
    [] k = "matrix"     -> 3 * Objects
    [] k = "discover"   -> 1 + MaxScripts
    [] OTHER            -> 1

\* How the next of them logs in: every case does, and the controls do once.
CaseAt(p, left) == CasesOf[((Items(p, "regression") - left) % Len(CasesOf)) + 1]
Auth(p, k, left) ==
  CASE k = "regression"            -> CaseAt(p, left).auth
    [] k = "controls" /\ left = 4  -> "dvwa-default"
    [] OTHER                       -> "none"

Opening(auth) ==
  CASE auth = "dvwa-default" -> "page" [] auth = "webgoat-synthetic" -> "register" [] OTHER -> "ask"

Placed(p, j) == [j EXCEPT !.at = IF j.left = 0 THEN "over" ELSE Opening(Auth(p, j.kind, j.left))]
Start(p, k)  == Placed(p, [NoJob EXCEPT !.kind = k, !.left = Items(p, k)])

\* One more request is over and judged; "known": its session was known.
Judged(p, j, v, known) ==
  Placed(p, [j EXCEPT !.got = @ \cup {v}, !.good = IF v = "PASS" /\ known THEN @ + 1 ELSE @,
                      !.left = @ - 1, !.hop = 0, !.out = FALSE,
                      !.sess = IF j.kind = "regression" THEN 0 ELSE @])

-----------------------------------------------------------------------------
(***************************************************************************)
(* The tools of the agent, and the regression they share with a shell.     *)
(***************************************************************************)

\* Faulty variant: a case refused a request still counts as a case.
AnyOutcome(got) == IF "FAIL" \in got THEN "PARTIAL" ELSE "COMPLETED"

\* The status of a regression; the controls are complete on the same terms.
Outcome(got) ==
  IF got = {"PASS"} THEN "COMPLETED"
  ELSE IF "BLOCKED_DEPENDENCY" \in got /\ "FAIL" \notin got THEN "BLOCKED_DEPENDENCY"
  ELSE "PARTIAL"

\* The tool is over for perform_action: anything short of its recipe ends the task.
Tell(j, status) ==
  /\ told' = [kind |-> j.kind, status |-> status, good |-> j.good, refused |-> j.refused,
              candidate |-> j.candidate]
  /\ agent' = IF status = "COMPLETED" THEN "active" ELSE "over"
  /\ Set(Console, NoJob) /\ cancel' = FALSE

\* Of the latest task and the latest detection, what is known is kept until
\* the dashboard begins something else.
ForgetTask(a) ==
  /\ agent' = a /\ used' = {} /\ spent' = 0 /\ sent' = 0
  /\ told' = NoWord /\ filed' = NoFile
ForgetRun == run' = "none" /\ report' = FALSE /\ shown' = "none" /\ cut' = FALSE

StartAgent ==
  /\ Idle(Console) /\ agent # "active" /\ Ready /\ PolicyAllows(Entry)
  /\ ForgetTask("active") /\ ForgetRun
  /\ UNCHANGED <<manager, made, job, score>>

\* execute(): three of the tools want the container to be READY.
BeginTool(k) ==
  /\ Idle(Console) /\ agent = "active" /\ k \in (Capabilities \cap Choice[lab.lab_id]) \ used
  /\ used' = used \cup {k}
  /\ \/ /\ k \in {"regression", "controls", "matrix"} => Ready
        /\ Set(Console, Start(Console, k)) /\ told' = NoWord /\ UNCHANGED <<agent, cancel>>
     \/ /\ k \in {"regression", "controls", "matrix"}
        /\ Tell([NoJob EXCEPT !.kind = k], "failed")
  /\ UNCHANGED <<lab, box, call, made, spent, sent, filed, probed, score>>

\* What the gates of the clients say before a request, fetch() and
\* _reserve_request(): a STOP file and the deadline may be met at any of them.
Denials(p) ==
  IF p = Shell THEN {"none"}
  ELSE IF cancel THEN {"cancelled"}
  ELSE IF job[p].out THEN {"cancelled", "scope_blocked"}
  ELSE {"cancelled", "request_limit"} \cup (IF spent >= MaxRequests THEN {} ELSE {"none"})

Asking(p) == job[p].kind \in Tool /\ job[p].at \in Login \cup {"ask"} /\ ~Calling(p)

\* LocalHTTPClient asks the policy before the gate.
Reaches(p) == job[p].kind \in Session => PolicyAllows(Entry)

\* Faulty variant: a login is not counted.
CountOwn(p) == spent' = IF p = Console /\ job[p].at = "ask" THEN spent + 1 ELSE spent

\* Both clients of the task count every request, logins and redirects too.
Count(p) == spent' = IF p = Console THEN spent + 1 ELSE spent

Send(p) ==
  /\ Asking(p) /\ Reaches(p) /\ "none" \in Denials(p)
  /\ Count(p)
  /\ sent' = IF p = Console THEN sent + 1 ELSE sent

\* Faulty variant: a refusal inside a case is taken for a case that is blocked.
RefuseCase(p) ==
  LET j == [job[p] EXCEPT !.refused = TRUE] IN
  /\ Asking(p) /\ Reaches(p)
  /\ \E d \in Denials(p) \ {"none"} :
       IF job[p].kind = "regression"
       THEN Set(p, Judged(p, j, "BLOCKED_DEPENDENCY", FALSE)) /\ UNCHANGED <<told, agent, cancel>>
       ELSE Tell(j, d)
  /\ UNCHANGED <<lab, box, call, made, used, spent, sent, filed, probed, score>>

\* A refused request ends the tool, and the task with it.
Refuse(p) ==
  /\ Asking(p) /\ Reaches(p)
  /\ \E d \in Denials(p) \ {"none"} : Tell([job[p] EXCEPT !.refused = TRUE], d)
  /\ UNCHANGED <<lab, box, call, made, used, spent, sent, filed, probed, score>>

\* Faulty variant: a case that came to nothing is tried again.
BlockedRetried(p) ==
  IF job[p].kind = "regression"
  THEN Set(p, Placed(p, job[p])) /\ UNCHANGED <<told, agent, cancel>>
  ELSE Tell(job[p], "failed")

\* A request came to nothing: a case is recorded as blocked, any other tool fails.
Blocked(p) ==
  IF job[p].kind = "regression"
  THEN Set(p, Judged(p, job[p], "BLOCKED_DEPENDENCY", FALSE)) /\ UNCHANGED <<told, agent, cancel>>
  ELSE Tell(job[p], "failed")

\* The policy does not have the lab: no request is made.
Withhold(p) ==
  /\ Asking(p) /\ ~Reaches(p)
  /\ Blocked(p)
  /\ UNCHANGED <<lab, box, call, made, used, spent, sent, filed, probed, score>>

\* allow_lab_initialization.  The faulty variant leaves the default.
SetupByDefault(p) == TRUE
MaySetup(p) == p = Shell

\* _dvwa_login, when the lab answers as it expects.  A location that is withheld
\* says nothing of the login: the job goes on without a session.
DvwaNext(p) ==
  LET j == job[p] IN
  CASE j.at = "page"                     -> {[j EXCEPT !.at = "login"]}
    [] j.at = "login" /\ ~made           -> IF MaySetup(p) THEN {[j EXCEPT !.at = "setup"]} ELSE {}
    [] j.at \in {"login", "login again"} -> {[j EXCEPT !.at = "ask", !.sess = s] : s \in {0, box.born}}
    [] j.at = "setup"                    -> {[j EXCEPT !.at = "create"]}
    [] j.at = "create"                   -> {[j EXCEPT !.at = "page again"]}
    [] j.at = "page again"               -> {[j EXCEPT !.at = "login again"]}
    [] OTHER                             -> {}

\* _webgoat_login
WebgoatNext(p) ==
  LET j == job[p] IN
  CASE j.at = "register" -> {[j EXCEPT !.at = "join"]}
    [] j.at = "join"     -> {[j EXCEPT !.at = "start", !.sess = box.born]}
    [] j.at = "start"    -> {[j EXCEPT !.at = "ask"]}
    [] OTHER             -> {}

LogIn(p) ==
  /\ Send(p) /\ job[p].at \in Login
  /\ \/ /\ Running /\ \E j \in DvwaNext(p) \cup WebgoatNext(p) : Set(p, j)
        /\ made' = (made \/ job[p].at = "create")
        /\ UNCHANGED <<told, agent, cancel>>
     \/ /\ Blocked(p)
        /\ made' \in {made, made \/ (Running /\ job[p].at = "create")}
  /\ UNCHANGED <<lab, box, call, used, filed, probed, score>>

\* What the lab may answer: without a session it knows, it sends to the login.
Answer     == [status : {200, 302}, says : SUBSET Word, to : Location \cup {Nowhere}]
Known(p)   == \/ job[p].kind = "regression" /\ Auth(p, "regression", job[p].left) = "none"
              \/ job[p].sess = box.born
Answers(p) == {a \in Answer : Known(p) \/ (a.status = 302 /\ "surface" \notin a.says)}

\* _read_response: an answer that leads out of the policy is not read.
Read(a) ==
  LET out == a.to # Nowhere /\ ~PolicyAllows(a.to) IN
  [status |-> a.status, says |-> IF out THEN {} ELSE a.says, blocked |-> out]

\* The assertions of evaluate_expectations.
Meets(e, r) ==
  /\ e.status_in # {} => r.status \in e.status_in
  /\ e.contains \subseteq r.says /\ e.lacks \cap r.says = {}

Evaluate(c, r) ==
  IF r.blocked THEN "BLOCKED_SCOPE" ELSE IF Meets(c.expected, r) THEN "PASS" ELSE "FAIL"

\* The request of a case, or a probe of the controls, which looks at the status.
AskCase(p) ==
  LET j == job[p] IN
  /\ Send(p) /\ j.at = "ask" /\ j.kind \in Session
  /\ \/ /\ Running
        /\ \E a \in Answers(p) :
             Set(p, Judged(p, j, IF j.kind = "regression" THEN Evaluate(CaseAt(p, j.left), Read(a))
                                 ELSE IF a.status = 200 THEN "PASS" ELSE "FAIL", Known(p)))
        /\ UNCHANGED <<told, agent, cancel>>
     \/ Blocked(p)
  /\ UNCHANGED <<lab, box, call, made, used, filed, probed, score>>

\* One request of GuardedHTTP.fetch.  Answers of the comparisons are read three
\* at a time; a script that cannot be had is left out.
Group(k) == IF k \in {"compare", "matrix"} THEN 3 ELSE 1

\* How much is left after an answer: the first page of discover_local_surface
\* names the scripts to read.
Found(j) == IF j.kind = "discover" /\ j.left = 1 + MaxScripts THEN 0..MaxScripts ELSE {j.left - 1}

AskFetch(p) ==
  LET j == job[p] IN
  /\ Send(p) /\ j.at = "ask" /\ j.kind \in Fetch
  /\ \/ /\ Running
        /\ \E u \in Location : IF j.hop + 1 = MaxHops THEN Tell(j, "scope_blocked")
                                ELSE /\ Set(p, [j EXCEPT !.hop = @ + 1, !.out = ~SameOrigin(u)])
                                     /\ UNCHANGED <<told, agent, cancel>>
     \/ /\ Running
        /\ \E v \in {"PASS", "FAIL"} :
             LET d == Judged(p, j, v, TRUE) IN
             IF j.kind # "discover" /\ "FAIL" \in d.got /\ d.left % Group(j.kind) = 0
             THEN Tell(j, "failed")
             ELSE /\ \E n \in Found(j) : Set(p, Placed(p, [d EXCEPT !.left = n]))
                  /\ UNCHANGED <<told, agent, cancel>>
     \/ /\ j.kind = "discover" /\ j.left <= MaxScripts
        /\ Set(p, Judged(p, j, "FAIL", TRUE)) /\ UNCHANGED <<told, agent, cancel>>
     \/ Tell(j, "failed")
  /\ UNCHANGED <<lab, box, call, made, used, filed, probed, score>>

\* perform_action: what a tool found is dropped if the task was cancelled meanwhile.
Conclude ==
  LET j == job[Console] IN
  /\ j.kind \in Tool /\ j.at = "over"
  /\ \/ cancel /\ Tell(j, "cancelled")
     \/ /\ ~cancel
        /\ \/ Tell(j, Outcome(IF j.kind = "discover" THEN {"PASS"} ELSE j.got))
           \/ /\ j.kind \in {"controls", "compare", "matrix"} /\ "PASS" \in j.got
              /\ Set(Console, [j EXCEPT !.at = "file", !.candidate = TRUE])
              /\ UNCHANGED <<told, agent, cancel>>
  /\ UNCHANGED <<lab, box, call, made, used, spent, sent, filed, probed, score>>

\* Faulty variant: the candidate is told before it is filed.
FileLate ==
  LET j == job[Console] IN
  /\ j.at = "file"
  /\ Tell(j, Outcome(j.got))
  /\ filed' = [run |-> "review", noted |-> TRUE, found |-> FALSE]
  /\ UNCHANGED <<lab, box, call, made, used, spent, sent, probed, score>>

\* persist_candidate: a run of the task, made once, gets the finding; the
\* observation is saved after that.
File ==
  LET j == job[Console] IN
  /\ \/ /\ j.at = "file"
        /\ IF filed.noted THEN UNCHANGED filed ELSE filed' = [filed EXCEPT !.run = "created"]
        /\ Set(Console, [j EXCEPT !.at = IF filed.noted THEN "insert" ELSE "note"])
        /\ UNCHANGED <<told, agent, cancel>>
     \/ /\ j.at = "note" /\ filed' = [filed EXCEPT !.noted = TRUE]
        /\ Set(Console, [j EXCEPT !.at = "insert"]) /\ UNCHANGED <<told, agent, cancel>>
     \/ /\ j.at = "insert" /\ filed' = [filed EXCEPT !.found = TRUE]
        /\ Set(Console, [j EXCEPT !.at = "mark"]) /\ UNCHANGED <<told, agent, cancel>>
     \/ /\ j.at = "mark" /\ filed' = [filed EXCEPT !.run = "review"]
        /\ Tell(j, Outcome(j.got))
  /\ UNCHANGED <<lab, box, call, made, used, spent, sent, probed, score>>

ToolStep(p) == Refuse(p) \/ Withhold(p) \/ LogIn(p) \/ AskCase(p) \/ AskFetch(p)

-----------------------------------------------------------------------------
(***************************************************************************)
(* Operations, and the operator's regression.                              *)
(***************************************************************************)
BeginOperation(p, a) ==
  /\ Idle(p) /\ (p = Console => a # "down" /\ agent # "active")
  /\ Operate(p, a)
  /\ Set(p, [NoJob EXCEPT !.kind = "operate", !.at = "lab"])
  /\ IF p = Console THEN ForgetTask("none") /\ ForgetRun ELSE UNCHANGED <<task, probed>>
  /\ UNCHANGED <<lab, box, cancel, made, score>>

BeginRegression ==
  /\ Idle(Shell)
  /\ Operate(Shell, "up")
  /\ Set(Shell, [NoJob EXCEPT !.kind = "regression", !.at = "lab"])
  /\ UNCHANGED <<lab, box, cancel, made, task, probed, score>>

\* The operation has returned; a regression goes on whatever it came to.
Returned(p) ==
  /\ At(p, "lab")
  /\ call' = [call EXCEPT ![p] = NoCall]
  /\ \/ /\ job[p].kind = "regression" /\ call[p].status # "raised"
        /\ Set(p, Start(p, "regression")) /\ UNCHANGED <<cancel, score>>
     \/ /\ job[p].kind = "regression" /\ call[p].status = "raised"
        /\ Set(p, [job[p] EXCEPT !.at = "printed"])
        /\ score' = [status |-> "failed", good |-> 0] /\ UNCHANGED cancel
     \/ /\ job[p].kind = "operate"
        /\ Set(p, NoJob) /\ cancel' = (p # Console /\ cancel) /\ UNCHANGED score
  /\ UNCHANGED <<lab, box, made, task, probed>>

EndRegression ==
  LET j == job[Shell] IN
  /\ j.at = "over"
  /\ score' = [status |-> Outcome(j.got), good |-> j.good]
  /\ Set(Shell, [NoJob EXCEPT !.kind = "regression", !.at = "printed"])
  /\ UNCHANGED <<manager, made, task, probed>>

\* The command has printed its result and returns.
ShellExits ==
  /\ job[Shell].at = "printed"
  /\ score' = NoScore /\ Set(Shell, NoJob)
  /\ UNCHANGED <<manager, made, task, probed>>

-----------------------------------------------------------------------------
(***************************************************************************)
(* The detection: LocalDetectionWorkflow.run and _perform_detection.       *)
(***************************************************************************)
BeginDetection ==
  /\ Idle(Console) /\ agent # "active" /\ Ready
  /\ Set(Console, [NoJob EXCEPT !.kind = "detect", !.at = "precheck"])
  /\ ForgetTask("none") /\ ForgetRun
  /\ UNCHANGED <<manager, made, score>>

Detecting(s) == job[Console].kind = "detect" /\ job[Console].at = s
Onward(s)    == Set(Console, [job[Console] EXCEPT !.at = s]) /\ UNCHANGED <<shown, cancel>>

\* The dashboard shows a blocked detection as failed.
Show(s) == shown' = s /\ Set(Console, NoJob) /\ cancel' = FALSE

\* A look at the cancel event once a run exists.
UnlessCancelled(s) ==
  IF cancel THEN run' = "cancelled" /\ Show("cancelled") ELSE UNCHANGED run /\ Onward(s)

\* Before there is a run.
Precheck ==
  /\ Detecting("precheck") /\ UNCHANGED <<run, report>>
  /\ \/ cancel /\ Show("cancelled")
     \/ ~PolicyAllows(Entry) /\ Show("failed")
     \/ Seen(box) # {"READY"} /\ Show("failed")
     \/ ~cancel /\ PolicyAllows(Entry) /\ Ready /\ Onward("open")

OpenRun ==
  /\ Detecting("open") /\ UNCHANGED report
  /\ IF cancel THEN UNCHANGED run /\ Show("cancelled") ELSE run' = "created" /\ Onward("begin")

BeginRun == Detecting("begin") /\ run' = "running" /\ Onward("probe") /\ UNCHANGED report

\* probe_local_target: any answer will do.
ProbeEntry ==
  /\ Detecting("probe") /\ UNCHANGED report
  /\ \/ run' = "blocked_dependency" /\ Show("failed")
     \/ Running /\ UnlessCancelled("discover")

Discover == Detecting("discover") /\ UnlessCancelled("check") /\ UNCHANGED report
Check    == Detecting("check") /\ UnlessCancelled("store") /\ UNCHANGED report

\* From here on nothing looks at the cancel event.
WriteReport == Detecting("store") /\ report' = TRUE /\ Onward("complete") /\ UNCHANGED run
Complete    == Detecting("complete") /\ run' = "completed" /\ Show("completed") /\ UNCHANGED report

\* Faulty variant: the handler leaves the run as it is.
FailQuietly ==
  /\ job[Console].kind = "detect" /\ job[Console].at \in {"probe", "discover", "check", "store"}
  /\ UNCHANGED <<run, report>> /\ Show("failed")

\* Anything may raise once the run is running.
Fail ==
  /\ job[Console].kind = "detect" /\ job[Console].at \in {"probe", "discover", "check", "store"}
  /\ run' = "failed" /\ Show("failed") /\ UNCHANGED report

DetectStep ==
  /\ \/ Precheck \/ OpenRun \/ BeginRun \/ ProbeEntry \/ Discover \/ Check
     \/ WriteReport \/ Complete \/ Fail
  /\ UNCHANGED <<lab, box, call, made, task, cut, score>>

-----------------------------------------------------------------------------
(***************************************************************************)
(* The operator, the clock, exits, docker.                                 *)
(***************************************************************************)
Cancel ==
  /\ ~Idle(Console) /\ call[Console].action # "stop" /\ ~cancel /\ cancel' = TRUE
  /\ UNCHANGED <<lab, box, call, made, job, task, probed, score>>

\* The dashboard's process ends, and another takes its place: the journal shows
\* a detection that was cut off as failed.
ConsoleExits ==
  /\ ~Idle(Console)
  /\ Set(Console, NoJob) /\ call' = [call EXCEPT ![Console] = NoCall] /\ cancel' = FALSE
  /\ box' \in (CASE call[Console].at = "remove"  -> Half("rm", box)
                 [] call[Console].at = "command" -> Half(Command(call[Console].action), box)
                 [] OTHER                        -> {box})
  /\ agent' = IF job[Console].kind \in Tool THEN "over" ELSE agent
  /\ IF job[Console].kind = "detect" THEN cut' = TRUE /\ shown' = "failed"
     ELSE UNCHANGED <<cut, shown>>
  /\ UNCHANGED <<lab, made, used, spent, sent, told, filed, run, report, score>>

Docker == Exit /\ UNCHANGED <<lab, call, cancel, made, job, task, probed, score>>

\* What process p does of its own.
Step(p) ==
  \/ CallStep(p) /\ UNCHANGED <<made, job, task, probed, score>>
  \/ ToolStep(p)
  \/ Returned(p)
  \/ p = Console /\ (Conclude \/ File \/ DetectStep)
  \/ p = Shell /\ (EndRegression \/ ShellExits)

Next ==
  \/ \E p \in Process : Step(p)
  \/ \E p \in Process, a \in {"start", "stop", "reset", "down"} : BeginOperation(p, a)
  \/ \E k \in Tool : BeginTool(k)
  \/ StartAgent \/ BeginRegression \/ BeginDetection
  \/ Cancel \/ ConsoleExits \/ Docker

Spec == Init /\ [][Next]_vars

-----------------------------------------------------------------------------
(***************************************************************************)
(* Properties.                                                             *)
(***************************************************************************)

\* Both clients of a task, with their logins and redirects, keep to one limit of
\* requests over all its tools.
RequestsWithinLimit == sent <= MaxRequests

\* Only the operator's regression makes the lab's database; the recipes of the
\* agent, though they share its login, never do.
DataIsLeftAlone == [][made' # made => job[Shell].kind = "regression" /\ job'[Console] = job[Console]]_vars

\* A complete regression, or complete controls, had every one of its requests
\* answered as expected, by a container that knew the session where one is needed; and a
\* tool that was refused a request, for a stop or for the limit, has no result to show:
\* a refusal inside a test case does not become a blocked test case.
ResultIsBacked ==
  /\ told.refused => told.status \in Refusal
  /\ told.status = "COMPLETED" /\ told.kind \in Session
       => told.good = Items(Console, told.kind)
  /\ score.status = "COMPLETED" => score.good = Items(Shell, "regression")

\* What the dashboard shows of a detection is what its run says, which is never
\* left running; an exit apart.
RunIsSettled ==
  ~cut /\ job[Console].kind # "detect" =>
    /\ shown = "completed" <=> run = "completed"
    /\ run = "completed" => report
    /\ shown = "cancelled" => run \in {"none", "cancelled"}
    /\ shown = "failed" => run \in {"none", "blocked_dependency", "failed"}

\* A reset that reports READY has put a new container in place of the old one.
ResetIsFresh ==
  \A p \in Process :
    call[p].action = "reset" /\ call[p].status = "READY" => box.born > call[p].since

\* A candidate the task knows of is in the store, in a run the task has noted,
\* also if the process exits between any two of these writes.
CandidateIsFiled ==
  told.candidate => filed.found /\ filed.noted /\ filed.run = "review"

\* Whatever the labs, docker and the other process have done, what a process has
\* begun can go on: no wait is left to something that only others can bring.
NeverStuck == \A p \in Process : ~Idle(p) => ENABLED Step(p)

\* What a process has left of what it has begun: the requests it has still to make, each
\* with a login and redirects, and the way to the next of them or to the end.
PlaceLeft(place) ==
  CASE place = "idle" -> 0
    [] place \in {"ask", "printed", "complete", "lab"} -> 1
    [] place \in {"start", "login again", "mark", "store"} -> 2
    [] place \in {"join", "page again", "insert", "check"} -> 3
    [] place \in {"register", "create", "note", "discover"} -> 4
    [] place \in {"setup", "file", "probe"} -> 5
    [] place \in {"login", "over", "begin"} -> 6
    [] place \in {"page", "open"} -> 7
    [] place = "precheck" -> 8

JobLeft(j) == (7 + MaxHops) * j.left + PlaceLeft(j.at) + (IF j.left = 0 THEN 0 ELSE MaxHops - j.hop)

\* A call of operate() comes before the regression.
CallLeft == [idle |-> 0, wait |-> 1, command |-> 2, remove |-> 3]
ToCome(p, j) ==
  IF j.at = "lab" /\ j.kind = "regression" THEN JobLeft(Start(p, "regression")) ELSE 0

WorkLeft(p) == JobLeft(job[p]) + CallLeft[call[p].at] + ToCome(p, job[p])

\* Whatever a process does of what it has begun takes it nearer its end, which the requests
\* it may make bound: no answer of a lab, no redirect, no failed login or command is tried
\* again in place.  Nothing the other process does gives any of it back.
WorkRunsOut ==
  [][\A p \in Process :
       \/ Idle(p)
       \/ UNCHANGED <<job[p], call[p]>> /\ ~Step(p)
       \/ WorkLeft(p)' \in 0..(WorkLeft(p) - 1)]_vars
=============================================================================
