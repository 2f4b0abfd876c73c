---------------------------- MODULE ApprovedProbe ----------------------------
(***************************************************************************)
(* One worker carries out one approval: the requests it sends              *)
(* (LocalApplicationHTTP, BusinessHTTP), the gates it passes before and    *)
(* during each of them, the recipes they belong to (LocalWebActions,       *)
(* BusinessActions, run_local_application) and the offline scanner that    *)
(* may follow (ZapOfflineScanner).                                         *)
(*                                                                         *)
(* Meanwhile the permission may be withdrawn, for any of several reasons,  *)
(* and for some of them be given back.  A check reads them one after the   *)
(* other; here it is one step, and everything between two checks is not.   *)
(* This is the "working" phase of ReviewTasks.tla.                         *)
(***************************************************************************)
EXTENDS ScopeDecision, FiniteSets

CONSTANTS
  Kind,       \* "shell", "local", "passive", "business": who carries it out
  Policy,     \* the confirmed scope
  Plan,       \* the approved requests
  RecipeOf,   \* RecipeOf[k]: the recipes of kind k, each a sequence of fetches
  Location,   \* where a redirect may point to
  Reason      \* why permission may be withdrawn

\* A fetch is one request on behalf of one role; "expected" says whether the role is
\* supposed to get the object.
Fetch == [request : Range(Plan), role : STRING, expected : BOOLEAN]

Permanent == {"cancel", "deadline", "policy"}
Liftable  == {"stop", "window", "identity", "context", "scanner", "disk", "resource"}

MaxRedirects == 3

ASSUME ProbeAssumption ==
  /\ Kind \subseteq {"shell", "local", "passive", "business"}
  /\ Plan \in Seq([url : Url, method : {"GET", "HEAD"}]) /\ ValidPlan(Policy, Plan)
  /\ Location \subseteq Url
  /\ RecipeOf \in [Kind -> Seq(Seq(Fetch) \ {<<>>})]
  /\ Reason \subseteq Permanent \cup Liftable

VARIABLES
  kind,       \* the kind of this worker
  free,       \* the recipes are chosen by an agent, not taken in order
  withdrawn,  \* reasons for which permission is withdrawn now
  pc,         \* where the worker stands
  recipe,     \* the recipe in hand
  answers,    \* the answers to its fetches so far
  url, hop,   \* what is requested, after how many redirects
  count,      \* request_count
  observed,   \* observed[i]: the answers that recipe i ended with
  container,  \* the scanner's container
  report,     \* the scanner's report has been accepted
  said,       \* what the last command of the engine printed (last_output)
  analysed,   \* and its container removed: passive_result
  outcome,    \* how the work ended
  attempts,   \* history: connections attempted
  late        \* history: reasons under which a request has been sent since they hold

world    == <<withdrawn>>
tally    == <<observed, analysed>>
engine   == <<container, said, report>>
request  == <<url, hop>>
vars     == <<kind, free, withdrawn, pc, recipe, answers, request, count, tally, engine,
              outcome, attempts, late>>

-----------------------------------------------------------------------------
Recipes == RecipeOf[kind]
Fetches == Recipes[recipe]
Current == Fetches[Len(answers) + 1]
Method  == Current.request.method
Limit   == Policy.local_web.request_limit

Answer    == {"match", "refused", "other"}
Container == {"none", "created", "running", "exited"}
Outcome   == {"none", "completed", "review", "stopped", "tool_cleanup_failed"}
Sending   == {"open", "check", "before", "recheck", "connecting", "connected", "cleared",
              "receiving", "answered"}
Scanning  == {"create", "inspect", "start", "verify", "remove", "removed"}
PC        == Sending \cup Scanning \cup {"choose", "ended"}

TypeOK ==
  /\ kind \in Kind /\ free \in BOOLEAN
  /\ withdrawn \subseteq Reason /\ late \subseteq withdrawn
  /\ pc \in PC
  /\ recipe \in DOMAIN Recipes \cup {0}
  /\ answers \in Seq(Answer)
  /\ pc \in Sending => recipe # 0 /\ Len(answers) < Len(Fetches)
  /\ url \in {r.url : r \in Range(Plan)} \cup Location
  /\ hop \in 0..MaxRedirects
  /\ count \in 0..Limit /\ attempts \in Nat
  /\ observed \in [DOMAIN Recipes -> Seq(Answer)]
  /\ container \in Container /\ said \in {"other", "missing"}
  /\ report \in BOOLEAN /\ analysed \in BOOLEAN
  /\ outcome \in Outcome /\ (outcome # "none" <=> pc = "ended")

Init ==
  /\ kind \in Kind
  /\ free \in (IF kind = "shell" THEN {FALSE} ELSE BOOLEAN)
  /\ withdrawn = {} /\ late = {}
  /\ pc = "choose" /\ recipe = 0 /\ answers = <<>>
  /\ url = Plan[1].url /\ hop = 0 /\ count = 0 /\ attempts = 0
  /\ observed = [i \in DOMAIN Recipes |-> <<>>]
  /\ container = "none" /\ said = "other"
  /\ report = FALSE /\ analysed = FALSE /\ outcome = "none"

-----------------------------------------------------------------------------
(***************************************************************************)
(* Permission.                                                             *)
(***************************************************************************)

Withdraw(r) ==
  /\ r \in Reason \ withdrawn
  /\ withdrawn' = withdrawn \cup {r}
  /\ UNCHANGED <<kind, free, pc, recipe, answers, request, count, tally, engine, outcome,
                 attempts, late>>

\* The STOP file is removed, the clock is set, the draft or the file is put back.
Restore(r) ==
  /\ r \in withdrawn \cap Liftable
  /\ withdrawn' = withdrawn \ {r}
  /\ late' = late \ {r}
  /\ UNCHANGED <<kind, free, pc, recipe, answers, request, count, tally, engine, outcome,
                 attempts>>

\* What _check looks at, besides the clock and the scope; a business review calls its
\* permission gate as well.
SeenByCheck ==
  {"cancel", "stop", "deadline", "policy"}
    \cup (IF kind = "business" THEN {"context", "identity"} ELSE {})

\* permission_gate of a business review.
BusinessGate == {"cancel", "stop", "window", "context", "identity"}

\* What before_request looks at.
SeenByGate ==
  {"disk", "resource"}
    \cup (CASE kind = "shell"    -> {}
            [] kind = "local"    -> SeenByCheck \cup {"window", "identity"}
            [] kind = "passive"  -> SeenByCheck \cup {"window", "identity", "scanner"}
            [] kind = "business" -> BusinessGate)

InWindow == "window" \notin withdrawn

CheckDenies == \/ withdrawn \cap SeenByCheck # {}
               \/ ~Allowed(Policy, url, Method, InWindow)

GateDenies == withdrawn \cap SeenByGate # {}

\* The work ends with an error: of a fixed recipe, or of a tool of the agent.
Stop(how) ==
  /\ pc' = "ended" /\ outcome' = how
  /\ UNCHANGED <<kind, free, world, recipe, answers, request, count, tally, engine,
                 attempts, late>>

Advance(phase) ==
  /\ pc' = phase
  /\ UNCHANGED <<kind, free, world, recipe, answers, request, count, tally, engine,
                 outcome, attempts, late>>

-----------------------------------------------------------------------------
(***************************************************************************)
(* Recipes.                                                                *)
(***************************************************************************)

Done == {i \in DOMAIN Recipes : observed[i] # <<>>}

\* An agent takes any recipe it has not done, a fixed list the next one.
Choose(i) ==
  /\ pc = "choose" /\ i \in DOMAIN Recipes \ Done
  /\ ~free => \A j \in DOMAIN Recipes \ Done : i <= j
  /\ recipe' = i /\ answers' = <<>>
  /\ pc' = "open"
  /\ UNCHANGED <<kind, free, world, request, count, tally, engine, outcome, attempts, late>>

\* A request of the approved plan is opened; a business review has passed its gate
\* and loaded the session of the role.
Open ==
  /\ pc = "open"
  /\ kind = "business" => withdrawn \cap BusinessGate = {}
  /\ url' = Current.request.url /\ hop' = 0
  /\ pc' = "check"
  /\ UNCHANGED <<kind, free, world, recipe, answers, count, tally, engine, outcome,
                 attempts, late>>

\* The gate denies, or the session of the role is gone, expired or bound elsewhere.
OpenFails ==
  /\ pc = "open" /\ kind = "business"
  /\ withdrawn \cap BusinessGate # {} \/ Current.role # "anonymous"
  /\ Stop("stopped")

-----------------------------------------------------------------------------
(***************************************************************************)
(* One hop of one request: _fetch.                                         *)
(***************************************************************************)

Check ==
  /\ pc = "check"
  /\ IF CheckDenies \/ count >= Limit THEN Stop("stopped") ELSE Advance("before")

BeforeRequest ==
  /\ pc = "before"
  /\ IF GateDenies THEN Stop("stopped") ELSE Advance("recheck")

\* Faulty variant: only answers are counted.
AttemptUncounted ==
  /\ pc = "recheck" /\ ~CheckDenies
  /\ attempts' = attempts + 1
  /\ pc' = "connecting"
  /\ UNCHANGED <<kind, free, world, recipe, answers, request, count, tally, engine, outcome,
                 late>>

\* A connection is attempted, and counted whatever comes of it.
Attempt ==
  /\ pc = "recheck" /\ ~CheckDenies
  /\ count' = count + 1 /\ attempts' = attempts + 1
  /\ pc' = "connecting"
  /\ UNCHANGED <<kind, free, world, recipe, answers, request, tally, engine, outcome, late>>

Recheck == pc = "recheck" /\ CheckDenies /\ Stop("stopped")

\* connect() returns, or raises.
Connected == pc = "connecting" /\ Advance("connected")

Clear == pc = "connected" /\ ~CheckDenies /\ Advance("cleared")

\* The request goes out.
Send ==
  /\ pc = "cleared"
  /\ pc' = "receiving"
  /\ late' = late \cup withdrawn
  /\ UNCHANGED <<kind, free, world, recipe, answers, request, count, tally, engine, outcome,
                 attempts>>

\* The answer is received, with a check before each read and one at the end.
Receive == pc = "receiving" /\ ~CheckDenies /\ Advance("answered")

\* A check denies, the request times out, or the connection breaks.
Broken ==
  /\ pc \in {"connecting", "connected", "receiving", "answered"}
  /\ Stop("stopped")

\* Faulty variant: a redirect that may be followed is followed without another check.
NextHopAtOnce(to) ==
  /\ url' = to /\ hop' = hop + 1
  /\ pc' = "connecting"
  /\ UNCHANGED <<kind, free, world, recipe, answers, count, tally, engine, outcome,
                 attempts, late>>

NextHop(to) ==
  /\ url' = to /\ hop' = hop + 1
  /\ pc' = "check"
  /\ UNCHANGED <<kind, free, world, recipe, answers, count, tally, engine, outcome,
                 attempts, late>>

\* A redirect: never followed by a business review, at most three times by others.
Redirect(to) ==
  /\ pc = "answered"
  /\ kind # "business" /\ hop < MaxRedirects
  /\ RedirectAllowed(Policy, url, to, Method, InWindow)
  /\ NextHop(to)

NextAnswer(a) ==
  IF Len(answers) + 1 < Len(Fetches)
  THEN /\ answers' = Append(answers, a) /\ pc' = "open"
       /\ UNCHANGED <<recipe, observed>>
  ELSE /\ observed' = [observed EXCEPT ![recipe] = Append(answers, a)]
       /\ answers' = <<>> /\ recipe' = 0 /\ pc' = "choose"

\* The body is read and reduced to what may be kept, after one more check; the capture
\* of a passive review decides on the url again.
Read(a) ==
  /\ pc = "answered" /\ ~CheckDenies
  /\ kind # "business" => a = "match"
  /\ NextAnswer(a)
  /\ UNCHANGED <<kind, free, world, request, count, analysed, engine, outcome, attempts, late>>

-----------------------------------------------------------------------------
(***************************************************************************)
(* The offline scanner: one container, made, inspected, started, inspected *)
(* again and removed.  Each command of the engine is a child process that  *)
(* a closing gate, a timeout or too much output kills; the engine may have *)
(* carried it out nevertheless.                                            *)
(***************************************************************************)

EngineStep(next, con) ==
  /\ pc' = next /\ container' = con
  /\ UNCHANGED <<kind, free, world, recipe, answers, request, count, tally, outcome,
                 attempts, late>>

\* All routes have been read, and the image is the one that was approved.
Analyse ==
  /\ pc = "choose" /\ kind = "passive" /\ ~analysed
  /\ Done = DOMAIN Recipes /\ ~GateDenies
  /\ Advance("create")

\* The gate denies, or the image cannot be inspected.
AnalyseFails ==
  /\ pc = "choose" /\ kind = "passive" /\ ~analysed
  /\ Done = DOMAIN Recipes
  /\ Stop("stopped")

Create ==
  /\ pc = "create" /\ ~GateDenies
  /\ EngineStep("inspect", "created") /\ UNCHANGED <<said, report>>

\* The isolation is as ordered.
Inspect == pc = "inspect" /\ ~GateDenies /\ Advance("start")

Start ==
  /\ pc = "start" /\ ~GateDenies
  /\ EngineStep("verify", "exited") /\ UNCHANGED <<said, report>>

\* The exit code and the report are good: the result is kept, if the cleanup succeeds.
Verify ==
  /\ pc = "verify" /\ ~GateDenies
  /\ report' = TRUE
  /\ EngineStep("remove", container) /\ UNCHANGED said

\* One of these commands fails, is killed, or is not even begun.
CommandFails ==
  /\ pc \in {"create", "inspect", "start", "verify"}
  /\ said' = "other" /\ UNCHANGED report
  /\ \E con \in CASE pc = "create" -> {"none", "created"}
                  [] pc = "start"  -> {"created", "running", "exited"}
                  [] OTHER         -> {container} : EngineStep("remove", con)

\* The finally block is over: the exception goes on, or the result is returned.
Leave(cleaned) ==
  /\ IF cleaned /\ report
     THEN pc' = "choose" /\ analysed' = TRUE /\ UNCHANGED outcome
     ELSE /\ pc' = "ended" /\ UNCHANGED analysed
          /\ outcome' = IF cleaned THEN "stopped" ELSE "tool_cleanup_failed"
  /\ UNCHANGED <<kind, free, world, recipe, answers, request, count, observed, attempts, late>>

\* rm -f; nothing stops this command but its timeout.
RemoveContainer ==
  /\ pc = "remove"
  /\ container' = "none" /\ UNCHANGED <<said, report>>
  /\ Leave(TRUE)

\* It fails, having removed the container or not.  If it ended by itself, what it
\* printed replaces what was printed before.
RemoveFails ==
  /\ pc = "remove"
  /\ UNCHANGED report
  /\ \E con \in {"none", container} :
       /\ said' \in {said, "other"} \cup (IF con = "none" THEN {"missing"} ELSE {})
       /\ EngineStep("removed", con)

\* Faulty variant: a container that cannot be inspected counts as removed.
GoneUnlessSeen(answered, text) == ~answered

\* inspect must fail, and the last output must say that there is no such container.
Gone(answered, text) == ~answered /\ text = "missing"

InspectRemoved ==
  /\ pc = "removed"
  /\ \E answered \in {FALSE} \cup (IF container # "none" THEN {TRUE} ELSE {}) :
       /\ said' \in IF answered THEN {"other"}
                    ELSE {said, IF container = "none" THEN "missing" ELSE "other"}
       /\ Leave(Gone(answered, said'))
  /\ UNCHANGED <<container, report>>

-----------------------------------------------------------------------------
(***************************************************************************)
(* The end.                                                                *)
(***************************************************************************)

\* A comparison answers for every role: the object, where that is expected; and
\* otherwise the object, which is a candidate finding, or a definite refusal.
Validated(i) ==
  /\ Len(observed[i]) = Len(Recipes[i])
  /\ \A k \in DOMAIN Recipes[i] :
       observed[i][k] \in IF Recipes[i][k].expected THEN {"match"} ELSE {"match", "refused"}

\* Faulty variant: a comparison that came to nothing counts as well.
ReadyAnyway(cited) ==
  /\ cited = DOMAIN Recipes
  /\ kind = "passive" => analysed

\* completion_ready, of the observations that are cited.
Ready(cited) ==
  /\ cited = DOMAIN Recipes
  /\ kind = "business" => \A i \in cited : Validated(i)
  /\ kind = "passive" => analysed

\* A fixed list is carried out before it ends; an agent may finish at any time, citing
\* what it likes.
Finish(cited) ==
  /\ pc = "choose"
  /\ ~free => /\ cited = DOMAIN Recipes
              /\ kind = "passive" => analysed
  /\ Stop(IF Ready(cited) THEN "completed" ELSE "review")

\* The agent loop ends for a reason of its own (AgentRunner.tla).
AgentStops == pc = "choose" /\ free /\ Stop("stopped")

Worker ==
  \/ \E i \in DOMAIN Recipes : Choose(i)
  \/ Open \/ OpenFails \/ Check \/ BeforeRequest \/ Recheck \/ Attempt
  \/ Connected \/ Clear \/ Send \/ Receive \/ Broken
  \/ (\E to \in Location : Redirect(to)) \/ (\E a \in Answer : Read(a))
  \/ Analyse \/ AnalyseFails \/ Create \/ Inspect \/ Start \/ Verify \/ CommandFails
  \/ RemoveContainer \/ RemoveFails \/ InspectRemoved
  \/ (\E cited \in SUBSET Done : Finish(cited)) \/ AgentStops

Next ==
  \/ Worker
  \/ /\ pc # "ended"
     /\ \E r \in Reason : Withdraw(r) \/ Restore(r)

Spec == Init /\ [][Next]_vars

-----------------------------------------------------------------------------
(***************************************************************************)
(* Properties.                                                             *)
(***************************************************************************)

\* Whatever goes out, also after redirects, goes to the approved site, to an approved
\* path that lies under no excluded one, without a query.
SentInScope ==
  pc \in {"cleared", "receiving"} =>
    /\ Site(url) = Policy.local_web.site /\ url.form = "plain"
    /\ url.path \in Policy.local_web.allowed_paths
    /\ \A x \in Policy.local_web.excluded_paths : ~Within(url.path, x)

\* No more connections than approved are attempted, whatever comes of them.
AttemptsWithinLimit == attempts <= Limit

\* What the worker has left: connections, and steps until it makes the next one or ends.
StepsLeft ==
  [ended |-> 0, recheck |-> 1, before |-> 2, check |-> 3, open |-> 4, removed |-> 6,
   remove |-> 7, verify |-> 8, start |-> 9, inspect |-> 10, create |-> 11, answered |-> 13,
   receiving |-> 14, cleared |-> 15, connected |-> 16, connecting |-> 17,
   choose |-> IF analysed THEN 5 ELSE 12]

WorkLeft == 20 * (Limit - attempts) + StepsLeft[pc]

\* Whatever the worker does uses up some of its work, which the approved limit of
\* connections bounds: no answer, redirect, failed command of the engine or choice of the
\* agent gives any back, so that it connects within the limit, and comes to an end.
WorkRunsOut == [][Worker => WorkLeft' \in 0..(WorkLeft - 1)]_vars

\* While permission is withdrawn for a reason this kind of worker looks at, one request
\* may slip out, and no second one.
OnceAfterWithdrawal ==
  [][pc = "cleared" /\ pc' = "receiving" =>
       late \cap (SeenByCheck \cup SeenByGate \cup {"window"}) = {}]_vars

\* Work that is reported as completed has an answer to every fetch of every recipe, a
\* definite one where roles were compared, and the scanner's report where one is due.
CompletedIsCovered ==
  outcome = "completed" =>
    /\ \A i \in DOMAIN Recipes : Len(observed[i]) = Len(Recipes[i])
    /\ \A i \in DOMAIN Recipes : \A k \in DOMAIN Recipes[i] :
         \/ observed[i][k] = "match"
         \/ observed[i][k] = "refused" /\ ~Recipes[i][k].expected
    /\ kind = "passive" => analysed

\* When the work is over its container is gone, or the failure to remove it is what is
\* reported.
ContainerIsReported ==
  pc = "ended" /\ container # "none" => outcome = "tool_cleanup_failed"
=============================================================================
