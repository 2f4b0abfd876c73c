------------------------- MODULE ApprovedProbeProofs -------------------------
(***************************************************************************)
(* Theorems about ApprovedProbe, for every confirmed scope, approved plan, *)
(* set of recipes, of redirects and of reasons to withdraw permission.     *)
(***************************************************************************)
EXTENDS ApprovedProbe, TLAPS

-----------------------------------------------------------------------------
(***************************************************************************)
(* The scope decision.                                                     *)
(***************************************************************************)

InScope(u) ==
  /\ Site(u) = Policy.local_web.site /\ u.form = "plain"
  /\ u.path \in Policy.local_web.allowed_paths
  /\ \A x \in Policy.local_web.excluded_paths : ~Within(u.path, x)

LEMMA PolicyFacts == Policy.target_type = "local_web" /\ Limit \in Nat
<1>1. Policy.target_type = "local_web" /\ ValidLocal(Policy.local_web)
  BY ProbeAssumption DEF ValidPlan
<1>2. Policy.local_web.request_limit \in 1..1000
  BY <1>1 DEF ValidLocal
<1>3. Limit \in 1..1000
  BY ONLY <1>2 DEF Limit
<1>4. Limit \in Nat
  BY ONLY <1>3
<1> QED
  BY ONLY <1>1, <1>4

\* A request that is allowed is in the scope, and inside the window.
LEMMA AllowedIsInScope ==
  ASSUME NEW u \in Url, NEW m, NEW w \in BOOLEAN, Allowed(Policy, u, m, w)
  PROVE  InScope(u) /\ w
<1>1. Policy.target_type = "local_web"
  BY PolicyFacts
<1>2. LocalDenial(Policy.local_web, u, m, w) = "allowed"
  BY <1>1 DEF Allowed, Decide
<1>3. /\ w /\ Site(u) = Policy.local_web.site /\ u.form # "query" /\ u.form # "unsafe"
      /\ ~PathExcluded(Policy.local_web, u.path) /\ u.path \in Policy.local_web.allowed_paths
  BY <1>2 DEF LocalDenial
<1>4. u.form # "invalid"
  BY DEF Allowed, Decide
<1>5. u.form = "plain"
  BY <1>3, <1>4 DEF Url, Form
<1> QED
  BY <1>3, <1>5 DEF InScope, PathExcluded

-----------------------------------------------------------------------------
(***************************************************************************)
(* What any scope decides, of an application on this machine or of domains.*)
(***************************************************************************)

\* What lies under a url that lies under another lies under that one too.
LEMMA BelowIsBelow ==
  ASSUME NEW x \in Seq(STRING), NEW y \in Seq(STRING), NEW z \in Seq(STRING),
         Within(z, y), Within(y, x)
  PROVE  Within(z, x)
<1>1. /\ Len(x) <= Len(y) /\ SubSeq(x, 1, Len(x)) = SubSeq(y, 1, Len(x))
      /\ Len(y) <= Len(z) /\ SubSeq(y, 1, Len(y)) = SubSeq(z, 1, Len(y))
  BY DEF Within, IsPrefix
<1>2. Len(x) \in Nat /\ Len(y) \in Nat /\ Len(z) \in Nat
  OBVIOUS
<1>3. ASSUME NEW i \in 1..Len(y) PROVE y[i] = z[i]
  <2>1. SubSeq(y, 1, Len(y))[i] = y[i]
    BY <1>2
  <2>2. SubSeq(z, 1, Len(y))[i] = z[i]
    BY <1>1, <1>2
  <2> QED
    BY <1>1, <2>1, <2>2
<1>4. SubSeq(y, 1, Len(x)) = SubSeq(z, 1, Len(x))
  BY <1>1, <1>2, <1>3
<1> QED
  BY <1>1, <1>2, <1>4 DEF Within, IsPrefix

\* What the two validations let through, each for its type of target.
IsPolicy(p) ==
  IF p.target_type = "local_web"
  THEN p.local_web \in LocalWebScope
  ELSE p.excluded_hosts \subseteq Host /\ p.root_domains \subseteq Host

Excluded(p, u) ==
  IF p.target_type = "local_web"
  THEN PathExcluded(p.local_web, u.path)
  ELSE \E x \in p.excluded_hosts : Within(u.host, x)

Below(v, u) == Within(v.path, u.path) /\ Within(v.host, u.host)

\* What an exclusion refuses it refuses with everything below, for each type of target and
\* whatever else the policy allows by name: paths below a path, subdomains of a host.
THEOREM ExclusionsReachBelow ==
  ASSUME NEW p, IsPolicy(p), NEW u \in Url, NEW v \in Url, NEW m, NEW w \in BOOLEAN,
         Excluded(p, u), Below(v, u)
  PROVE  ~Allowed(p, v, m, w)
<1>1. /\ u.path \in Seq(STRING) /\ u.host \in Seq(STRING)
      /\ v.path \in Seq(STRING) /\ v.host \in Seq(STRING)
  BY DEF Url, Host, Path
<1>2. CASE p.target_type = "local_web"
  <2>1. PICK x \in p.local_web.excluded_paths : Within(u.path, x)
    BY <1>2 DEF Excluded, PathExcluded
  <2>2. x \in Seq(STRING)
    BY <1>2, <2>1 DEF IsPolicy, LocalWebScope, Path
  <2>3. Within(v.path, x)
    BY <1>1, <2>1, <2>2, BelowIsBelow DEF Below
  <2>4. PathExcluded(p.local_web, v.path)
    BY <2>1, <2>3 DEF PathExcluded
  <2>5. LocalDenial(p.local_web, v, m, w) # "allowed"
    BY <2>4 DEF LocalDenial
  <2> QED
    BY <1>2, <2>5 DEF Allowed, Decide
<1>3. CASE p.target_type # "local_web"
  <2>1. PICK x \in p.excluded_hosts : Within(u.host, x)
    BY <1>3 DEF Excluded
  <2>2. x \in Seq(STRING)
    BY <1>3, <2>1 DEF IsPolicy, Host
  <2>3. Within(v.host, x)
    BY <1>1, <2>1, <2>2, BelowIsBelow DEF Below
  <2>4. ~HostAllowed(p, v.host)
    BY <2>1, <2>3 DEF HostAllowed
  <2>5. DomainDenial(p, v) # "allowed"
    BY <2>4 DEF DomainDenial
  <2> QED
    BY <1>3, <2>5 DEF Allowed, Decide
<1> QED
  BY <1>2, <1>3

\* q confirms, allows and spans no more than p, and excludes no less.
NarrowerLocal(s, t) ==
  /\ s.site = t.site /\ (s.automation_allowed => t.automation_allowed)
  /\ s.allowed_methods \subseteq t.allowed_methods
  /\ s.allowed_paths \subseteq t.allowed_paths
  /\ t.excluded_paths \subseteq s.excluded_paths

NarrowerDomains(q, p) ==
  /\ q.allowed_hosts \subseteq p.allowed_hosts /\ q.allowed_ports \subseteq p.allowed_ports
  /\ \A r \in q.root_domains : \E s \in p.root_domains : Within(r, s)
  /\ p.excluded_hosts \subseteq q.excluded_hosts

Narrower(q, p) ==
  /\ q.target_type = p.target_type
  /\ (q.confirmed => p.confirmed) /\ (q.allow_network_contact => p.allow_network_contact)
  /\ p.target_type = "local_web" => NarrowerLocal(q.local_web, p.local_web)
  /\ p.target_type = "legacy" => NarrowerDomains(q, p)

\* Narrowing a scope never lets a request through that the wider one refused, though the
\* decision takes the first reason that applies and exclusions come before allowances.
THEOREM NarrowerAllowsLess ==
  ASSUME NEW p, NEW q, IsPolicy(p), IsPolicy(q), Narrower(q, p),
         NEW u \in Url, NEW m, NEW v \in BOOLEAN, NEW w \in BOOLEAN, w => v,
         Allowed(q, u, m, w)
  PROVE  Allowed(p, u, m, v)
<1>1. /\ u.form # "invalid" /\ u.port \in Port
      /\ q.confirmed /\ q.allow_network_contact /\ q.target_type \in {"local_web", "legacy"}
  BY DEF Allowed, Decide
<1>2. /\ u.form # "invalid" /\ u.port \in Port
      /\ p.confirmed /\ p.allow_network_contact /\ p.target_type \in {"local_web", "legacy"}
  BY <1>1 DEF Narrower
<1>3. CASE p.target_type = "local_web"
  <2>1. LocalDenial(q.local_web, u, m, w) = "allowed"
    BY <1>1, <1>3 DEF Allowed, Decide, Narrower
  <2>2. /\ q.local_web.automation_allowed /\ w /\ Site(u) = q.local_web.site
        /\ m \in q.local_web.allowed_methods /\ u.form # "query" /\ u.form # "unsafe"
        /\ ~PathExcluded(q.local_web, u.path) /\ u.path \in q.local_web.allowed_paths
    BY <2>1 DEF LocalDenial
  <2>3. ~PathExcluded(p.local_web, u.path)
    BY <1>3, <2>2 DEF PathExcluded, Narrower, NarrowerLocal
  <2>4. LocalDenial(p.local_web, u, m, v) = "allowed"
    BY <1>3, <2>2, <2>3 DEF LocalDenial, Narrower, NarrowerLocal
  <2> QED
    BY <1>2, <1>3, <2>4 DEF Allowed, Decide
<1>4. CASE p.target_type # "local_web"
  <2> NarrowerDomains(q, p)
    BY <1>2, <1>4 DEF Narrower
  <2>1. DomainDenial(q, u) = "allowed"
    BY <1>1, <1>4 DEF Allowed, Decide, Narrower
  <2>2. HostAllowed(q, u.host) /\ u.port \in q.allowed_ports
    BY <2>1 DEF DomainDenial
  <2>3. ~ \E x \in p.excluded_hosts : Within(u.host, x)
    BY <2>2 DEF HostAllowed, NarrowerDomains
  <2>4. u.host \in p.allowed_hosts \/ \E root \in p.root_domains : Within(u.host, root)
    <3>1. CASE u.host \in q.allowed_hosts
      BY <3>1 DEF NarrowerDomains
    <3>2. CASE \E root \in q.root_domains : Within(u.host, root)
      <4>1. PICK r \in q.root_domains : Within(u.host, r)
        BY <3>2
      <4>2. PICK s \in p.root_domains : Within(r, s)
        BY <4>1 DEF NarrowerDomains
      <4>3. u.host \in Seq(STRING) /\ r \in Seq(STRING) /\ s \in Seq(STRING)
        BY <1>1, <1>4, <4>1, <4>2 DEF Url, IsPolicy, Narrower, Host
      <4>4. Within(u.host, s)
        BY <4>1, <4>2, <4>3, BelowIsBelow
      <4> QED
        BY <4>4
    <3> QED
      BY <2>2, <3>1, <3>2 DEF HostAllowed
  <2>5. DomainDenial(p, u) = "allowed"
    BY <2>2, <2>3, <2>4 DEF DomainDenial, HostAllowed, NarrowerDomains
  <2> QED
    BY <1>2, <1>4, <2>5 DEF Allowed, Decide
<1> QED
  BY <1>3, <1>4

-----------------------------------------------------------------------------
(***************************************************************************)
(* The steps that touch the request, its count or what is late; all others *)
(* lead away from it, or stay where they are.                              *)
(***************************************************************************)

Hop == Open \/ Check \/ BeforeRequest \/ Attempt \/ Clear \/ Send
       \/ \E to \in Location : Redirect(to)

Away == {"open", "choose", "ended", "answered"} \cup Scanning

Aside ==
  /\ UNCHANGED <<count, attempts, url>> /\ late' \subseteq late
  /\ \/ pc' = pc
     \/ pc' \in Away
     \/ pc = "connecting" /\ pc' = "connected"

LEMMA OtherSteps == Next /\ ~Hop => Aside
<1> SUFFICES ASSUME Next, ~Hop PROVE Aside
  OBVIOUS
<1> USE DEF Aside, Away, Scanning, Stop, Advance, EngineStep, Leave, world, tally, engine, request
<1>1. ASSUME NEW r \in Reason, Withdraw(r) \/ Restore(r) PROVE Aside
  BY <1>1 DEF Withdraw, Restore
<1>2. ASSUME NEW i, Choose(i) PROVE Aside
  BY <1>2 DEF Choose
<1>3. CASE OpenFails \/ Recheck \/ Connected \/ Receive \/ Broken
  BY <1>3 DEF OpenFails, Recheck, Connected, Receive, Broken
<1>4. ASSUME NEW a, Read(a) PROVE Aside
  BY <1>4 DEF Read, NextAnswer
<1>5. CASE Analyse \/ AnalyseFails \/ Create \/ Inspect \/ Start \/ Verify
  BY <1>5 DEF Analyse, AnalyseFails, Create, Inspect, Start, Verify
<1>6. CASE CommandFails
  BY <1>6 DEF CommandFails
<1>7. CASE RemoveContainer \/ RemoveFails \/ InspectRemoved
  BY <1>7 DEF RemoveContainer, RemoveFails, InspectRemoved
<1>8. ASSUME NEW cited, Finish(cited) \/ AgentStops PROVE Aside
  BY <1>8 DEF Finish, AgentStops
<1> QED
  BY <1>1, <1>2, <1>3, <1>4, <1>5, <1>6, <1>7, <1>8 DEF Next, Worker, Hop

\* The worker keeps its kind, so that it looks at the same things throughout.
LEMMA KindStays == [Next]_vars => kind' = kind
<1> SUFFICES ASSUME [Next]_vars PROVE kind' = kind
  OBVIOUS
<1> USE DEF Stop, Advance, EngineStep, Leave
<1>1. CASE UNCHANGED vars
  BY <1>1 DEF vars
<1>2. ASSUME NEW r \in Reason, Withdraw(r) \/ Restore(r) PROVE kind' = kind
  BY <1>2 DEF Withdraw, Restore
<1>3. ASSUME NEW i, Choose(i) PROVE kind' = kind
  BY <1>3 DEF Choose
<1>4. CASE Open \/ OpenFails \/ Check \/ BeforeRequest \/ Recheck \/ Attempt
  BY <1>4 DEF Open, OpenFails, Check, BeforeRequest, Recheck, Attempt
<1>5. CASE Connected \/ Clear \/ Send \/ Receive \/ Broken
  BY <1>5 DEF Connected, Clear, Send, Receive, Broken
<1>6. ASSUME NEW to, Redirect(to) PROVE kind' = kind
  BY <1>6 DEF Redirect, NextHop
<1>7. ASSUME NEW a, Read(a) PROVE kind' = kind
  BY <1>7 DEF Read
<1>8. CASE Analyse \/ AnalyseFails \/ Create \/ Inspect \/ Start \/ Verify
  BY <1>8 DEF Analyse, AnalyseFails, Create, Inspect, Start, Verify
<1>9. CASE CommandFails \/ RemoveContainer \/ RemoveFails \/ InspectRemoved
  BY <1>9 DEF CommandFails, RemoveContainer, RemoveFails, InspectRemoved
<1>10. ASSUME NEW cited, Finish(cited) \/ AgentStops PROVE kind' = kind
  BY <1>10 DEF Finish, AgentStops
<1> QED
  BY <1>1, <1>2, <1>3, <1>4, <1>5, <1>6, <1>7, <1>8, <1>9, <1>10 DEF Next, Worker
-----------------------------------------------------------------------------
(***************************************************************************)
(* The number of connections: what is attempted has been counted, and the  *)
(* check that comes before has found room for it.                          *)
(***************************************************************************)

Counted ==
  /\ count \in Nat /\ attempts = count /\ count <= Limit
  /\ pc \in {"before", "recheck"} => count < Limit

LEMMA CountedStep == Counted /\ [Next]_vars => Counted'
<1> SUFFICES ASSUME Counted, [Next]_vars PROVE Counted'
  OBVIOUS
<1> Limit \in Nat /\ Limit' = Limit
  BY PolicyFacts DEF Limit
<1>1. CASE UNCHANGED vars
  BY <1>1 DEF Counted, vars
<1>2. CASE Next /\ ~Hop
  BY <1>2, OtherSteps DEF Aside, Away, Scanning, Counted
<1>3. CASE Check \/ BeforeRequest
  BY <1>3 DEF Check, BeforeRequest, Stop, Advance, Counted
<1>4. CASE Attempt
  BY <1>4 DEF Attempt, Counted
<1>5. CASE Open \/ Clear \/ Send
  BY <1>5 DEF Open, Clear, Send, Advance, Counted
<1>6. ASSUME NEW to \in Location, Redirect(to) PROVE Counted'
  BY <1>6 DEF Redirect, NextHop, Counted
<1> QED
  BY <1>1, <1>2, <1>3, <1>4, <1>5, <1>6 DEF Hop

\* However often connecting fails, redirects are followed or recipes are repeated, no
\* more connections are attempted than the scope allows.
THEOREM ProbesWithinLimit == Spec => []AttemptsWithinLimit
<1>1. Init => Counted
  BY PolicyFacts DEF Init, Counted
<1>2. Counted => AttemptsWithinLimit
  BY DEF Counted, AttemptsWithinLimit
<1> QED
  BY <1>1, <1>2, CountedStep, PTL DEF Spec

-----------------------------------------------------------------------------
(***************************************************************************)
(* Permission that is withdrawn: each check, and each gate, has found that *)
(* no reason it looks at has held ever since an earlier request.           *)
(***************************************************************************)

Relevant == SeenByCheck \cup SeenByGate \cup {"window"}

Wary ==
  /\ pc = "before" => late \cap (SeenByCheck \cup {"window"}) = {}
  /\ pc \in {"recheck", "connecting", "connected", "cleared"} => late \cap Relevant = {}

LateIsWithdrawn == late \subseteq withdrawn

LEMMA LateIsWithdrawnStep == LateIsWithdrawn /\ [Next]_vars => LateIsWithdrawn'
<1> SUFFICES ASSUME LateIsWithdrawn, [Next]_vars PROVE LateIsWithdrawn'
  OBVIOUS
<1> USE DEF LateIsWithdrawn, Stop, Advance, EngineStep, Leave, world
<1>1. CASE UNCHANGED vars
  BY <1>1 DEF vars
<1>2. ASSUME NEW r \in Reason, Withdraw(r) \/ Restore(r) PROVE LateIsWithdrawn'
  BY <1>2 DEF Withdraw, Restore
<1>3. ASSUME NEW i, Choose(i) PROVE LateIsWithdrawn'
  BY <1>3 DEF Choose
<1>4. CASE Open \/ OpenFails \/ Check \/ BeforeRequest \/ Recheck \/ Attempt
  BY <1>4 DEF Open, OpenFails, Check, BeforeRequest, Recheck, Attempt
<1>5. CASE Connected \/ Clear \/ Send \/ Receive \/ Broken
  BY <1>5 DEF Connected, Clear, Send, Receive, Broken
<1>6. ASSUME NEW to, Redirect(to) PROVE LateIsWithdrawn'
  BY <1>6 DEF Redirect, NextHop
<1>7. ASSUME NEW a, Read(a) PROVE LateIsWithdrawn'
  BY <1>7 DEF Read
<1>8. CASE Analyse \/ AnalyseFails \/ Create \/ Inspect \/ Start \/ Verify
  BY <1>8 DEF Analyse, AnalyseFails, Create, Inspect, Start, Verify
<1>9. CASE CommandFails \/ RemoveContainer \/ RemoveFails \/ InspectRemoved
  BY <1>9 DEF CommandFails, RemoveContainer, RemoveFails, InspectRemoved
<1>10. ASSUME NEW cited, Finish(cited) \/ AgentStops PROVE LateIsWithdrawn'
  BY <1>10 DEF Finish, AgentStops
<1> QED
  BY <1>1, <1>2, <1>3, <1>4, <1>5, <1>6, <1>7, <1>8, <1>9, <1>10 DEF Next, Worker

\* What is passed inside the window is passed while the window is open.
LEMMA CheckPassed ==
  ASSUME url \in Url, ~CheckDenies
  PROVE  InScope(url) /\ withdrawn \cap (SeenByCheck \cup {"window"}) = {}
<1>1. Allowed(Policy, url, Method, InWindow) /\ withdrawn \cap SeenByCheck = {}
  BY DEF CheckDenies
<1>2. InWindow \in BOOLEAN
  BY DEF InWindow
<1>3. InScope(url) /\ InWindow
  BY <1>1, <1>2, AllowedIsInScope
<1> QED
  BY <1>1, <1>3 DEF InWindow

LEMMA WaryStep == Wary /\ LateIsWithdrawn /\ url \in Url /\ [Next]_vars => Wary'
<1> SUFFICES ASSUME Wary, LateIsWithdrawn, url \in Url, [Next]_vars PROVE Wary'
  OBVIOUS
<1>0. Relevant' = Relevant /\ SeenByCheck' = SeenByCheck /\ SeenByGate' = SeenByGate
  BY KindStays DEF Relevant, SeenByCheck, SeenByGate
<1>1. CASE UNCHANGED vars
  BY <1>0, <1>1 DEF Wary, vars
<1>2. CASE Next /\ ~Hop
  BY <1>0, <1>2, OtherSteps DEF Aside, Away, Scanning, Wary
<1>3. CASE Check
  <2>1. CASE CheckDenies \/ count >= Limit
    BY <1>3, <2>1 DEF Check, Stop, Wary
  <2>2. CASE ~CheckDenies
    BY <1>0, <1>3, <2>2, CheckPassed DEF Check, Stop, Advance, Wary, LateIsWithdrawn
  <2> QED
    BY <2>1, <2>2
<1>4. CASE BeforeRequest
  BY <1>0, <1>4 DEF BeforeRequest, GateDenies, Stop, Advance, Wary, LateIsWithdrawn, Relevant
<1>5. CASE Attempt \/ Open \/ Clear \/ Send
  BY <1>0, <1>5 DEF Attempt, Open, Clear, Send, Advance, Wary
<1>6. ASSUME NEW to \in Location, Redirect(to) PROVE Wary'
  BY <1>6 DEF Redirect, NextHop, Wary
<1> QED
  BY <1>1, <1>2, <1>3, <1>4, <1>5, <1>6 DEF Hop
-----------------------------------------------------------------------------
(***************************************************************************)
(* What has been fetched: the recipe in hand is not finished, and one that *)
(* was carried out has an answer to each of its fetches.  Only a           *)
(* comparison of roles takes other answers than the expected one.          *)
(***************************************************************************)

Accepted == IF kind = "business" THEN Answer ELSE {"match"}

InHand ==
  pc \in Sending => /\ recipe \in DOMAIN Recipes /\ answers \in Seq(Accepted)
                    /\ Len(answers) < Len(Fetches)

Recited ==
  /\ kind \in Kind
  /\ InHand
  /\ observed \in [DOMAIN Recipes -> Seq(Accepted)]
  /\ \A i \in DOMAIN Recipes : observed[i] = <<>> \/ Len(observed[i]) = Len(Recipes[i])

\* All but the choice of a recipe and the reading of an answer leave these alone.
LEMMA OtherRecipeSteps ==
  ASSUME Next, ~(\E i \in DOMAIN Recipes : Choose(i)), ~(\E a \in Answer : Read(a))
  PROVE  UNCHANGED <<recipe, answers, observed>> /\ (pc' \in Sending => pc \in Sending)
<1> DEFINE Goal == UNCHANGED <<recipe, answers, observed>> /\ (pc' \in Sending => pc \in Sending)
<1> USE DEF Sending, Stop, Advance, EngineStep, Leave, tally
<1>1. ASSUME NEW r \in Reason, Withdraw(r) \/ Restore(r) PROVE Goal
  BY <1>1 DEF Withdraw, Restore
<1>2. CASE Open \/ OpenFails \/ Check \/ BeforeRequest \/ Recheck \/ Attempt
  BY <1>2 DEF Open, OpenFails, Check, BeforeRequest, Recheck, Attempt
<1>3. CASE Connected \/ Clear \/ Send \/ Receive \/ Broken
  BY <1>3 DEF Connected, Clear, Send, Receive, Broken
<1>4. ASSUME NEW to, Redirect(to) PROVE Goal
  BY <1>4 DEF Redirect, NextHop
<1>5. CASE Analyse \/ AnalyseFails \/ Create \/ Inspect \/ Start \/ Verify
  BY <1>5 DEF Analyse, AnalyseFails, Create, Inspect, Start, Verify
<1>6. CASE CommandFails
  BY <1>6 DEF CommandFails
<1>7. CASE RemoveContainer \/ RemoveFails \/ InspectRemoved
  BY <1>7 DEF RemoveContainer, RemoveFails, InspectRemoved
<1>8. ASSUME NEW cited, Finish(cited) \/ AgentStops PROVE Goal
  BY <1>8 DEF Finish, AgentStops
<1> QED
  BY <1>1, <1>2, <1>3, <1>4, <1>5, <1>6, <1>7, <1>8 DEF Next, Worker

LEMMA RecipesType == ASSUME kind \in Kind PROVE Recipes \in Seq(Seq(Fetch) \ {<<>>})
BY ProbeAssumption DEF Recipes

LEMMA RecitedStep == Recited /\ [Next]_vars => Recited'
<1> SUFFICES ASSUME Recited, [Next]_vars PROVE Recited'
  OBVIOUS
<1>1. kind' = kind /\ Recipes' = Recipes /\ Accepted' = Accepted
  BY KindStays DEF Recipes, Accepted
<1>2. ASSUME UNCHANGED <<recipe, answers, observed>>, pc' \in Sending => pc \in Sending
      PROVE  Recited'
  BY <1>1, <1>2 DEF Recited, InHand, Fetches
<1>3. CASE UNCHANGED vars
  BY <1>2, <1>3 DEF vars, tally
<1>4. ASSUME NEW i \in DOMAIN Recipes, Choose(i) PROVE Recited'
  <2>1. Recipes[i] \in Seq(Fetch) /\ Recipes[i] # <<>>
    BY RecipesType DEF Recited
  <2>2. Len(Recipes[i]) > 0
    BY <2>1
  <2>3. recipe' = i /\ answers' = <<>> /\ observed' = observed
    BY <1>4 DEF Choose, tally
  <2>4. InHand'
    BY <1>1, <2>2, <2>3 DEF InHand, Fetches
  <2> QED
    BY <1>1, <2>3, <2>4 DEF Recited
<1>5. ASSUME NEW a \in Answer, Read(a) PROVE Recited'
  <2>1. pc = "answered" /\ a \in Accepted
    BY <1>5 DEF Read, Accepted
  <2>2. recipe \in DOMAIN Recipes /\ answers \in Seq(Accepted) /\ Len(answers) < Len(Fetches)
    BY <2>1 DEF Recited, InHand, Sending
  <2>3. Len(Fetches) \in Nat
    BY <2>2, RecipesType DEF Recited, Fetches
  <2>4. Append(answers, a) \in Seq(Accepted) /\ Len(Append(answers, a)) = Len(answers) + 1
    BY <2>1, <2>2
  <2>5. CASE Len(answers) + 1 < Len(Fetches)
    <3>1. answers' = Append(answers, a) /\ UNCHANGED <<recipe, observed>>
      BY <1>5, <2>5 DEF Read, NextAnswer
    <3>2. InHand'
      BY <1>1, <2>2, <2>4, <2>5, <3>1 DEF InHand, Fetches
    <3> QED
      BY <1>1, <3>1, <3>2 DEF Recited
  <2>6. CASE Len(answers) + 1 >= Len(Fetches)
    <3>1. observed' = [observed EXCEPT ![recipe] = Append(answers, a)] /\ pc' = "choose"
      BY <1>5, <2>2, <2>3, <2>6 DEF Read, NextAnswer
    <3>2. Len(Append(answers, a)) = Len(Recipes[recipe])
      BY <2>2, <2>3, <2>4, <2>6 DEF Fetches
    <3>3. InHand'
      BY <3>1 DEF InHand, Sending
    <3>4. observed' \in [DOMAIN Recipes -> Seq(Accepted)]
      BY <2>2, <2>4, <3>1 DEF Recited
    <3>5. \A i \in DOMAIN Recipes : observed'[i] = <<>> \/ Len(observed'[i]) = Len(Recipes[i])
      BY <2>2, <3>1, <3>2 DEF Recited
    <3> QED
      BY <1>1, <3>3, <3>4, <3>5 DEF Recited
  <2> QED
    BY <2>2, <2>3, <2>5, <2>6
<1> QED
  BY <1>2, <1>3, <1>4, <1>5, OtherRecipeSteps

LEMMA RecitedInit == Init => Recited
<1> SUFFICES ASSUME Init PROVE Recited
  OBVIOUS
<1>1. observed \in [DOMAIN Recipes -> Seq(Accepted)]
  BY DEF Init
<1> QED
  BY <1>1 DEF Init, Recited, InHand, Sending

-----------------------------------------------------------------------------
(***************************************************************************)
(* Where a request goes.                                                   *)
(***************************************************************************)

Routed == url \in Url /\ (pc \in {"cleared", "receiving"} => InScope(url))

LEMMA ElementsOf == ASSUME NEW S, NEW s \in Seq(S), NEW i \in DOMAIN s PROVE s[i] \in S
OBVIOUS

LEMMA PlanUrls ==
  /\ Plan \in Seq([url : Url, method : {"GET", "HEAD"}])
  /\ \A i \in DOMAIN Plan : Plan[i].url \in Url
  /\ \A r \in Range(Plan) : r.url \in Url
<1>1. Plan \in Seq([url : Url, method : {"GET", "HEAD"}])
  BY ProbeAssumption
<1>2. ASSUME NEW i \in DOMAIN Plan PROVE Plan[i].url \in Url
  <2>1. Plan[i] \in [url : Url, method : {"GET", "HEAD"}]
    BY <1>1, ElementsOf, Zenon
  <2> QED
    BY <2>1
<1> QED
  BY <1>1, <1>2 DEF Range

LEMMA RoutedStep == Routed /\ Recited /\ [Next]_vars => Routed'
<1> SUFFICES ASSUME Routed, Recited, [Next]_vars PROVE Routed'
  OBVIOUS
<1>1. CASE UNCHANGED vars
  BY <1>1 DEF Routed, vars, request
<1>2. CASE Next /\ ~Hop
  BY <1>2, OtherSteps DEF Aside, Away, Scanning, Routed
<1>3. CASE Open
  <2>1. recipe \in DOMAIN Recipes /\ Len(answers) < Len(Fetches) /\ answers \in Seq(Accepted)
    BY <1>3 DEF Open, Recited, InHand, Sending
  <2>2. Fetches \in Seq(Fetch)
    BY <2>1, RecipesType DEF Recited, Fetches
  <2>3. Current \in Fetch
    BY <2>1, <2>2 DEF Current
  <2>4. Current.request \in Range(Plan)
    BY <2>3 DEF Fetch
  <2>5. url' \in Url /\ pc' = "check"
    BY <1>3, <2>4, PlanUrls DEF Open
  <2> QED
    BY <2>5 DEF Routed
<1>4. CASE Clear
  BY <1>4, CheckPassed DEF Clear, Advance, Routed, request
<1>5. CASE Check \/ BeforeRequest \/ Attempt \/ Send
  BY <1>5 DEF Check, BeforeRequest, Attempt, Send, Stop, Advance, Routed, request
<1>6. ASSUME NEW to \in Location, Redirect(to) PROVE Routed'
  BY <1>6, ProbeAssumption DEF Redirect, NextHop, Routed
<1> QED
  BY <1>1, <1>2, <1>3, <1>4, <1>5, <1>6 DEF Hop

LEMMA RoutedInit == Init => Routed
<1> SUFFICES ASSUME Init PROVE Routed
  OBVIOUS
<1>1. Len(Plan) >= 1
  <2>1. ValidPlan(Policy, Plan)
    BY ProbeAssumption
  <2>2. Len(Plan) \in 1..64
    BY <2>1 DEF ValidPlan
  <2>3. PICK n \in 1..64 : n = Len(Plan)
    BY <2>2
  <2>4. n >= 1
    OBVIOUS
  <2> QED
    BY <2>3, <2>4
<1>2. Plan[1].url \in Url
  <2>1. 1 \in DOMAIN Plan
    BY <1>1, PlanUrls
  <2> QED
    BY <2>1, PlanUrls
<1> QED
  BY <1>2 DEF Init, Routed

\* Whatever a redirect says, a request that goes out goes to the approved site, to an
\* approved path that lies under no excluded one.
THEOREM ProbesStayInScope == Spec => []SentInScope
<1>1. Routed => SentInScope
  BY DEF Routed, SentInScope, InScope
<1> QED
  BY <1>1, RecitedInit, RoutedInit, RecitedStep, RoutedStep, PTL DEF Spec

\* While permission is withdrawn for a reason the worker looks at, one request may slip
\* out, and no second one.
THEOREM OneRequestAfterWithdrawal == Spec => OnceAfterWithdrawal
<1>1. Init => Wary /\ LateIsWithdrawn
  BY DEF Init, Wary, LateIsWithdrawn
<1>2. Wary => [pc = "cleared" /\ pc' = "receiving" =>
                 late \cap (SeenByCheck \cup SeenByGate \cup {"window"}) = {}]_vars
  BY DEF Wary, Relevant
<1>3. Routed => url \in Url
  BY DEF Routed
<1> QED
  BY <1>1, <1>2, <1>3, RecitedInit, RoutedInit, RecitedStep, RoutedStep, LateIsWithdrawnStep,
     WaryStep, PTL DEF Spec, OnceAfterWithdrawal
-----------------------------------------------------------------------------
(***************************************************************************)
(* The end of the work.                                                    *)
(***************************************************************************)

\* Nothing happens once the work has ended, and it is completed by Finish alone.
LEMMA EndsOnce ==
  ASSUME Next
  PROVE  /\ pc # "ended"
         /\ \/ outcome' = outcome /\ pc' # "ended"
            \/ pc' = "ended" /\ outcome' # "completed"
            \/ \E cited \in SUBSET Done : Finish(cited) /\ Ready(cited)
<1> DEFINE Goal == /\ pc # "ended"
                   /\ \/ outcome' = outcome /\ pc' # "ended"
                      \/ pc' = "ended" /\ outcome' # "completed"
                      \/ \E cited \in SUBSET Done : Finish(cited) /\ Ready(cited)
<1> USE DEF Stop, Advance, EngineStep, Leave
<1>1. ASSUME NEW r \in Reason, pc # "ended", Withdraw(r) \/ Restore(r) PROVE Goal
  BY <1>1 DEF Withdraw, Restore
<1>2. ASSUME NEW i, Choose(i) PROVE Goal
  BY <1>2 DEF Choose
<1>3. CASE Open \/ OpenFails \/ Check \/ BeforeRequest \/ Recheck \/ Attempt
  BY <1>3 DEF Open, OpenFails, Check, BeforeRequest, Recheck, Attempt
<1>4. CASE Connected \/ Clear \/ Send \/ Receive \/ Broken
  BY <1>4 DEF Connected, Clear, Send, Receive, Broken
<1>5. ASSUME NEW to, Redirect(to) PROVE Goal
  BY <1>5 DEF Redirect, NextHop
<1>6. ASSUME NEW a, Read(a) PROVE Goal
  BY <1>6 DEF Read, NextAnswer
<1>7. CASE Analyse \/ AnalyseFails \/ Create \/ Inspect \/ Start \/ Verify
  BY <1>7 DEF Analyse, AnalyseFails, Create, Inspect, Start, Verify
<1>8. CASE CommandFails
  BY <1>8 DEF CommandFails
<1>9. CASE RemoveContainer \/ RemoveFails \/ InspectRemoved
  BY <1>9 DEF RemoveContainer, RemoveFails, InspectRemoved
<1>10. ASSUME NEW cited \in SUBSET Done, Finish(cited) PROVE Goal
  BY <1>10 DEF Finish
<1>11. CASE AgentStops
  BY <1>11 DEF AgentStops
<1> QED
  BY <1>1, <1>2, <1>3, <1>4, <1>5, <1>6, <1>7, <1>8, <1>9, <1>10, <1>11 DEF Next, Worker

Told == (outcome # "none" => pc = "ended") /\ CompletedIsCovered

\* Observations that make the work ready cover all of it.
LEMMA ReadyIsCovered ==
  ASSUME Recited, NEW cited \in SUBSET Done, Ready(cited)
  PROVE  /\ \A i \in DOMAIN Recipes : Len(observed[i]) = Len(Recipes[i])
         /\ \A i \in DOMAIN Recipes : \A k \in DOMAIN Recipes[i] :
              \/ observed[i][k] = "match"
              \/ observed[i][k] = "refused" /\ ~Recipes[i][k].expected
         /\ kind = "passive" => analysed
<1>1. ASSUME NEW i \in DOMAIN Recipes PROVE i \in cited /\ Len(observed[i]) = Len(Recipes[i])
  BY <1>1 DEF Ready, Done, Recited
<1>2. ASSUME NEW i \in DOMAIN Recipes, NEW k \in DOMAIN Recipes[i]
      PROVE  \/ observed[i][k] = "match"
             \/ observed[i][k] = "refused" /\ ~Recipes[i][k].expected
  <2>1. CASE kind = "business"
    <3>1. Validated(i)
      BY <1>1, <2>1 DEF Ready
    <3> QED
      BY <3>1 DEF Validated
  <2>2. CASE kind # "business"
    <3>1. observed[i] \in Seq({"match"}) /\ Len(observed[i]) = Len(Recipes[i])
      BY <1>1, <2>2 DEF Recited, Accepted
    <3>2. Recipes[i] \in Seq(Fetch)
      BY RecipesType DEF Recited
    <3>3. k \in DOMAIN observed[i]
      BY <3>1, <3>2
    <3> QED
      BY <3>1, <3>3
  <2> QED
    BY <2>1, <2>2
<1> QED
  BY <1>1, <1>2 DEF Ready

LEMMA ToldStep == Told /\ Recited /\ [Next]_vars => Told'
<1> SUFFICES ASSUME Told, Recited, [Next]_vars PROVE Told'
  OBVIOUS
<1>1. CASE UNCHANGED vars
  BY <1>1 DEF Told, CompletedIsCovered, vars, tally, Recipes
<1>2. CASE Next
  <2>1. outcome = "none"
    BY <1>2, EndsOnce DEF Told
  <2>2. ASSUME NEW cited \in SUBSET Done, Finish(cited), Ready(cited) PROVE Told'
    <3>1. UNCHANGED <<kind, observed, analysed>> /\ pc' = "ended"
      BY <2>2 DEF Finish, Stop, tally
    <3>2. Recipes' = Recipes
      BY <3>1 DEF Recipes
    <3> QED
      BY <2>2, <3>1, <3>2, ReadyIsCovered DEF Told, CompletedIsCovered
  <2>3. CASE outcome' = outcome
    BY <2>1, <2>3 DEF Told, CompletedIsCovered
  <2>4. CASE pc' = "ended" /\ outcome' # "completed"
    BY <2>4 DEF Told, CompletedIsCovered
  <2> QED
    BY <1>2, <2>2, <2>3, <2>4, EndsOnce
<1> QED
  BY <1>1, <1>2

\* Work that is reported as completed has an answer to every fetch of every recipe, a
\* definite one where roles are compared, and the scanner's report where one is due,
\* whatever an agent cites.
THEOREM CompletedProbeIsCovered == Spec => []CompletedIsCovered
<1>1. Init => Told
  BY DEF Init, Told, CompletedIsCovered
<1>2. Told => CompletedIsCovered
  BY DEF Told
<1> QED
  BY <1>1, <1>2, RecitedInit, RecitedStep, ToldStep, PTL DEF Spec

-----------------------------------------------------------------------------
(***************************************************************************)
(* The container of the scanner.  What the engine printed last says that   *)
(* it does not exist only after a removal that has removed it.             *)
(***************************************************************************)

Held ==
  /\ container # "none" => pc \in Scanning \/ (pc = "ended" /\ outcome = "tool_cleanup_failed")
  /\ pc \in Scanning => ~analysed
  /\ ~analysed /\ pc \notin {"removed", "ended"} => said = "other"
  /\ said = "missing" => container = "none"

\* Outside the scan nothing of it moves.
LEMMA HeldOutside ==
  ASSUME Held, pc \notin Scanning, pc # "ended", UNCHANGED <<engine, analysed>>,
         pc' \notin Scanning \/ (pc' = "create" /\ ~analysed), pc' # "removed"
  PROVE  Held'
BY DEF Held, engine, Scanning

LEMMA HeldStep == Held /\ [Next]_vars => Held'
<1> SUFFICES ASSUME Held, [Next]_vars PROVE Held'
  OBVIOUS
<1> USE DEF Stop, Advance, tally
<1>1. CASE UNCHANGED vars
  BY <1>1 DEF Held, vars, engine
<1>2. ASSUME NEW r \in Reason, Withdraw(r) \/ Restore(r) PROVE Held'
  BY <1>2 DEF Withdraw, Restore, Held, engine
<1>3. ASSUME NEW i, Choose(i) PROVE Held'
  BY <1>3, HeldOutside DEF Choose, Scanning
<1>4. CASE Open \/ OpenFails \/ Check \/ BeforeRequest \/ Recheck \/ Attempt
  BY <1>4, HeldOutside DEF Open, OpenFails, Check, BeforeRequest, Recheck, Attempt, Scanning
<1>5. CASE Connected \/ Clear \/ Send \/ Receive \/ Broken
  BY <1>5, HeldOutside DEF Connected, Clear, Send, Receive, Broken, Scanning
<1>6. ASSUME NEW to, Redirect(to) PROVE Held'
  BY <1>6, HeldOutside DEF Redirect, NextHop, Scanning
<1>7. ASSUME NEW a, Read(a) PROVE Held'
  BY <1>7, HeldOutside DEF Read, NextAnswer, Scanning
<1>8. CASE Analyse \/ AnalyseFails \/ AgentStops
  BY <1>8, HeldOutside DEF Analyse, AnalyseFails, AgentStops, Scanning
<1>9. ASSUME NEW cited, Finish(cited) PROVE Held'
  BY <1>9, HeldOutside DEF Finish, Scanning
<1>10. CASE Create \/ Inspect \/ Start \/ Verify
  BY <1>10 DEF Create, Inspect, Start, Verify, EngineStep, Held, engine, Scanning
<1>11. CASE CommandFails
  <2>1. /\ pc \in {"create", "inspect", "start", "verify"} /\ said' = "other"
        /\ pc' = "remove" /\ analysed' = analysed
    BY <1>11 DEF CommandFails, EngineStep
  <2> QED
    BY <2>1 DEF Held, Scanning
<1>12. CASE RemoveContainer
  BY <1>12 DEF RemoveContainer, Leave, Held, Scanning
<1>13. CASE RemoveFails
  BY <1>13 DEF RemoveFails, EngineStep, Held, Scanning
<1>14. CASE InspectRemoved
  <2>1. PICK answered \in {FALSE} \cup (IF container # "none" THEN {TRUE} ELSE {}) :
           /\ said' \in IF answered THEN {"other"}
                        ELSE {said, IF container = "none" THEN "missing" ELSE "other"}
           /\ Leave(Gone(answered, said'))
    BY <1>14 DEF InspectRemoved
  <2>2. pc = "removed" /\ container' = container /\ report' = report
    BY <1>14 DEF InspectRemoved
  <2>3. said' = "missing" => container = "none"
    BY <2>1 DEF Held
  <2>4. CASE Gone(answered, said') /\ report
    BY <2>1, <2>2, <2>3, <2>4 DEF Leave, Gone, Held, Scanning
  <2>5. CASE Gone(answered, said') /\ ~report
    BY <2>1, <2>2, <2>3, <2>5 DEF Leave, Gone, Held, Scanning
  <2>6. CASE ~Gone(answered, said')
    BY <2>1, <2>2, <2>3, <2>6 DEF Leave, Held, Scanning
  <2> QED
    BY <2>4, <2>5, <2>6
<1> QED
  BY <1>1, <1>2, <1>3, <1>4, <1>5, <1>6, <1>7, <1>8, <1>9, <1>10, <1>11, <1>12, <1>13, <1>14
  DEF Next, Worker

\* When the work is over the container is gone, or that it could not be removed is what
\* is reported: however the commands of the engine fail or are killed.
THEOREM NoContainerUnreported == Spec => []ContainerIsReported
<1>1. Init => Held
  BY DEF Init, Held, Scanning
<1>2. Held => ContainerIsReported
  BY DEF Held, ContainerIsReported, Scanning
<1> QED
  BY <1>1, <1>2, HeldStep, PTL DEF Spec

-----------------------------------------------------------------------------
(***************************************************************************)
(* Type correctness: what the invariants above leave to say.               *)
(***************************************************************************)

Routes == {r.url : r \in Range(Plan)} \cup Location

\* What the permission, the request and the agent's part look like.
RequestShape ==
  /\ free \in BOOLEAN /\ withdrawn \subseteq Reason
  /\ url \in Routes /\ hop \in 0..MaxRedirects
  /\ recipe \in DOMAIN Recipes \cup {0} /\ answers \in Seq(Answer)

\* What the scanner and the end look like.
ReportShape ==
  /\ pc \in PC
  /\ container \in Container /\ said \in {"other", "missing"}
  /\ report \in BOOLEAN /\ analysed \in BOOLEAN
  /\ outcome \in Outcome /\ (outcome # "none" <=> pc = "ended")

LEMMA RequestShapeStep == RequestShape /\ Recited /\ [Next]_vars => RequestShape'
<1> SUFFICES ASSUME RequestShape, Recited, [Next]_vars PROVE RequestShape'
  OBVIOUS
<1> USE DEF Stop, Advance, EngineStep, Leave, world, request
<1>1. kind' = kind /\ Recipes' = Recipes
  BY KindStays DEF Recipes
<1>2. Routes' = Routes
  BY DEF Routes
<1>3. ASSUME UNCHANGED <<free, url, hop, recipe, answers>>, withdrawn' \subseteq Reason
      PROVE  RequestShape'
  BY <1>1, <1>2, <1>3 DEF RequestShape
<1>4. CASE UNCHANGED vars
  BY <1>3, <1>4 DEF vars, RequestShape
<1>5. ASSUME NEW r \in Reason, Withdraw(r) \/ Restore(r) PROVE RequestShape'
  BY <1>3, <1>5 DEF Withdraw, Restore, RequestShape
<1>6. ASSUME NEW i \in DOMAIN Recipes, Choose(i) PROVE RequestShape'
  <2>1. recipe' = i /\ answers' = <<>> /\ UNCHANGED <<free, url, hop, withdrawn>>
    BY <1>6 DEF Choose
  <2>2. answers' \in Seq(Answer)
    BY <2>1
  <2> QED
    BY <1>1, <1>2, <2>1, <2>2 DEF RequestShape
<1>7. CASE Open
  <2>1. /\ UNCHANGED <<free, withdrawn, recipe, answers>> /\ url' = Current.request.url /\ hop' = 0
        /\ pc = "open"
    BY <1>7 DEF Open
  <2>2. recipe \in DOMAIN Recipes /\ answers \in Seq(Accepted) /\ Len(answers) < Len(Fetches)
    BY <2>1 DEF Recited, InHand, Sending
  <2>3. Fetches \in Seq(Fetch)
    BY <2>2, RecipesType DEF Recited, Fetches
  <2>4. Len(answers) + 1 \in DOMAIN Fetches
    BY <2>2, <2>3
  <2>5. Current \in Fetch
    BY <2>3, <2>4 DEF Current
  <2>6. Current.request \in Range(Plan)
    BY <2>5 DEF Fetch
  <2>7. url' \in Routes /\ hop' \in 0..MaxRedirects
    BY <2>1, <2>6 DEF Routes, MaxRedirects
  <2> QED
    BY <1>1, <1>2, <2>1, <2>7 DEF RequestShape
<1>8. ASSUME NEW to \in Location, Redirect(to) PROVE RequestShape'
  <2>1. UNCHANGED <<free, withdrawn, recipe, answers>> /\ url' = to /\ hop' = hop + 1 /\ hop < MaxRedirects
    BY <1>8 DEF Redirect, NextHop
  <2>2. url' \in Routes /\ hop' \in 0..MaxRedirects
    BY <2>1 DEF Routes, MaxRedirects, RequestShape
  <2> QED
    BY <1>1, <1>2, <2>1, <2>2 DEF RequestShape
<1>9. ASSUME NEW a \in Answer, Read(a) PROVE RequestShape'
  <2>1. UNCHANGED <<free, withdrawn, url, hop>> /\ NextAnswer(a)
    BY <1>9 DEF Read
  <2>2. Append(answers, a) \in Seq(Answer) /\ <<>> \in Seq(Answer)
    BY DEF RequestShape
  <2>3. recipe' \in {recipe, 0} /\ answers' \in Seq(Answer)
    BY <2>1, <2>2 DEF NextAnswer
  <2> QED
    BY <1>1, <1>2, <2>1, <2>3 DEF RequestShape
<1>10. CASE OpenFails \/ Check \/ BeforeRequest \/ Recheck \/ Attempt \/ Connected \/ Clear \/ Send
            \/ Receive \/ Broken
  BY <1>3, <1>10 DEF OpenFails, Check, BeforeRequest, Recheck, Attempt, Connected, Clear, Send,
     Receive, Broken, RequestShape
<1>11. CASE Analyse \/ AnalyseFails \/ Create \/ Inspect \/ Start \/ Verify \/ CommandFails
  BY <1>3, <1>11 DEF Analyse, AnalyseFails, Create, Inspect, Start, Verify, CommandFails, RequestShape
<1>12. CASE RemoveContainer \/ RemoveFails \/ InspectRemoved
  BY <1>3, <1>12 DEF RemoveContainer, RemoveFails, InspectRemoved, RequestShape
<1>13. ASSUME NEW cited, Finish(cited) \/ AgentStops PROVE RequestShape'
  BY <1>3, <1>13 DEF Finish, AgentStops, RequestShape
<1> QED
  BY <1>4, <1>5, <1>6, <1>7, <1>8, <1>9, <1>10, <1>11, <1>12, <1>13 DEF Next, Worker

LEMMA ReportShapeStep == ReportShape /\ [Next]_vars => ReportShape'
<1> SUFFICES ASSUME ReportShape, [Next]_vars PROVE ReportShape'
  OBVIOUS
<1> /\ {"choose", "open", "check", "before", "recheck", "connecting", "connected", "cleared",
        "receiving", "answered", "create", "inspect", "start", "verify", "remove", "removed",
        "ended"} = PC
    /\ {"none", "created", "running", "exited"} = Container
    /\ {"none", "completed", "review", "stopped", "tool_cleanup_failed"} = Outcome
  BY DEF PC, Sending, Scanning, Container, Outcome
<1> USE DEF Stop, Advance, EngineStep, tally, engine
<1>1. CASE UNCHANGED vars
  BY <1>1 DEF ReportShape, vars
<1>2. ASSUME NEW r \in Reason, Withdraw(r) \/ Restore(r) PROVE ReportShape'
  BY <1>2 DEF Withdraw, Restore, ReportShape
<1>3. ASSUME NEW i, Choose(i) PROVE ReportShape'
  BY <1>3 DEF Choose, ReportShape
<1>4. CASE Open \/ OpenFails \/ Check \/ BeforeRequest \/ Recheck \/ Attempt
  BY <1>4 DEF Open, OpenFails, Check, BeforeRequest, Recheck, Attempt, ReportShape
<1>5. CASE Connected \/ Clear \/ Send \/ Receive \/ Broken
  BY <1>5 DEF Connected, Clear, Send, Receive, Broken, ReportShape
<1>6. ASSUME NEW to, Redirect(to) PROVE ReportShape'
  BY <1>6 DEF Redirect, NextHop, ReportShape
<1>7. ASSUME NEW a, Read(a) PROVE ReportShape'
  BY <1>7 DEF Read, NextAnswer, ReportShape
<1>8. CASE Analyse \/ AnalyseFails \/ AgentStops
  BY <1>8 DEF Analyse, AnalyseFails, AgentStops, ReportShape
<1>9. ASSUME NEW cited, Finish(cited) PROVE ReportShape'
  BY <1>9 DEF Finish, ReportShape
<1>10. CASE Create \/ Inspect \/ Start \/ Verify
  BY <1>10 DEF Create, Inspect, Start, Verify, ReportShape
<1>11. CASE CommandFails
  <2>1. /\ said' = "other" /\ container' \in Container /\ pc' = "remove" /\ pc # "ended"
        /\ UNCHANGED <<report, analysed, outcome>>
    BY <1>11 DEF CommandFails, ReportShape
  <2> QED
    BY <2>1 DEF ReportShape
<1>12. CASE RemoveFails
  <2>1. /\ said' \in {said, "other", "missing"} /\ container' \in {"none", container}
        /\ pc' = "removed" /\ pc # "ended" /\ UNCHANGED <<report, analysed, outcome>>
    BY <1>12 DEF RemoveFails
  <2> QED
    BY <2>1 DEF ReportShape
<1>13. ASSUME NEW cleaned \in BOOLEAN, Leave(cleaned), pc \in {"remove", "removed"},
              container' \in Container, said' \in {"other", "missing"}, report' = report
       PROVE  ReportShape'
  <2>1. CASE cleaned /\ report
    BY <1>13, <2>1 DEF Leave, ReportShape
  <2>2. CASE ~(cleaned /\ report)
    <3>1. /\ pc' = "ended" /\ analysed' = analysed
          /\ outcome' \in {"stopped", "tool_cleanup_failed"}
      BY <1>13, <2>2 DEF Leave
    <3> QED
      BY <1>13, <3>1 DEF ReportShape
  <2> QED
    BY <2>1, <2>2
<1>14. CASE RemoveContainer
  <2>1. Leave(TRUE) /\ pc = "remove" /\ container' = "none" /\ said' = said /\ report' = report
    BY <1>14 DEF RemoveContainer
  <2> QED
    BY <1>13, <2>1 DEF ReportShape
<1>15. CASE InspectRemoved
  <2>1. PICK answered \in BOOLEAN :
           /\ said' \in IF answered THEN {"other"}
                        ELSE {said, IF container = "none" THEN "missing" ELSE "other"}
           /\ Leave(Gone(answered, said'))
    BY <1>15 DEF InspectRemoved
  <2>2. /\ said' \in {"other", "missing"} /\ Gone(answered, said') \in BOOLEAN
        /\ pc = "removed" /\ container' = container /\ report' = report
    BY <1>15, <2>1 DEF InspectRemoved, ReportShape, Gone
  <2> QED
    BY <1>13, <2>1, <2>2 DEF ReportShape
<1> QED
  BY <1>1, <1>2, <1>3, <1>4, <1>5, <1>6, <1>7, <1>8, <1>9, <1>10, <1>11, <1>12, <1>14, <1>15
  DEF Next, Worker

LEMMA ShapeInit == Init => RequestShape /\ ReportShape
<1> SUFFICES ASSUME Init PROVE RequestShape /\ ReportShape
  OBVIOUS
<1>1. Plan[1].url \in Routes
  <2>1. ValidPlan(Policy, Plan)
    BY ProbeAssumption
  <2>2. Len(Plan) \in 1..64
    BY ONLY <2>1 DEF ValidPlan
  <2>3. 1 \in DOMAIN Plan
    <3>1. Plan \in Seq([url : Url, method : {"GET", "HEAD"}])
      BY PlanUrls
    <3> QED
      BY ONLY <2>2, <3>1
  <2>4. Plan[1] \in Range(Plan)
    BY <2>3 DEF Range
  <2> QED
    BY <2>4 DEF Routes
<1>2. free \in BOOLEAN
  <2>1. free \in (IF kind = "shell" THEN {FALSE} ELSE BOOLEAN)
    BY DEF Init
  <2>2. (IF kind = "shell" THEN {FALSE} ELSE BOOLEAN) \subseteq BOOLEAN
    BY ONLY Zenon
  <2> QED
    BY ONLY <2>1, <2>2, Zenon
<1>3. RequestShape
  BY <1>1, <1>2 DEF Init, RequestShape, MaxRedirects
<1> QED
  BY <1>3 DEF Init, ReportShape, PC, Container, Outcome

\* The worker's fields keep their types: whatever is being sent has a recipe in hand with a
\* fetch to come, and goes to a planned url or to one a redirect may point to.
THEOREM ProbeType == Spec => []TypeOK
<1>1. RequestShape /\ ReportShape /\ Recited /\ Counted /\ LateIsWithdrawn => TypeOK
  <2> SUFFICES ASSUME RequestShape, ReportShape, Recited, Counted, LateIsWithdrawn PROVE TypeOK
    OBVIOUS
  <2>1. pc \in Sending => recipe # 0 /\ Len(answers) < Len(Fetches)
    <3>1. 0 \notin DOMAIN Recipes
      BY RecipesType DEF Recited
    <3> QED
      BY <3>1 DEF Recited, InHand
  <2>2. count \in 0..Limit /\ attempts \in Nat
    BY PolicyFacts DEF Counted
  <2>3. observed \in [DOMAIN Recipes -> Seq(Answer)]
    <3>1. Seq(Accepted) \subseteq Seq(Answer)
      BY DEF Accepted, Answer
    <3> QED
      BY <3>1 DEF Recited
  <2> QED
    BY <2>1, <2>2, <2>3 DEF RequestShape, ReportShape, Recited, LateIsWithdrawn, TypeOK, Routes
<1>2. Init => Counted /\ LateIsWithdrawn
  BY PolicyFacts DEF Init, Counted, LateIsWithdrawn
<1> QED
  BY <1>1, <1>2, ShapeInit, RecitedInit, RequestShapeStep, ReportShapeStep, RecitedStep, CountedStep,
     LateIsWithdrawnStep, PTL DEF Spec

-----------------------------------------------------------------------------
(***************************************************************************)
(* The work runs out: an attempt uses up a connection, and every other     *)
(* step of the worker leads on to the next attempt, or to the end.         *)
(***************************************************************************)

Onward == /\ attempts' = attempts /\ StepsLeft[pc] \in Nat
          /\ StepsLeft'[pc'] \in 0..(StepsLeft[pc] - 1)

LEMMA WorkerGoesOn ==
  ASSUME Worker, ~Attempt
  PROVE  Onward
<1> USE DEF Onward, StepsLeft, Advance, Stop, EngineStep
<1>1. ASSUME NEW i, Choose(i) PROVE Onward
  BY <1>1 DEF Choose
<1>2. CASE Open \/ OpenFails
  BY <1>2 DEF Open, OpenFails
<1>3. CASE Check \/ BeforeRequest \/ Recheck
  BY <1>3 DEF Check, BeforeRequest, Recheck
<1>4. CASE Connected \/ Clear \/ Send \/ Receive
  BY <1>4 DEF Connected, Clear, Send, Receive
<1>5. CASE Broken
  BY <1>5 DEF Broken
<1>6. ASSUME NEW to, Redirect(to) PROVE Onward
  BY <1>6 DEF Redirect, NextHop
<1>7. ASSUME NEW a, Read(a) PROVE Onward
  BY <1>7 DEF Read, NextAnswer
<1>8. CASE Analyse \/ AnalyseFails
  BY <1>8 DEF Analyse, AnalyseFails
<1>9. CASE Create \/ Inspect \/ Start \/ Verify
  BY <1>9 DEF Create, Inspect, Start, Verify
<1>10. CASE CommandFails
  BY <1>10 DEF CommandFails
<1>11. CASE RemoveContainer \/ RemoveFails \/ InspectRemoved
  <2>1. ASSUME NEW cleaned, Leave(cleaned), pc \in {"remove", "removed"} PROVE Onward
    <3>1. attempts' = attempts
      BY <2>1 DEF Leave
    <3>2. pc' = "ended" \/ (pc' = "choose" /\ analysed' = TRUE)
      BY <2>1 DEF Leave
    <3>3. StepsLeft'[pc'] \in {0, 5}
      BY <3>2
    <3>4. StepsLeft[pc] \in {6, 7}
      BY <2>1
    <3> HIDE DEF StepsLeft
    <3> QED
      BY <3>1, <3>3, <3>4
  <2>2. CASE RemoveContainer
    BY <2>1, <2>2 DEF RemoveContainer
  <2>3. CASE RemoveFails
    BY <2>3 DEF RemoveFails
  <2>4. CASE InspectRemoved
    <3>1. pc = "removed" /\ \E cleaned : Leave(cleaned)
      BY <2>4 DEF InspectRemoved
    <3> QED
      BY <2>1, <3>1
  <2> QED
    BY <1>11, <2>2, <2>3, <2>4
<1>12. ASSUME NEW cited, Finish(cited) \/ AgentStops PROVE Onward
  BY <1>12 DEF Finish, AgentStops
<1> QED
  BY <1>1, <1>2, <1>3, <1>4, <1>5, <1>6, <1>7, <1>8, <1>9, <1>10, <1>11, <1>12 DEF Worker

\* Whatever the worker does, for any plan, limit and redirects, uses up some of its work:
\* no answer and no failure gives any back, so that it comes to an end.
THEOREM ProbeRunsOut == Spec => WorkRunsOut
<1> DEFINE Step == Worker => WorkLeft' \in 0..(WorkLeft - 1)
<1>1. Limit \in Nat /\ Limit' = Limit
  BY PolicyFacts DEF Limit
<1>2. ASSUME Counted, Worker, ~Attempt PROVE Step
  <2>1. /\ attempts' = attempts /\ StepsLeft[pc] \in Nat
        /\ StepsLeft'[pc'] \in 0..(StepsLeft[pc] - 1)
    BY <1>2, WorkerGoesOn DEF Onward
  <2>2. attempts \in Nat /\ attempts <= Limit
    BY <1>2 DEF Counted
  <2> DEFINE now == StepsLeft[pc]
             next == StepsLeft'[pc']
  <2>4. WorkLeft = 20 * (Limit - attempts) + now /\ WorkLeft' = 20 * (Limit - attempts) + next
    BY <1>1, <2>1 DEF WorkLeft
  <2>5. now \in Nat /\ next \in 0..(now - 1)
    BY <2>1
  <2> HIDE DEF now, next
  <2> QED
    BY ONLY <1>1, <2>2, <2>4, <2>5 DEF Step
<1>3. ASSUME Counted, Counted', Attempt PROVE Step
  <2>1. attempts' = attempts + 1 /\ attempts \in Nat /\ attempts + 1 <= Limit
    BY <1>3 DEF Attempt, Counted
  <2>2. pc = "recheck" /\ pc' = "connecting"
    BY <1>3 DEF Attempt
  <2>3. StepsLeft[pc] = 1 /\ StepsLeft'[pc'] = 17
    BY <2>2 DEF StepsLeft
  <2>4. WorkLeft = 20 * (Limit - attempts) + 1 /\ WorkLeft' = 20 * (Limit - (attempts + 1)) + 17
    BY <1>1, <2>1, <2>3 DEF WorkLeft
  <2> QED
    BY ONLY <1>1, <2>1, <2>4 DEF Step
<1>4. Counted /\ Counted' => Step
  BY <1>2, <1>3
<1>5. Init => Counted
  BY PolicyFacts DEF Init, Counted
<1> QED
  BY <1>4, <1>5, CountedStep, PTL DEF Spec, WorkRunsOut
=============================================================================
