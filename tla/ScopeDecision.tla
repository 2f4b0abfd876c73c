---------------------------- MODULE ScopeDecision ----------------------------
(***************************************************************************)
(* Who may be contacted: scope.py and local_scope.py as operators.         *)
(*                                                                         *)
(* A host is the sequence of its labels, top-level label first, so that a  *)
(* subdomain extends its domain; a path is the sequence of its segments.   *)
(* What urlsplit and the path pattern tell apart is a field of the url:    *)
(* "form" is "plain", "query" (it has a ? or a #), "unsafe" (the path is   *)
(* encoded or ambiguous) or "invalid" (no http url at all).                *)
(***************************************************************************)
EXTENDS Naturals, Sequences, SequencesExt

Host == Seq(STRING)
Path == Seq(STRING)
Form == {"plain", "query", "unsafe", "invalid"}
Url  == [form : Form, scheme : {"http", "https"}, host : Host, port : Nat, path : Path]

Port == 1..65535

Site(u) == [scheme |-> u.scheme, host |-> u.host, port |-> u.port]

\* One is the other or lies under it.
Within(x, base) == IsPrefix(base, x)

-----------------------------------------------------------------------------
(***************************************************************************)
(* The scope of an application on this machine (LocalWebScope).            *)
(***************************************************************************)

LocalWebScope ==
  [site : [scheme : {"http", "https"}, host : Host, port : Nat],
   automation_allowed : BOOLEAN, allowed_paths : SUBSET Path, excluded_paths : SUBSET Path,
   allowed_methods : SUBSET {"GET", "HEAD"}, request_limit : Nat]

\* LocalWebScope.from_mapping: what it accepts.
ValidLocal(s) ==
  /\ s.allowed_paths # {} /\ s.allowed_methods # {}
  /\ s.site.host = <<"loopback">> /\ s.site.port \in Port
  /\ s.request_limit \in 1..1000

\* Faulty variant: only the excluded path itself is refused.
PathExcludedExactly(s, path) == path \in s.excluded_paths

\* An excluded path takes everything below it with it.
PathExcluded(s, path) == \E base \in s.excluded_paths : Within(path, base)

\* denial_reason; inWindow says whether the wall clock is inside the window.
LocalDenial(s, u, method, inWindow) ==
  CASE ~s.automation_allowed            -> "automation_not_allowed"
    [] ~inWindow                        -> "outside_test_window"
    [] Site(u) # s.site                 -> "origin_not_in_scope"
    [] method \notin s.allowed_methods  -> "method_not_in_scope"
    [] u.form = "query"                 -> "local_query_or_fragment_not_allowed"
    [] u.form = "unsafe"                -> "local_path_invalid"
    [] PathExcluded(s, u.path)          -> "path_excluded"
    [] u.path \notin s.allowed_paths    -> "path_not_in_scope"
    [] OTHER                            -> "allowed"

-----------------------------------------------------------------------------
(***************************************************************************)
(* The scope of domains (ScopePolicy and ScopeGuard).                      *)
(***************************************************************************)

\* Exclusions first, then single hosts, then whole domains.
HostAllowed(p, host) ==
  /\ ~ \E x \in p.excluded_hosts : Within(host, x)
  /\ host \in p.allowed_hosts \/ \E root \in p.root_domains : Within(host, root)

\* The rest of the decision for a scope of domains.
DomainDenial(p, u) ==
  CASE ~HostAllowed(p, u.host)     -> "host_not_in_scope"
    [] u.port \notin p.allowed_ports -> "port_not_in_scope"
    [] OTHER                       -> "allowed"

\* ScopeGuard.decide.
Decide(p, u, method, inWindow) ==
  CASE u.form = "invalid"                           -> "invalid_or_unsupported_url"
    [] u.port \notin Port                       -> "invalid_port"
    [] ~(p.confirmed /\ p.allow_network_contact)    -> "scope_not_confirmed"
    [] p.target_type \notin {"local_web", "legacy"} -> "unsupported_target_type"
    [] OTHER -> IF p.target_type = "local_web" THEN LocalDenial(p.local_web, u, method, inWindow)
                ELSE DomainDenial(p, u)

Allowed(p, u, method, inWindow) == Decide(p, u, method, inWindow) = "allowed"

\* check_redirect, for a destination that has been joined with the original url.
RedirectAllowed(p, from, to, method, inWindow) ==
  /\ Allowed(p, from, method, inWindow)
  /\ Allowed(p, to, method, inWindow)

\* LocalReadOnlyPlan.from_mapping: every request is legal at the start of the window
\* and none is given twice.
ValidPlan(p, plan) ==
  /\ p.target_type = "local_web" /\ ValidLocal(p.local_web)
  /\ Len(plan) \in 1..64 /\ Len(plan) <= p.local_web.request_limit
  /\ \A i \in DOMAIN plan : Allowed(p, plan[i].url, plan[i].method, TRUE)
  /\ \A i, j \in DOMAIN plan : plan[i] = plan[j] => i = j
=============================================================================
