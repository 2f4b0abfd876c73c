------------------------------ MODULE MCLabVisits ------------------------------
(***************************************************************************)
(* Instances of LabVisits: an inventory of four labs, one of which is      *)
(* looked at, with the local policy of the repository, which does not have *)
(* the last of them.                                                       *)
(***************************************************************************)
EXTENDS LabVisits

LabAt(id, port) ==
  [lab_id |-> id, service |-> id, pinned |-> TRUE, host |-> "127.0.0.1", host_port |-> port,
   container_port |-> 80,
   health_url |-> [scheme |-> "http", host |-> "127.0.0.1", port |-> port, credentials |-> FALSE]]

SomeLabs    == {LabAt("dvwa", 8081), LabAt("webgoat", 8082), LabAt("business-api", 8084), LabAt("other", 9000)}
LocalPolicy == [hosts |-> Loopback, ports |-> {3000, 8081, 8082, 8083, 8084}]
CaseOf(id, auth, status, word) ==
  [case_id |-> id, kind |-> "public-surface", method |-> "GET", auth |-> auth,
   destructive |-> FALSE,
   path |-> [absolute |-> TRUE, external |-> FALSE, climbs |-> FALSE, query |-> FALSE],
   expected |-> [status_in |-> {status}, contains |-> {word}, lacks |-> {}]]
SomeCases ==
  [id \in {"dvwa", "webgoat", "business-api", "other"} |->
     CASE id = "dvwa"    -> <<CaseOf(1, "dvwa-default", 200, "surface"), CaseOf(2, "none", 302, "login")>>
       [] id = "webgoat" -> <<CaseOf(3, "webgoat-synthetic", 200, "surface")>>
       [] id = "other"   -> <<CaseOf(4, "none", 200, "login")>>
       [] OTHER          -> <<CaseOf(5, "none", 200, "login")>>]
SomeTools   == [id \in {"dvwa", "webgoat", "business-api", "other"} |->
                  IF id = "dvwa" THEN {"regression", "controls"}
                  ELSE IF id = "webgoat" THEN {"regression", "discover", "headers"}
                  ELSE IF id = "other" THEN {"regression"}
                  ELSE {"compare", "matrix", "schema"}]

UrlAt(host, port) == [scheme |-> "http", host |-> host, port |-> port, safe |-> TRUE]
Somewhere == {UrlAt("127.0.0.1", 8081), UrlAt("127.0.0.1", 8084), UrlAt("elsewhere", 8081)}
=============================================================================
