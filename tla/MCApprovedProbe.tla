--------------------------- MODULE MCApprovedProbe ---------------------------
(***************************************************************************)
(* An instance of ApprovedProbe for TLC: an application with two approved  *)
(* routes, one of which has an excluded part, and redirects to approved,   *)
(* excluded and foreign places.                                            *)
(***************************************************************************)
EXTENDS ApprovedProbe

At(path, form, port) ==
  [form |-> form, scheme |-> "http", host |-> <<"loopback">>, port |-> port, path |-> path]
Home  == At(<<>>, "plain", 8080)
Shop  == At(<<"shop">>, "plain", 8080)
Admin == At(<<"shop", "admin", "log">>, "plain", 8080)

MCPolicy ==
  [target_type |-> "local_web", confirmed |-> TRUE, allow_network_contact |-> TRUE,
   local_web |-> [site |-> Site(Home), automation_allowed |-> TRUE,
                  allowed_paths |-> {Home.path, Shop.path, Admin.path},
                  excluded_paths |-> {<<"shop", "admin">>},
                  allowed_methods |-> {"GET"}, request_limit |-> 5]]

MCPlan == <<[url |-> Home, method |-> "GET"], [url |-> Shop, method |-> "GET"]>>
One(i, role, expected) == [request |-> MCPlan[i], role |-> role, expected |-> expected]
Routes  == <<<<One(1, "anonymous", TRUE)>>, <<One(2, "anonymous", TRUE)>>>>
Objects == <<<<One(2, "account-a", TRUE), One(2, "anonymous", FALSE)>>,
             <<One(1, "anonymous", TRUE)>>>>
MCRecipeOf == [k \in Kind |-> IF k = "business" THEN Objects ELSE Routes]

MCLocation == {Shop, Admin, At(<<"shop">>, "query", 8080), At(<<"shop">>, "plain", 9090)}
=============================================================================
