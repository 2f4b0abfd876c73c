------------------------------ MODULE LabManager ------------------------------
(***************************************************************************)
(* LocalLabManager (local_labs.py): the inventory of labs, and operate()   *)
(* on the container of one of them, called by two processes that know      *)
(* nothing of each other, the dashboard's and a shell's.                   *)
(*                                                                         *)
(* A container is followed by its number: a new one has a higher number.   *)
(* A docker command that fails, runs out of time or is cut off by a        *)
(* cancellation may have had its effect or not.                            *)
(***************************************************************************)
EXTENDS Naturals, FiniteSets

CONSTANTS
  Console, Shell,  \* the two processes
  Inventory,       \* what local_labs.json lists
  MaxBorn          \* containers made at most (bound)

Process == {Console, Shell}

-----------------------------------------------------------------------------
(***************************************************************************)
(* The inventory.                                                          *)
(***************************************************************************)
Loopback == {"127.0.0.1", "localhost"}
Port     == 1..65535

\* _parse_spec; "pinned" stands for an image without a tag and with a digest.
ValidSpec(s) ==
  /\ s.lab_id = s.service /\ s.pinned
  /\ s.host \in Loopback /\ s.host_port \in Port /\ s.container_port \in Port
  /\ s.health_url.scheme \in {"http", "https"} /\ s.health_url.host \in Loopback
  /\ s.health_url.port = s.host_port /\ ~s.health_url.credentials

\* load_lab_specs: no two entries share their name or their port.
ValidInventory(labs) ==
  /\ labs # {}
  /\ \A s \in labs : ValidSpec(s)
  /\ \A s, t \in labs : s.lab_id = t.lab_id \/ s.host_port = t.host_port => s = t

ASSUME ManagerAssumption ==
  /\ Console # Shell
  /\ ValidInventory(Inventory)
  /\ MaxBorn \in Nat

-----------------------------------------------------------------------------
VARIABLES
  lab,     \* the entry that is looked at; it never changes
  box,     \* its container
  call,    \* call[p]: the operate() of process p
  cancel   \* the cancel event of the dashboard's job

manager == <<lab, box, call, cancel>>

Box  == [state : {"none", "created", "running", "exited"}, born : 0..MaxBorn]
Call == [at : {"idle", "remove", "command", "wait"},
         action : {"none", "up", "start", "stop", "reset", "down"},
         since : 0..MaxBorn,  \* history: the newest container when a reset was called
         status : {"none", "READY", "COMPLETED", "FAILED", "CANCELLED",
                   "BLOCKED_HEALTH_TIMEOUT", "raised"}]

ManagerTypeOK ==
  /\ lab \in Inventory /\ box \in Box
  /\ call \in [Process -> Call] /\ cancel \in BOOLEAN

NoCall  == [at |-> "idle", action |-> "none", since |-> 0, status |-> "none"]
NoBox   == [state |-> "none", born |-> 0]

ManagerInit ==
  /\ lab \in Inventory
  /\ box = NoBox
  /\ call = [p \in Process |-> NoCall] /\ cancel = FALSE

Cancelled(p) == p = Console /\ cancel
Calling(p)   == call[p].at # "idle"

\* parse_lab_status; every service of the compose file has a health check, whose
\* answers are not followed.
Status(b) ==
  CASE b.state = "running" -> {"READY", "STARTING", "UNHEALTHY"}
    [] b.state = "exited"  -> {"STOPPED"}
    [] OTHER               -> {"NOT_FOUND"}

\* status(): an inspection that fails finds nothing.
Seen(b) == Status(b) \cup {"NOT_FOUND"}

-----------------------------------------------------------------------------
(***************************************************************************)
(* Docker.                                                                 *)
(***************************************************************************)
Started(b) == [b EXCEPT !.state = "running"]
Made(b)    == [Started(b) EXCEPT !.born = @ + 1]

\* What "docker compose <c>" makes of a container when it succeeds ...
After(c, b) ==
  CASE c = "up"   -> IF b.state = "running" THEN b
                     ELSE IF b.state = "none" THEN Made(b) ELSE Started(b)
    [] c = "stop" -> IF b.state = "running" THEN [b EXCEPT !.state = "exited"] ELSE b
    [] OTHER      -> [b EXCEPT !.state = "none"]

\* ... and when it does not.
Half(c, b) ==
  {x \in {b, After(c, b), [After(c, b) EXCEPT !.state = "created"]} :
     /\ x.born <= MaxBorn
     /\ x.state = "created" => x.born > b.born \/ x = b}

\* The service ends by itself; nothing restarts it.
Exit == box.state = "running" /\ box' = [box EXCEPT !.state = "exited"]

-----------------------------------------------------------------------------
(***************************************************************************)
(* operate().                                                              *)
(***************************************************************************)
Return(p, s) == call' = [call EXCEPT ![p].at = "idle", ![p].status = s]

\* The command an action ends in: a start may have to make the container.
Command(a) == IF a \in {"up", "start", "reset"} THEN "up" ELSE a

Operate(p, a) ==
  call' = [call EXCEPT ![p] =
    IF Cancelled(p) THEN [NoCall EXCEPT !.action = a, !.status = "CANCELLED"]
    ELSE [at |-> IF a = "reset" THEN "remove" ELSE "command", action |-> a,
          since |-> IF a = "reset" THEN box.born ELSE 0, status |-> "none"]]

\* Faulty variant: the way the removal ended is not looked at.
RemoveAnyhow(p) ==
  /\ call[p].at = "remove"
  /\ box' \in Half("rm", box)
  /\ call' = [call EXCEPT ![p].at = "command"]

\* A reset removes the container first, and gives up if that does not succeed.
Remove(p) ==
  /\ call[p].at = "remove"
  /\ \/ /\ box' = After("rm", box)
        /\ call' = [call EXCEPT ![p].at = "command"]
     \/ /\ box' \in Half("rm", box)
        /\ Return(p, "FAILED")

\* _run and what follows it: the health is waited for after an "up" only.
RunCommand(p) ==
  LET c == Command(call[p].action) IN
  /\ call[p].at = "command"
  /\ \/ /\ box' = After(c, box) /\ box'.born <= MaxBorn
        /\ IF c = "up"
           THEN call' = [call EXCEPT ![p].at = "wait"]
           ELSE Return(p, "COMPLETED")
     \/ /\ box' \in Half(c, box)
        /\ \/ Return(p, "FAILED")
           \/ Cancelled(p) /\ Return(p, "CANCELLED")

\* Faulty variant: the wait has no deadline.
WaitHealthForEver(p) ==
  /\ call[p].at = "wait" /\ UNCHANGED box
  /\ \/ Cancelled(p) /\ Return(p, "CANCELLED")
     \/ box.state = "running" /\ Return(p, "READY")
     \/ Status(box) \cap {"STOPPED", "UNHEALTHY"} # {} /\ Return(p, "BLOCKED_HEALTH_TIMEOUT")

\* _wait_health: it ends with an answer of the service, a container that will
\* not answer, a cancellation or the deadline; an inspection may hang.
WaitHealth(p) ==
  /\ call[p].at = "wait" /\ UNCHANGED box
  /\ \/ Cancelled(p) /\ Return(p, "CANCELLED")
     \/ box.state = "running" /\ Return(p, "READY")
     \/ Return(p, "BLOCKED_HEALTH_TIMEOUT")
     \/ Return(p, "raised")

CallStep(p) == (Remove(p) \/ RunCommand(p) \/ WaitHealth(p)) /\ UNCHANGED <<lab, cancel>>
=============================================================================
