----------------------------- MODULE Preparation -----------------------------
(***************************************************************************)
(* What is prepared before a business review, and what the review then     *)
(* rests on: the drafts of local targets (local_targets.py), the vault of  *)
(* test sessions (session_vault.py), the business drafts                   *)
(* (business_preparation.py), the preview that approves one of them and    *)
(* the gate a review passes before each request (business_workflow.py).    *)
(*                                                                         *)
(* The dashboard answers each request in a thread of its own and takes no  *)
(* lock here; files and tables are read and written one at a time.  A      *)
(* client is such a thread, of one or of several dashboards.               *)
(***************************************************************************)
EXTENDS Naturals, FiniteSets

CONSTANTS
  Client,     \* threads that answer requests
  Worker,     \* the worker of a business review
  Target,     \* ids of target drafts
  Body,       \* what a target draft may say
  OriginOf,   \* OriginOf[b]: the origin it names
  Origin,
  Name,       \* names of sessions
  Draft,      \* ids of business drafts
  Limit,      \* how many drafts of each sort may be saved
  MaxStamp,   \* bound: session files ever written
  None

ASSUME PreparationAssumption ==
  /\ Worker \notin Client
  /\ OriginOf \in [Body -> Origin]
  /\ Limit \in Nat /\ MaxStamp \in Nat
  /\ None \notin Target \cup Body \cup Name \cup Draft

VARIABLES
  targets,   \* targets[t]: table local_target_drafts
  issued,    \* ids that have been given to a draft (they are random, and not reused)
  vault,     \* vault[n]: the session files
  stamp,     \* session files written so far: no two are alike
  drafts,    \* drafts[d]: table business_preparations
  job,       \* job[p]: the request a client answers, or the review of the worker
  late       \* history: what had changed at an earlier request, and not back since

store == <<targets, issued, vault, stamp, drafts>>
vars  == <<store, job, late>>

-----------------------------------------------------------------------------
Process == Client \cup {Worker}

Binding == [target : Target, origin : Origin]
Session == [bound : Binding, stamp : 1..MaxStamp]

\* A business draft: the target as it was, and the session file as it was.  (One
\* role stands for the three.)
Row == [target : Target, body : Body, name : Name, stamp : 1..MaxStamp]

BindingOf(row) == [target |-> row.target, origin |-> OriginOf[row.body]]

\* A request: the step it is at, what it is about and what it has read.
Step == {"write target", "compare", "replace", "unlink", "session", "hash", "room",
         "write draft", "row", "target", "load", "send"}
Job  == [at : Step, draft : Draft \cup {None}, target : Target \cup {None},
         body : Body \cup {None}, name : Name \cup {None}, stamp : 0..MaxStamp,
         headers : Session \cup {None}, approved : BOOLEAN]

TypeOK ==
  /\ targets \in [Target -> Body \cup {None}]
  /\ issued \subseteq Target /\ \A t \in Target \ issued : targets[t] = None
  /\ vault \in [Name -> Session \cup {None}]
  /\ stamp \in 0..MaxStamp
  /\ \A n \in Name : vault[n] # None => vault[n].stamp <= stamp
  /\ drafts \in [Draft -> Row \cup {None}]
  /\ job \in [Process -> Job \cup {None}]
  /\ \A c \in Client : job[c] # None => job[c].headers = None
  /\ job[Worker] # None =>
       (job[Worker].headers # None => job[Worker].at # "load" /\ job[Worker].approved)
  /\ late \subseteq {"row", "target", "session"}

Init ==
  /\ targets = [t \in Target |-> None] /\ issued = {}
  /\ vault = [n \in Name |-> None] /\ stamp = 0
  /\ drafts = [d \in Draft |-> None]
  /\ job = [p \in Process |-> None]
  /\ late = {}

-----------------------------------------------------------------------------
Saved(table) == {k \in DOMAIN table : table[k] # None}

At(p, s)     == job[p] # None /\ job[p].at = s
Begin(p, j)  == job[p] = None /\ job' = [job EXCEPT ![p] = j]
ToStep(p, s) == job' = [job EXCEPT ![p].at = s]

\* The request is answered, or refused.
Answered(p) == job' = [job EXCEPT ![p] = None]

Request(s, d, t, b, n) ==
  [at |-> s, draft |-> d, target |-> t, body |-> b, name |-> n, stamp |-> 0,
   headers |-> None, approved |-> FALSE]

-----------------------------------------------------------------------------
(***************************************************************************)
(* The target drafts: LocalTargetLibrary.  The rows are counted, or looked *)
(* for, before the transaction that writes.  A request that is refused at  *)
(* its first look leaves nothing behind, and is no step.                   *)
(***************************************************************************)

\* save() of a new draft, and duplicate(), which has read another one.
NewTarget(c, t, b) ==
  /\ t \notin issued /\ Cardinality(Saved(targets)) < Limit
  /\ issued' = issued \cup {t}
  /\ Begin(c, Request("write target", None, t, b, None))
  /\ UNCHANGED <<targets, vault, stamp, drafts>>

\* save() of a draft with an id.
EditTarget(c, t, b) ==
  /\ targets[t] # None
  /\ Begin(c, Request("write target", None, t, b, None))
  /\ UNCHANGED store

\* The draft may have been deleted meanwhile: it comes back.
WriteTarget(c) ==
  /\ At(c, "write target")
  /\ targets' = [targets EXCEPT ![job[c].target] = job[c].body]
  /\ Answered(c)
  /\ UNCHANGED <<issued, vault, stamp, drafts>>

DeleteTarget(t) ==
  /\ targets[t] # None
  /\ targets' = [targets EXCEPT ![t] = None]
  /\ UNCHANGED <<issued, vault, stamp, drafts, job>>

-----------------------------------------------------------------------------
(***************************************************************************)
(* The sessions: save_session, delete_session, and the vault.              *)
(***************************************************************************)

\* The target is as the page shows it.
SaveSession(c, n, t, b) ==
  /\ targets[t] = b
  /\ Begin(c, Request("compare", None, t, b, n))
  /\ UNCHANGED store

\* What is in the file now must have been made for the same target.
CompareSession(c) ==
  /\ At(c, "compare")
  /\ IF vault[job[c].name] \in {None} \cup {x \in Session : x.bound = BindingOf(job[c])}
     THEN ToStep(c, "replace") ELSE Answered(c)
  /\ UNCHANGED store

\* os.replace: whatever is there by now is replaced.
ReplaceSession(c) ==
  /\ At(c, "replace") /\ stamp < MaxStamp
  /\ stamp' = stamp + 1
  /\ vault' = [vault EXCEPT ![job[c].name] = [bound |-> BindingOf(job[c]), stamp |-> stamp + 1]]
  /\ Answered(c)
  /\ UNCHANGED <<targets, issued, drafts>>

\* What is in the file belongs to the target; by the time of the unlink it may not.
ForgetSession(c, n) ==
  /\ vault[n] # None
  /\ Begin(c, Request("unlink", None, None, None, n))
  /\ UNCHANGED store

UnlinkSession(c) ==
  /\ At(c, "unlink")
  /\ vault' = [vault EXCEPT ![job[c].name] = None]
  /\ Answered(c)
  /\ UNCHANGED <<targets, issued, stamp, drafts>>

-----------------------------------------------------------------------------
(***************************************************************************)
(* What a draft says of its context.                                       *)
(***************************************************************************)

\* The draft is still the one that was previewed.
RowIsHeld(j) ==
  drafts[j.draft] = [target |-> j.target, body |-> j.body, name |-> j.name, stamp |-> j.stamp]

\* Its target is unchanged (_target) ...
TargetIsHeld(j) == targets[j.target] = j.body

\* ... a session of it can be loaded (load_for_target) ...
SessionIsBound(j) == vault[j.name] # None /\ vault[j.name].bound = BindingOf(j)

\* ... and its file is the one that was seen.
SessionIsHeld(j) == vault[j.name] # None /\ vault[j.name].stamp = j.stamp

-----------------------------------------------------------------------------
(***************************************************************************)
(* Business drafts: save and delete.                                       *)
(***************************************************************************)

\* The target is as the page shows it.
PrepareDraft(c, d, t, b, n) ==
  /\ targets[t] = b
  /\ Begin(c, Request("session", d, t, b, n))
  /\ UNCHANGED store

LoadForDraft(c) ==
  /\ c \in Client /\ At(c, "session")
  /\ IF SessionIsBound(job[c]) THEN ToStep(c, "hash") ELSE Answered(c)
  /\ UNCHANGED store

\* The file is read once more for its hash: it may be another one by now.
TakeHash(c) ==
  /\ c \in Client /\ At(c, "hash")
  /\ IF vault[job[c].name] = None THEN Answered(c)
     ELSE job' = [job EXCEPT ![c].at = "room", ![c].stamp = vault[job[c].name].stamp]
  /\ UNCHANGED store

\* A new draft needs room, an edited one must be there.  Both are looked up before the
\* INSERT opens the transaction.  (A new draft has a fresh id; here it may have one that
\* was deleted, as an edit of a deleted draft has.)
FindRoom(c) ==
  /\ At(c, "room")
  /\ IF \/ drafts[job[c].draft] # None
        \/ Cardinality(Saved(drafts)) < Limit
     THEN ToStep(c, "write draft") ELSE Answered(c)
  /\ UNCHANGED store

WriteDraft(c) ==
  LET j == job[c] IN
  /\ At(c, "write draft")
  /\ drafts' = [drafts EXCEPT ![j.draft] = [target |-> j.target, body |-> j.body,
                                            name |-> j.name, stamp |-> j.stamp]]
  /\ Answered(c)
  /\ UNCHANGED <<targets, issued, vault, stamp>>

DeleteDraft(d) ==
  /\ drafts[d] # None
  /\ drafts' = [drafts EXCEPT ![d] = None]
  /\ UNCHANGED <<targets, issued, vault, stamp, job>>

-----------------------------------------------------------------------------
(***************************************************************************)
(* Preview and review.  A preview reads the context once; the review reads *)
(* it before it loads the session, and again before each request (the      *)
(* clock, the limits and the answers are in ApprovedProbe.tla).            *)
(***************************************************************************)

\* A person asks for the preview of a draft.
Preview(d) ==
  LET row == drafts[d] IN
  /\ row # None
  /\ Begin(Worker, [Request("row", d, row.target, row.body, row.name)
                      EXCEPT !.stamp = row.stamp])
  /\ UNCHANGED store

\* Faulty variant: the draft is there, but is not compared again.
ReadRowThere ==
  /\ At(Worker, "row")
  /\ IF drafts[job[Worker].draft] # None THEN ToStep(Worker, "target") ELSE Answered(Worker)
  /\ UNCHANGED store

\* context_snapshot reads one thing after the other.  (It reads the draft and the target
\* a second time, which can only refuse more, and EndReview may refuse at any step.)
\* First the draft ...
ReadRow ==
  /\ At(Worker, "row")
  /\ IF RowIsHeld(job[Worker]) THEN ToStep(Worker, "target") ELSE Answered(Worker)
  /\ UNCHANGED store

\* ... its target, which cannot be found beyond the first Limit ones ...
ReadTarget ==
  /\ At(Worker, "target")
  /\ \/ TargetIsHeld(job[Worker]) /\ ToStep(Worker, "session")
     \/ /\ ~TargetIsHeld(job[Worker]) \/ Cardinality(Saved(targets)) > Limit
        /\ Answered(Worker)
  /\ UNCHANGED store

\* ... the session, which may also have expired ...
ReadSession ==
  /\ At(Worker, "session")
  /\ \/ SessionIsBound(job[Worker]) /\ ToStep(Worker, "hash")
     \/ Answered(Worker)
  /\ UNCHANGED store

\* ... and the hash of its file.
ReadHash ==
  LET j == job[Worker] IN
  /\ At(Worker, "hash")
  /\ CASE ~SessionIsHeld(j)                -> Answered(Worker)
       [] SessionIsHeld(j) /\ ~j.approved  ->
            job' = [job EXCEPT ![Worker].at = "row", ![Worker].approved = TRUE]
       [] OTHER -> ToStep(Worker, IF j.headers = None THEN "load" ELSE "send")
  /\ UNCHANGED store

\* Faulty variant: the request goes out on the gate that was passed before.
LoadAndSend ==
  /\ At(Worker, "load")
  /\ IF SessionIsBound(job[Worker])
     THEN job' = [job EXCEPT ![Worker].at = "send", ![Worker].headers = vault[job[Worker].name]]
     ELSE Answered(Worker)
  /\ UNCHANGED store

\* The session is loaded, and every check of the request calls the gate again.
LoadSession ==
  /\ At(Worker, "load")
  /\ IF SessionIsBound(job[Worker])
     THEN job' = [job EXCEPT ![Worker].at = "row", ![Worker].headers = vault[job[Worker].name]]
     ELSE Answered(Worker)
  /\ UNCHANGED store

\* The request goes out with the session; for the next one all starts again.
Send ==
  /\ At(Worker, "send")
  /\ job' = [job EXCEPT ![Worker].at = "row", ![Worker].headers = None]
  /\ UNCHANGED store

EndReview ==
  /\ job[Worker] # None
  /\ Answered(Worker)
  /\ UNCHANGED store

-----------------------------------------------------------------------------
ClientStep(c) ==
  \/ \E t \in Target, b \in Body : NewTarget(c, t, b) \/ EditTarget(c, t, b)
  \/ WriteTarget(c)
  \/ \E n \in Name : \/ ForgetSession(c, n)
                     \/ \E t \in Target, b \in Body : SaveSession(c, n, t, b)
  \/ CompareSession(c) \/ ReplaceSession(c) \/ UnlinkSession(c)
  \/ \E d \in Draft, t \in Target, b \in Body, n \in Name : PrepareDraft(c, d, t, b, n)
  \/ LoadForDraft(c) \/ TakeHash(c) \/ FindRoom(c) \/ WriteDraft(c)

WorkerStep ==
  \/ \E d \in Draft : Preview(d)
  \/ ReadRow \/ ReadTarget \/ ReadSession \/ ReadHash
  \/ LoadSession \/ Send \/ EndReview

Sends == /\ At(Worker, "send")
         /\ job'[Worker] # None /\ job'[Worker].at # "send"

\* What is not as it was approved, while a review is under way.
Changed ==
  IF job[Worker] = None THEN {}
  ELSE {x \in {"row", "target", "session"} :
          CASE x = "row"     -> ~RowIsHeld(job[Worker])
            [] x = "target"  -> ~TargetIsHeld(job[Worker])
            [] x = "session" -> ~SessionIsHeld(job[Worker])}

Next ==
  /\ \/ \E c \in Client : ClientStep(c)
     \/ \E t \in Target : DeleteTarget(t)
     \/ \E d \in Draft : DeleteDraft(d)
     \/ WorkerStep
  /\ late' = IF Sends THEN Changed ELSE late \cap Changed'

Spec == Init /\ [][Next]_vars

-----------------------------------------------------------------------------
(***************************************************************************)
(* Properties.                                                             *)
(***************************************************************************)

\* A request that carries a session carries the very file that was approved, and that
\* file was made for the target and the origin the request goes to: whatever is saved,
\* deleted or saved again under its name meanwhile.
SentAsApproved ==
  At(Worker, "send") =>
    LET j == job[Worker] IN
    j.headers # None /\ j.headers.stamp = j.stamp /\ j.headers.bound = BindingOf(j)

\* When the draft, its target or its session is no longer as it was approved, one
\* request may still slip out, and no second one.
OnceAfterChange == [][Sends => late = {}]_vars
=============================================================================
