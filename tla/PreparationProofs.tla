--------------------------- MODULE PreparationProofs ---------------------------
(***************************************************************************)
(* Theorems about Preparation, for every set of clients, targets, names    *)
(* and drafts, every limit and every number of session files.              *)
(***************************************************************************)
EXTENDS Preparation, TLAPS

USE PreparationAssumption

-----------------------------------------------------------------------------
(***************************************************************************)
(* Session files are numbered in the order they are written.  So once a    *)
(* file has been seen under a name, what is later found there is the same  *)
(* file or a newer one.                                                    *)
(***************************************************************************)

NotOlder(n, s) == s <= stamp /\ (vault[n] # None => s <= vault[n].stamp)

\* What a request of a client has read by the time it is at its step.
ClientFits(c) ==
  LET j == job[c] IN
  /\ j.at \in {"write target", "compare", "replace", "unlink", "session", "hash", "room",
               "write draft"}
  /\ j.headers = None
  /\ j.at = "write target" => j.target \in issued /\ j.body \in Body
  /\ j.at \in {"compare", "replace"} => j.target \in Target /\ j.body \in Body /\ j.name \in Name
  /\ j.at = "unlink" => j.name \in Name
  /\ j.at \in {"session", "hash", "room", "write draft"} =>
       j.draft \in Draft /\ j.target \in Target /\ j.body \in Body /\ j.name \in Name
  /\ j.at \in {"room", "write draft"} => j.stamp \in 1..MaxStamp /\ NotOlder(j.name, j.stamp)

\* What the review has: the file it loaded is no older than the approved one, and what
\* is in the vault no older than the file it loaded.
WorkerFits ==
  LET j == job[Worker] IN
  /\ j.at \in {"row", "target", "session", "hash", "load", "send"}
  /\ j.draft \in Draft /\ j.target \in Target /\ j.body \in Body /\ j.name \in Name
  /\ j.stamp \in 1..MaxStamp /\ NotOlder(j.name, j.stamp)
  /\ j.at \in {"load", "send"} => j.approved
  /\ j.at = "load" => j.headers = None
  /\ j.at = "send" => j.headers # None /\ j.headers.stamp = j.stamp
  /\ j.headers # None => /\ j.approved /\ j.headers.bound = BindingOf(j)
                         /\ j.stamp <= j.headers.stamp /\ NotOlder(j.name, j.headers.stamp)

TablesOK ==
  /\ targets \in [Target -> Body \cup {None}]
  /\ issued \subseteq Target /\ \A t \in Target \ issued : targets[t] = None
  /\ vault \in [Name -> Session \cup {None}]
  /\ stamp \in 0..MaxStamp
  /\ \A n \in Name : vault[n] # None => vault[n].stamp <= stamp
  /\ drafts \in [Draft -> Row \cup {None}]
  /\ \A d \in Draft : drafts[d] # None => NotOlder(drafts[d].name, drafts[d].stamp)

JobsOK == job \in [Process -> Job \cup {None}]

Basics ==
  /\ TablesOK /\ JobsOK
  /\ \A c \in Client : job[c] # None => ClientFits(c)
  /\ job[Worker] # None => WorkerFits
  /\ late \subseteq {"row", "target", "session"}

\* No step makes a file older, or takes an id back.
Ages == /\ issued \subseteq issued'
        /\ \A n \in Name, s \in Nat : NotOlder(n, s) => NotOlder(n, s)'

LEMMA Numbers == MaxStamp \in Nat /\ Limit \in Nat
BY PreparationAssumption

LEMMA StoreStays == ASSUME TablesOK, UNCHANGED store PROVE TablesOK' /\ Ages
BY DEF TablesOK, store, Ages, NotOlder

\* A step of one client, with the request it leaves.
LEMMA ClientJob ==
  ASSUME Basics, NEW c \in Client, NEW j \in Job \cup {None}, job' = [job EXCEPT ![c] = j],
         TablesOK', Ages, late' \subseteq late \cup {"row", "target", "session"},
         j # None => ClientFits(c)'
  PROVE  Basics'
<1>1. job'[c] = j /\ (\A q \in Process \ {c} : job'[q] = job[q]) /\ JobsOK'
  BY DEF Basics, JobsOK, Process
<1>2. ASSUME NEW q \in Client \ {c}, job'[q] # None PROVE ClientFits(q)'
  <2>1. job'[q] = job[q] /\ ClientFits(q) /\ job[q] \in Job
    BY <1>1, <1>2 DEF Basics, JobsOK, Process
  <2>2. ASSUME job[q].at \in {"room", "write draft"}
        PROVE  NotOlder(job[q].name, job[q].stamp)'
    <3>1. PICK n \in Name, s \in Nat : n = job[q].name /\ s = job[q].stamp
      <4>1. job[q].name \in Name /\ job[q].stamp \in 1..MaxStamp
        BY <2>1, <2>2 DEF ClientFits
      <4>2. job[q].stamp \in Nat
        BY <4>1, Numbers
      <4> QED
        BY <4>1, <4>2
    <3>2. NotOlder(n, s)
      BY <2>1, <2>2, <3>1 DEF ClientFits
    <3>3. NotOlder(n, s)'
      BY <3>2 DEF Ages
    <3> QED
      BY <2>1, <3>1, <3>3
  <2> QED
    BY <2>1, <2>2 DEF ClientFits, NotOlder, Ages
<1>3. ASSUME job'[Worker] # None PROVE WorkerFits'
  <2>1. job'[Worker] = job[Worker] /\ WorkerFits /\ job[Worker] \in Job
    BY <1>1, <1>3 DEF Basics, JobsOK, Process
  <2>2. /\ NotOlder(job[Worker].name, job[Worker].stamp)'
        /\ job[Worker].headers # None =>
             NotOlder(job[Worker].name, job[Worker].headers.stamp)'
    BY <2>1, Numbers DEF WorkerFits, Ages, Job, Session
  <2> QED
    BY <2>1, <2>2 DEF WorkerFits, NotOlder, BindingOf
<1> QED
  BY <1>1, <1>2, <1>3 DEF Basics

\* A step of the review, which writes to no table.
LEMMA WorkerJob ==
  ASSUME Basics, NEW j \in Job \cup {None}, job' = [job EXCEPT ![Worker] = j], UNCHANGED store,
         late' \subseteq late \cup {"row", "target", "session"}, j # None => WorkerFits'
  PROVE  Basics'
<1>1. job'[Worker] = j /\ (\A c \in Client : job'[c] = job[c]) /\ JobsOK'
  BY DEF Basics, JobsOK, Process
<1>2. TablesOK'
  BY StoreStays DEF Basics
<1>3. ASSUME NEW c \in Client, job'[c] # None PROVE ClientFits(c)'
  <2>1. job'[c] = job[c] /\ ClientFits(c) /\ issued' = issued /\ vault' = vault /\ stamp' = stamp
    BY <1>1, <1>3 DEF Basics, store
  <2>2. ASSUME job[c].at \in {"room", "write draft"}
        PROVE  NotOlder(job[c].name, job[c].stamp)'
    BY <2>1, <2>2 DEF ClientFits, NotOlder
  <2>3. job'[c] = job[c] /\ ClientFits(c) /\ issued \subseteq issued'
    BY <2>1
  <2> QED
    BY <2>2, <2>3 DEF ClientFits, NotOlder
<1> QED
  BY <1>1, <1>2, <1>3 DEF Basics

LEMMA BasicsInit == Init => Basics
<1> SUFFICES ASSUME Init PROVE Basics
  OBVIOUS
<1>1. TablesOK
  BY Numbers DEF Init, TablesOK
<1> QED
  BY <1>1 DEF Init, Basics, JobsOK, Process

-----------------------------------------------------------------------------
(***************************************************************************)
(* What the clients do.                                                    *)
(***************************************************************************)

LateMoves == late' \subseteq late \cup {"row", "target", "session"}

\* A request that has been begun.
LEMMA Begun ==
  ASSUME Basics, LateMoves, NEW c \in Client, NEW j \in Job, Begin(c, j), TablesOK', Ages,
         ClientFits(c)'
  PROVE  Basics'
<1>1. job' = [job EXCEPT ![c] = j]
  BY DEF Begin
<1> QED
  BY <1>1, ClientJob DEF LateMoves

LEMMA RequestType ==
  ASSUME NEW s \in Step, NEW d \in Draft \cup {None}, NEW t \in Target \cup {None},
         NEW b \in Body \cup {None}, NEW n \in Name \cup {None}
  PROVE  Request(s, d, t, b, n) \in Job
BY Numbers DEF Request, Job

LEMMA BeginStep ==
  ASSUME Basics, LateMoves, NEW c \in Client,
         \/ \E t \in Target, b \in Body : NewTarget(c, t, b) \/ EditTarget(c, t, b)
         \/ \E n \in Name : \/ ForgetSession(c, n)
                            \/ \E t \in Target, b \in Body : SaveSession(c, n, t, b)
         \/ \E d \in Draft, t \in Target, b \in Body, n \in Name : PrepareDraft(c, d, t, b, n)
  PROVE  Basics'
<1> job \in [Process -> Job \cup {None}] /\ c \in Process
  BY DEF Basics, JobsOK, Process
<1>1. ASSUME NEW t \in Target, NEW b \in Body, NewTarget(c, t, b) \/ EditTarget(c, t, b)
      PROVE  Basics'
  <2> DEFINE j == Request("write target", None, t, b, None)
  <2>1. j \in Job
    <3>1. "write target" \in Step
      BY DEF Step
    <3>2. /\ t \in Target \cup {None} /\ b \in Body \cup {None}
          /\ None \in Name \cup {None} /\ None \in Draft \cup {None}
      OBVIOUS
    <3> QED
      BY <3>1, <3>2, RequestType
  <2>5. /\ j.at = "write target" /\ j.target = t /\ j.body = b /\ j.headers = None
    BY DEF Request
  <2>2. Begin(c, j) /\ UNCHANGED <<targets, vault, stamp, drafts>> /\ issued' \subseteq Target
        /\ issued \subseteq issued' /\ t \in issued'
    BY <1>1 DEF NewTarget, EditTarget, store, Basics, TablesOK
  <2> HIDE DEF j
  <2>3. job'[c] = j
    BY <2>2 DEF Begin
  <2>4. ClientFits(c)'
    BY <2>1, <2>2, <2>3, <2>5 DEF ClientFits
  <2>6. TablesOK' /\ Ages
    BY <2>2 DEF Basics, TablesOK, NotOlder, Ages
  <2> QED
    BY <2>1, <2>2, <2>4, <2>6, Begun
<1>2. ASSUME NEW n \in Name, ForgetSession(c, n) PROVE Basics'
  <2> DEFINE j == Request("unlink", None, None, None, n)
  <2>1. j \in Job
    <3>1. "unlink" \in Step
      BY DEF Step
    <3>2. /\ None \in Target \cup {None} /\ None \in Body \cup {None}
          /\ n \in Name \cup {None} /\ None \in Draft \cup {None}
      OBVIOUS
    <3> QED
      BY <3>1, <3>2, RequestType
  <2>5. /\ j.at = "unlink" /\ j.name = n /\ j.headers = None
    BY DEF Request
  <2>2. Begin(c, j) /\ UNCHANGED store
    BY <1>2 DEF ForgetSession
  <2> HIDE DEF j
  <2>3. job'[c] = j
    BY <2>2 DEF Begin
  <2>4. ClientFits(c)'
    BY <2>1, <2>3, <2>5 DEF ClientFits
  <2> QED
    BY <2>1, <2>2, <2>4, StoreStays, Begun DEF Basics
<1>3. ASSUME NEW n \in Name, NEW t \in Target, NEW b \in Body, SaveSession(c, n, t, b)
      PROVE  Basics'
  <2> DEFINE j == Request("compare", None, t, b, n)
  <2>1. j \in Job
    <3>1. "compare" \in Step
      BY DEF Step
    <3>2. /\ t \in Target \cup {None} /\ b \in Body \cup {None}
          /\ n \in Name \cup {None} /\ None \in Draft \cup {None}
      OBVIOUS
    <3> QED
      BY <3>1, <3>2, RequestType
  <2>5. /\ j.at = "compare" /\ j.target = t /\ j.body = b /\ j.name = n /\ j.headers = None
    BY DEF Request
  <2>2. Begin(c, j) /\ UNCHANGED store
    BY <1>3 DEF SaveSession
  <2> HIDE DEF j
  <2>3. job'[c] = j
    BY <2>2 DEF Begin
  <2>4. ClientFits(c)'
    BY <2>1, <2>3, <2>5 DEF ClientFits
  <2> QED
    BY <2>1, <2>2, <2>4, StoreStays, Begun DEF Basics
<1>4. ASSUME NEW d \in Draft, NEW t \in Target, NEW b \in Body, NEW n \in Name,
             PrepareDraft(c, d, t, b, n)
      PROVE  Basics'
  <2> DEFINE j == Request("session", d, t, b, n)
  <2>1. j \in Job
    <3>1. "session" \in Step
      BY DEF Step
    <3>2. /\ t \in Target \cup {None} /\ b \in Body \cup {None}
          /\ n \in Name \cup {None} /\ d \in Draft \cup {None}
      OBVIOUS
    <3> QED
      BY <3>1, <3>2, RequestType
  <2>5. /\ j.at = "session" /\ j.draft = d /\ j.target = t /\ j.body = b /\ j.name = n /\ j.headers = None
    BY DEF Request
  <2>2. Begin(c, j) /\ UNCHANGED store
    BY <1>4 DEF PrepareDraft
  <2> HIDE DEF j
  <2>3. job'[c] = j
    BY <2>2 DEF Begin
  <2>4. ClientFits(c)'
    BY <2>1, <2>3, <2>5 DEF ClientFits
  <2> QED
    BY <2>1, <2>2, <2>4, StoreStays, Begun DEF Basics
<1> QED
  BY <1>1, <1>2, <1>3, <1>4

\* A request that is answered, or goes on, without having written.
LEMMA ReadStep ==
  ASSUME Basics, LateMoves, NEW c \in Client,
         CompareSession(c) \/ LoadForDraft(c) \/ TakeHash(c) \/ FindRoom(c)
  PROVE  Basics'
<1> job \in [Process -> Job \cup {None}] /\ c \in Process
  BY DEF Basics, JobsOK, Process
<1>1. job[c] # None /\ job[c] \in Job /\ ClientFits(c) /\ UNCHANGED store
  BY DEF CompareSession, LoadForDraft, TakeHash, FindRoom, At, Basics
<1>2. TablesOK' /\ Ages /\ TablesOK
  BY <1>1, StoreStays DEF Basics
<1>3. CASE Answered(c)
  <2>1. job' = [job EXCEPT ![c] = None]
    BY <1>3 DEF Answered
  <2> QED
    BY <1>2, <2>1, ClientJob DEF LateMoves
<1>4. ASSUME NEW s \in {"replace", "hash", "write draft"}, ToStep(c, s),
             s = "replace" => job[c].at = "compare", s = "hash" => job[c].at = "session",
             s = "write draft" => job[c].at = "room"
      PROVE  Basics'
  <2> DEFINE j == [job[c] EXCEPT !.at = s]
  <2>1. j \in Job /\ job' = [job EXCEPT ![c] = j]
    BY <1>1, <1>4 DEF ToStep, Job, Step
  <2>2. job'[c] = j /\ j.at = s /\ j.draft = job[c].draft /\ j.target = job[c].target
        /\ j.body = job[c].body /\ j.name = job[c].name /\ j.stamp = job[c].stamp
        /\ j.headers = job[c].headers
    BY <1>1, <2>1 DEF Job
  <2> HIDE DEF j
  <2>3. ClientFits(c)'
    BY <1>1, <1>4, <2>2 DEF ClientFits, NotOlder, store
  <2> QED
    BY <1>2, <2>1, <2>3, ClientJob DEF LateMoves
<1>5. CASE CompareSession(c)
  BY <1>3, <1>4, <1>5 DEF CompareSession, At
<1>6. CASE LoadForDraft(c)
  BY <1>3, <1>4, <1>6 DEF LoadForDraft, At
<1>7. CASE FindRoom(c)
  BY <1>3, <1>4, <1>7 DEF FindRoom, At
<1>8. CASE TakeHash(c) /\ ~Answered(c)
  <2>1. job[c].at = "hash" /\ vault[job[c].name] # None
        /\ job' = [job EXCEPT ![c].at = "room", ![c].stamp = vault[job[c].name].stamp]
    BY <1>8 DEF TakeHash, At
  <2>2. job[c].name \in Name /\ vault[job[c].name] \in Session
    BY <1>1, <1>2, <2>1 DEF ClientFits, TablesOK
  <2>3. PICK s \in 1..MaxStamp : s = vault[job[c].name].stamp /\ s <= stamp
    BY <1>2, <2>1, <2>2 DEF Session, TablesOK
  <2> DEFINE j == [job[c] EXCEPT !.at = "room", !.stamp = s]
  <2>4. j \in Job /\ job' = [job EXCEPT ![c] = j]
    <3>1. s \in 0..MaxStamp
      BY Numbers
    <3>2. j \in Job
      BY <1>1, <3>1 DEF Job, Step
    <3> QED
      BY <1>1, <2>1, <2>3, <3>2 DEF Job
  <2>5. job'[c] = j /\ j.at = "room" /\ j.draft = job[c].draft /\ j.target = job[c].target
        /\ j.body = job[c].body /\ j.name = job[c].name /\ j.stamp = s
        /\ j.headers = job[c].headers
    BY <1>1, <2>4 DEF Job
  <2> HIDE DEF j
  <2>6. NotOlder(job[c].name, s)
    BY <2>2, <2>3, Numbers DEF NotOlder
  <2>7. ClientFits(c)'
    BY <1>1, <2>1, <2>3, <2>5, <2>6 DEF ClientFits, NotOlder, store
  <2> QED
    BY <1>2, <2>4, <2>7, ClientJob DEF LateMoves
<1> QED
  BY <1>3, <1>5, <1>6, <1>7, <1>8

\* A request that writes and is answered.
LEMMA WriteStep ==
  ASSUME Basics, LateMoves, NEW c \in Client,
         WriteTarget(c) \/ ReplaceSession(c) \/ UnlinkSession(c) \/ WriteDraft(c)
  PROVE  Basics'
<1>1. /\ job[c] # None /\ job[c] \in Job /\ ClientFits(c) /\ TablesOK
      /\ job' = [job EXCEPT ![c] = None]
  BY DEF WriteTarget, ReplaceSession, UnlinkSession, WriteDraft, At, Answered, Basics, JobsOK,
         Process
<1> SUFFICES TablesOK' /\ Ages
  BY <1>1, ClientJob DEF LateMoves
<1>2. CASE WriteTarget(c)
  <2>1. PICK t \in issued, b \in Body : t = job[c].target /\ b = job[c].body
    BY <1>1, <1>2 DEF WriteTarget, At, ClientFits
  <2>2. targets' = [targets EXCEPT ![t] = b] /\ UNCHANGED <<issued, vault, stamp, drafts>>
    BY <1>2, <2>1 DEF WriteTarget
  <2>3. targets' \in [Target -> Body \cup {None}]
    BY <1>1, <2>2 DEF TablesOK
  <2>4. \A u \in Target \ issued' : targets'[u] = None
    BY <1>1, <2>2 DEF TablesOK
  <2> QED
    BY <1>1, <2>2, <2>3, <2>4 DEF TablesOK, NotOlder, Ages
<1>3. CASE ReplaceSession(c)
  <2>1. PICK n \in Name, t \in Target, b \in Body :
           n = job[c].name /\ t = job[c].target /\ b = job[c].body
    BY <1>1, <1>3 DEF ReplaceSession, At, ClientFits
  <2>2. PICK s : s = [bound |-> BindingOf(job[c]), stamp |-> stamp + 1]
    OBVIOUS
  <2>3. /\ vault' = [vault EXCEPT ![n] = s] /\ stamp' = stamp + 1 /\ stamp < MaxStamp
        /\ UNCHANGED <<targets, issued, drafts>>
    BY <1>3, <2>1, <2>2 DEF ReplaceSession
  <2>4. stamp \in Nat /\ stamp + 1 \in 1..MaxStamp
    BY <1>1, <2>3, Numbers DEF TablesOK
  <2>5. BindingOf(job[c]) \in Binding
    BY <2>1 DEF BindingOf, Binding
  <2>6. s \in Session /\ s.stamp = stamp + 1
    BY <2>2, <2>4, <2>5 DEF Session
  <2>7. vault' \in [Name -> Session \cup {None}] /\ \A m \in Name \ {n} : vault'[m] = vault[m]
    BY <1>1, <2>3, <2>6 DEF TablesOK
  <2>8. \A m \in Name : vault'[m] # None => vault'[m].stamp <= stamp'
    BY <1>1, <2>3, <2>4, <2>6, <2>7 DEF TablesOK, Session
  <2>9. ASSUME NEW m \in Name, NEW x \in Nat, NotOlder(m, x) PROVE NotOlder(m, x)'
    BY <1>1, <2>3, <2>4, <2>6, <2>7, <2>9 DEF TablesOK, NotOlder
  <2>10. ASSUME NEW d \in Draft, drafts[d] # None
         PROVE  NotOlder(drafts[d].name, drafts[d].stamp)'
    <3>1. PICK m \in Name, x \in Nat : m = drafts[d].name /\ x = drafts[d].stamp
      BY <1>1, <2>10, Numbers DEF TablesOK, Row
    <3>2. NotOlder(m, x)
      BY <1>1, <2>10, <3>1 DEF TablesOK
    <3>3. NotOlder(m, x)'
      BY <2>9, <3>2
    <3> QED
      BY <2>3, <3>1, <3>3
  <2>11. stamp' \in 0..MaxStamp
    BY <2>3, <2>4
  <2> QED
    BY <1>1, <2>3, <2>7, <2>8, <2>9, <2>10, <2>11 DEF TablesOK, Ages
<1>4. CASE UnlinkSession(c)
  <2>1. PICK n \in Name : n = job[c].name
    BY <1>1, <1>4 DEF UnlinkSession, At, ClientFits
  <2>2. vault' = [vault EXCEPT ![n] = None] /\ UNCHANGED <<targets, issued, stamp, drafts>>
    BY <1>4, <2>1 DEF UnlinkSession
  <2>3. ASSUME NEW m \in Name, NEW x, NotOlder(m, x) PROVE NotOlder(m, x)'
    BY <1>1, <2>2, <2>3 DEF TablesOK, NotOlder
  <2>4. ASSUME NEW d \in Draft, drafts[d] # None
        PROVE  NotOlder(drafts[d].name, drafts[d].stamp)'
    <3>1. PICK m \in Name, x \in 1..MaxStamp : m = drafts[d].name /\ x = drafts[d].stamp
      BY <1>1, <2>4 DEF TablesOK, Row
    <3>2. NotOlder(m, x)'
      BY <1>1, <2>3, <2>4, <3>1 DEF TablesOK
    <3> QED
      BY <2>2, <3>1, <3>2
  <2> QED
    BY <1>1, <2>2, <2>3, <2>4 DEF TablesOK, Ages
<1>5. CASE WriteDraft(c)
  <2>1. PICK d \in Draft, n \in Name, t \in Target, b \in Body, s \in 1..MaxStamp :
           /\ d = job[c].draft /\ n = job[c].name /\ t = job[c].target /\ b = job[c].body
           /\ s = job[c].stamp /\ NotOlder(n, s)
    BY <1>1, <1>5 DEF WriteDraft, At, ClientFits
  <2>2. PICK row \in Row : row = [target |-> t, body |-> b, name |-> n, stamp |-> s]
    BY DEF Row
  <2>3. drafts' = [drafts EXCEPT ![d] = row] /\ UNCHANGED <<targets, issued, vault, stamp>>
    BY <1>5, <2>1, <2>2 DEF WriteDraft
  <2>4. row.name = n /\ row.stamp = s
    BY <2>2
  <2>5. drafts' \in [Draft -> Row \cup {None}]
    BY <1>1, <2>3 DEF TablesOK
  <2>6. ASSUME NEW e \in Draft, drafts'[e] # None
        PROVE  NotOlder(drafts[e].name, drafts[e].stamp)'
    BY <1>1, <2>1, <2>3, <2>4, <2>6 DEF TablesOK, NotOlder
  <2> QED
    BY <1>1, <2>3, <2>5, <2>6 DEF TablesOK, NotOlder, Ages
<1> QED
  BY <1>2, <1>3, <1>4, <1>5

\* A draft is deleted; nobody's request changes.
LEMMA DeleteStep ==
  ASSUME Basics, LateMoves,
         (\E t \in Target : DeleteTarget(t)) \/ (\E d \in Draft : DeleteDraft(d))
  PROVE  Basics'
<1>1. UNCHANGED <<vault, stamp, job, issued>> /\ TablesOK
  BY DEF DeleteTarget, DeleteDraft, Basics
<1>2. TablesOK'
  <2>1. ASSUME NEW t \in Target, DeleteTarget(t) PROVE TablesOK'
    BY <1>1, <2>1 DEF DeleteTarget, TablesOK, NotOlder
  <2>2. ASSUME NEW d \in Draft, DeleteDraft(d) PROVE TablesOK'
    <3>1. drafts' = [drafts EXCEPT ![d] = None] /\ UNCHANGED targets
      BY <2>2 DEF DeleteDraft
    <3>2. ASSUME NEW e \in Draft, drafts'[e] # None
          PROVE  NotOlder(drafts[e].name, drafts[e].stamp)'
      BY <1>1, <3>1, <3>2 DEF TablesOK, NotOlder
    <3> QED
      BY <1>1, <3>1, <3>2 DEF TablesOK
  <2> QED
    BY <2>1, <2>2
<1>3. UNCHANGED <<job, vault, stamp, issued>> => \A c \in Client : ClientFits(c) => ClientFits(c)'
  BY DEF ClientFits, NotOlder
<1>4. UNCHANGED <<job, vault, stamp>> /\ WorkerFits => WorkerFits'
  BY DEF WorkerFits, NotOlder, BindingOf
<1> QED
  BY <1>1, <1>2, <1>3, <1>4 DEF Basics, JobsOK, LateMoves
-----------------------------------------------------------------------------
(***************************************************************************)
(* What the review does.                                                   *)
(***************************************************************************)

\* The review goes on with the request j, or ends.
LEMMA ReviewJob ==
  ASSUME Basics, LateMoves, NEW j \in Job \cup {None}, job' = [job EXCEPT ![Worker] = j],
         UNCHANGED store, j # None => WorkerFits'
  PROVE  Basics'
BY WorkerJob DEF LateMoves

\* The review reads, or sends what it has: it moves to step s and keeps what it is about.
LEMMA ReviewMoves ==
  ASSUME Basics, LateMoves, job[Worker] # None, UNCHANGED store,
         NEW s \in {"row", "target", "session", "hash", "load", "send"}, NEW a \in BOOLEAN,
         NEW h \in Session \cup {None},
         job' = [job EXCEPT ![Worker] = [job[Worker] EXCEPT !.at = s, !.approved = a,
                                                            !.headers = h]],
         s \in {"load", "send"} => a,
         s = "load" => h = None,
         s = "send" => h # None /\ h.stamp = job[Worker].stamp,
         h # None => /\ a /\ h.bound = BindingOf(job[Worker])
                     /\ job[Worker].stamp <= h.stamp /\ NotOlder(job[Worker].name, h.stamp)
  PROVE  Basics'
<1> DEFINE j == [job[Worker] EXCEPT !.at = s, !.approved = a, !.headers = h]
<1>1. job[Worker] \in Job /\ WorkerFits /\ Worker \in Process /\ job \in [Process -> Job \cup {None}]
  BY DEF Basics, JobsOK, Process
<1>2. j \in Job
  BY <1>1 DEF Job, Step
<1>3. /\ j.at = s /\ j.approved = a /\ j.headers = h /\ j.draft = job[Worker].draft
      /\ j.target = job[Worker].target /\ j.body = job[Worker].body
      /\ j.name = job[Worker].name /\ j.stamp = job[Worker].stamp
  BY <1>1 DEF Job
<1>4. job' = [job EXCEPT ![Worker] = j]
  OBVIOUS
<1> HIDE DEF j
<1>5. job'[Worker] = j /\ vault' = vault /\ stamp' = stamp
  BY <1>1, <1>4 DEF store
<1>6. WorkerFits'
  BY <1>1, <1>3, <1>5 DEF WorkerFits, NotOlder, BindingOf
<1> QED
  BY <1>2, <1>4, <1>6, ReviewJob
LEMMA PreviewStep ==
  ASSUME Basics, LateMoves, NEW d \in Draft, Preview(d)
  PROVE  Basics'
<1>1. drafts[d] # None /\ drafts[d] \in Row /\ NotOlder(drafts[d].name, drafts[d].stamp)
      /\ UNCHANGED store
  BY DEF Preview, Basics, TablesOK
<1>2. PICK t \in Target, b \in Body, n \in Name, s \in 1..MaxStamp :
         drafts[d] = [target |-> t, body |-> b, name |-> n, stamp |-> s]
  BY <1>1 DEF Row
<1>3. NotOlder(n, s)
  BY <1>1, <1>2
<1> DEFINE j == [Request("row", d, t, b, n) EXCEPT !.stamp = s]
<1>4. j \in Job
  <2>1. "row" \in Step
    BY DEF Step
  <2>2. /\ d \in Draft \cup {None} /\ t \in Target \cup {None} /\ b \in Body \cup {None}
        /\ n \in Name \cup {None}
    OBVIOUS
  <2>3. Request("row", d, t, b, n) \in Job
    BY <2>1, <2>2, RequestType
  <2>4. s \in 0..MaxStamp
    BY Numbers
  <2> QED
    BY <2>3, <2>4 DEF Job
<1>5. /\ j.at = "row" /\ j.draft = d /\ j.target = t /\ j.body = b /\ j.name = n
      /\ j.stamp = s /\ j.headers = None /\ j.approved = FALSE
  BY DEF Request
<1>6. job' = [job EXCEPT ![Worker] = j]
  BY <1>2 DEF Preview, Begin
<1> HIDE DEF j
<1>7. job'[Worker] = j /\ vault' = vault /\ stamp' = stamp
  BY <1>1, <1>6 DEF Basics, JobsOK, Process, store
<1>8. WorkerFits'
  BY <1>3, <1>5, <1>7 DEF WorkerFits, NotOlder
<1> QED
  BY <1>1, <1>4, <1>6, <1>8, ReviewJob

LEMMA ReviewStep ==
  ASSUME Basics, LateMoves,
         ReadRow \/ ReadTarget \/ ReadSession \/ ReadHash \/ LoadSession \/ Send \/ EndReview
  PROVE  Basics'
<1>1. /\ job[Worker] # None /\ job[Worker] \in Job /\ WorkerFits /\ UNCHANGED store
      /\ TablesOK /\ job \in [Process -> Job \cup {None}] /\ Worker \in Process
  BY DEF ReadRow, ReadTarget, ReadSession, ReadHash, LoadSession, Send, EndReview, At, Basics,
         JobsOK, Process
<1>2. CASE Answered(Worker)
  BY <1>1, <1>2, ReviewJob DEF Answered
<1>3. PICK j \in Job : j = job[Worker]
  BY <1>1
<1>4. /\ job[Worker].approved \in BOOLEAN /\ job[Worker].headers \in Session \cup {None}
      /\ j.name \in Name /\ j.stamp \in 1..MaxStamp
  BY <1>1, <1>3 DEF Job, WorkerFits
<1>5. ASSUME NEW s \in {"target", "session", "hash"}, ToStep(Worker, s) PROVE Basics'
  <2>1. job' = [job EXCEPT ![Worker] = [job[Worker] EXCEPT !.at = s,
                            !.approved = job[Worker].approved, !.headers = job[Worker].headers]]
    BY <1>1, <1>5 DEF ToStep, Job
  <2> QED
    BY <1>1, <1>4, <2>1, ReviewMoves DEF WorkerFits
<1>6. CASE ReadRow \/ ReadTarget \/ ReadSession
  BY <1>2, <1>5, <1>6 DEF ReadRow, ReadTarget, ReadSession
<1>7. CASE ReadHash /\ ~Answered(Worker)
  <2>1. SessionIsHeld(job[Worker]) /\ job[Worker].at = "hash"
    BY <1>7 DEF ReadHash, At
  <2>2. vault[j.name] \in Session /\ vault[j.name].stamp = j.stamp
    BY <1>1, <1>3, <1>4, <2>1 DEF SessionIsHeld, TablesOK
  <2>3. CASE ~job[Worker].approved
    <3>1. job' = [job EXCEPT ![Worker].at = "row", ![Worker].approved = TRUE]
      BY <1>7, <2>1, <2>3 DEF ReadHash
    <3>2. job' = [job EXCEPT ![Worker] = [job[Worker] EXCEPT !.at = "row",
                              !.approved = TRUE, !.headers = job[Worker].headers]]
      BY <1>1, <3>1 DEF Job
    <3> QED
      BY <1>1, <1>4, <3>2, ReviewMoves DEF WorkerFits
  <2>4. CASE job[Worker].approved /\ job[Worker].headers = None
    <3>1. job' = [job EXCEPT ![Worker].at = "load"]
      BY <1>7, <2>1, <2>4 DEF ReadHash, ToStep
    <3>2. job' = [job EXCEPT ![Worker] = [job[Worker] EXCEPT !.at = "load",
                    !.approved = job[Worker].approved, !.headers = job[Worker].headers]]
      BY <1>1, <3>1 DEF Job
    <3> QED
      BY <1>1, <1>4, <2>4, <3>2, ReviewMoves DEF WorkerFits
  <2>5. CASE job[Worker].approved /\ job[Worker].headers # None
    <3>1. job' = [job EXCEPT ![Worker].at = "send"]
      BY <1>7, <2>1, <2>5 DEF ReadHash, ToStep
    <3>2. job' = [job EXCEPT ![Worker] = [job[Worker] EXCEPT !.at = "send",
                    !.approved = job[Worker].approved, !.headers = job[Worker].headers]]
      BY <1>1, <3>1 DEF Job
    <3>3. /\ job[Worker].stamp <= job[Worker].headers.stamp
          /\ job[Worker].headers.stamp <= vault[job[Worker].name].stamp
      BY <1>1, <1>3, <2>1, <2>2, <2>5 DEF WorkerFits, NotOlder, SessionIsHeld
    <3>4. job[Worker].headers.stamp = job[Worker].stamp
      <4>1. PICK h \in Session : h = job[Worker].headers
        BY <1>4, <2>5
      <4>2. h.stamp \in Nat /\ j.stamp \in Nat
        BY <1>4, Numbers DEF Session
      <4>3. j.stamp <= h.stamp /\ h.stamp <= j.stamp
        BY <1>3, <2>2, <3>3, <4>1
      <4>4. h.stamp = j.stamp
        BY <4>2, <4>3
      <4> QED
        BY <1>3, <4>1, <4>4
    <3> QED
      BY <1>1, <1>4, <2>5, <3>2, <3>4, ReviewMoves DEF WorkerFits
  <2> QED
    BY <2>3, <2>4, <2>5
<1>8. CASE LoadSession /\ ~Answered(Worker)
  <2>1. /\ SessionIsBound(job[Worker]) /\ job[Worker].at = "load"
        /\ job' = [job EXCEPT ![Worker].at = "row", ![Worker].headers = vault[job[Worker].name]]
    BY <1>8 DEF LoadSession, At
  <2>2. PICK h \in Session : h = vault[job[Worker].name]
    BY <1>1, <1>3, <1>4, <2>1 DEF SessionIsBound, TablesOK
  <2>3. h.bound = BindingOf(job[Worker])
    BY <2>1, <2>2 DEF SessionIsBound
  <2>4. job[Worker].stamp <= h.stamp /\ NotOlder(job[Worker].name, h.stamp)
    <3>1. h # None
      BY <2>1, <2>2 DEF SessionIsBound
    <3>2. NotOlder(job[Worker].name, job[Worker].stamp)
      BY <1>1 DEF WorkerFits
    <3>3. job[Worker].stamp <= h.stamp
      BY <2>2, <3>1, <3>2 DEF NotOlder
    <3>4. h.stamp <= stamp
      BY <1>1, <1>3, <1>4, <2>2, <3>1 DEF TablesOK
    <3>5. h.stamp <= vault[job[Worker].name].stamp
      BY <2>2, Numbers DEF Session
    <3> QED
      BY <3>3, <3>4, <3>5 DEF NotOlder
  <2>5. job[Worker].approved = TRUE
    BY <1>1, <1>4, <2>1 DEF WorkerFits
  <2>6. job' = [job EXCEPT ![Worker] = [job[Worker] EXCEPT !.at = "row", !.approved = TRUE,
                                                          !.headers = h]]
    <3>1. [job[Worker] EXCEPT !.at = "row", !.headers = h]
             = [job[Worker] EXCEPT !.at = "row", !.approved = TRUE, !.headers = h]
      BY <1>1, <2>5 DEF Job
    <3>2. job' = [job EXCEPT ![Worker] = [job[Worker] EXCEPT !.at = "row", !.headers = h]]
      BY <1>1, <2>1, <2>2
    <3> QED
      BY <3>1, <3>2
  <2> QED
    BY <1>1, <2>3, <2>4, <2>6, ReviewMoves
<1>9. CASE Send
  <2>1. job' = [job EXCEPT ![Worker].at = "row", ![Worker].headers = None]
    BY <1>9 DEF Send
  <2>2. job' = [job EXCEPT ![Worker] = [job[Worker] EXCEPT !.at = "row",
                  !.approved = job[Worker].approved, !.headers = None]]
    BY <1>1, <2>1 DEF Job
  <2> QED
    BY <1>1, <1>4, <2>2, ReviewMoves
<1> QED
  BY <1>2, <1>6, <1>7, <1>8, <1>9 DEF EndReview
-----------------------------------------------------------------------------
(***************************************************************************)
(* Basics holds always.                                                    *)
(***************************************************************************)

LEMMA LateIsOf == Next => LateMoves
BY DEF Next, LateMoves, Changed

LEMMA BasicsStep == Basics /\ [Next]_vars => Basics'
<1> SUFFICES ASSUME Basics, [Next]_vars PROVE Basics'
  OBVIOUS
<1>1. CASE UNCHANGED vars
  <2> UNCHANGED <<store, job, late>>
    BY <1>1 DEF vars
  <2>1. TablesOK'
    BY StoreStays DEF Basics
  <2>2. \A c \in Client : ClientFits(c) => ClientFits(c)'
    BY DEF store, ClientFits, NotOlder
  <2>3. WorkerFits => WorkerFits'
    BY DEF store, WorkerFits, NotOlder, BindingOf
  <2> QED
    BY <2>1, <2>2, <2>3 DEF Basics, JobsOK
<1>2. CASE Next
  <2> LateMoves
    BY <1>2, LateIsOf
  <2>1. ASSUME NEW c \in Client, ClientStep(c) PROVE Basics'
    BY <2>1, BeginStep, ReadStep, WriteStep DEF ClientStep
  <2>2. CASE WorkerStep
    BY <2>2, PreviewStep, ReviewStep DEF WorkerStep
  <2> QED
    BY <1>2, <2>1, <2>2, DeleteStep DEF Next
<1> QED
  BY <1>1, <1>2

LEMMA BasicsAlways == Spec => []Basics
BY BasicsInit, BasicsStep, PTL DEF Spec

-----------------------------------------------------------------------------
(***************************************************************************)
(* What had changed at an earlier request: a gate looks at the draft, at   *)
(* its target and at the session, and what it has found unchanged has not  *)
(* been changed ever since that request.                                   *)
(***************************************************************************)

LateFits ==
  /\ job[Worker] = None => late = {}
  /\ At(Worker, "target") => "row" \notin late
  /\ At(Worker, "session") \/ At(Worker, "hash") => late \subseteq {"session"}
  /\ At(Worker, "load") \/ At(Worker, "send") => late = {}

\* Between two requests, what is late can only become less.
LEMMA LateShrinks ==
  ASSUME Next, ~Sends PROVE late' \subseteq late /\ late' \subseteq Changed'
BY DEF Next

LEMMA LateStep == Basics /\ LateFits /\ [Next]_vars => LateFits'
<1> SUFFICES ASSUME Basics, LateFits, [Next]_vars PROVE LateFits'
  OBVIOUS
<1> job \in [Process -> Job \cup {None}] /\ Worker \in Process /\ Worker \notin Client
    /\ Client \subseteq Process
  BY DEF Basics, JobsOK, Process
<1>1. CASE UNCHANGED vars
  BY <1>1 DEF LateFits, vars, At
<1>2. CASE job'[Worker] = job[Worker] /\ Next
  <2>1. ~Sends
    BY <1>2 DEF Sends, At
  <2>2. late' \subseteq late
    BY <1>2, <2>1, LateShrinks
  <2> QED
    BY <1>2, <2>2 DEF LateFits, At
<1>3. ASSUME NEW c \in Client, ClientStep(c) PROVE job'[Worker] = job[Worker]
  BY <1>3 DEF ClientStep, NewTarget, EditTarget, WriteTarget, ForgetSession, SaveSession,
     CompareSession, ReplaceSession, UnlinkSession, PrepareDraft, LoadForDraft, TakeHash,
     FindRoom, WriteDraft, Begin, ToStep, Answered
<1>4. ASSUME Next, ~WorkerStep PROVE LateFits'
  BY <1>2, <1>3, <1>4 DEF Next, DeleteTarget, DeleteDraft
<1>5. ASSUME Next, job'[Worker] = None PROVE LateFits'
  <2>1. late' = {}
    BY <1>5, LateShrinks DEF Sends, Changed
  <2> QED
    BY <1>5, <2>1 DEF LateFits, At
<1>6. ASSUME Next, At(Worker, "row")', Sends \/ job[Worker] # None PROVE LateFits'
  BY <1>6 DEF LateFits, At
<1>7. ASSUME Next, NEW d \in Draft, Preview(d) PROVE LateFits'
  <2>1. job[Worker] = None /\ ~Sends
    BY <1>7 DEF Preview, Begin, Sends, At
  <2>2. late' = {}
    BY <1>7, <2>1, LateShrinks DEF LateFits
  <2> QED
    BY <2>2 DEF LateFits
<1>8. ASSUME Next, ReadRow PROVE LateFits'
  <2>1. CASE ToStep(Worker, "target") /\ RowIsHeld(job[Worker]) /\ job'[Worker] # None
    <3>1. /\ job'[Worker] = [job[Worker] EXCEPT !.at = "target"] /\ job[Worker] \in Job
          /\ job[Worker].at = "row"
      BY <1>8, <2>1 DEF ReadRow, ToStep, At
    <3>2. RowIsHeld(job[Worker])' /\ At(Worker, "target")'
      BY <1>8, <2>1, <3>1 DEF ReadRow, store, RowIsHeld, Job, At
    <3>3. "row" \notin late'
      BY <1>8, <3>1, <3>2, LateShrinks DEF Changed, Sends, At
    <3> QED
      BY <3>2, <3>3 DEF LateFits, At
  <2> QED
    BY <1>5, <1>8, <2>1 DEF ReadRow, Answered
<1>9. ASSUME Next, ReadTarget PROVE LateFits'
  <2>1. CASE ToStep(Worker, "session") /\ TargetIsHeld(job[Worker]) /\ job'[Worker] # None
    <3>1. /\ job'[Worker] = [job[Worker] EXCEPT !.at = "session"] /\ job[Worker] \in Job
          /\ job[Worker].at = "target"
      BY <1>9, <2>1 DEF ReadTarget, ToStep, At
    <3>2. TargetIsHeld(job[Worker])' /\ At(Worker, "session")' /\ "row" \notin late
      BY <1>9, <2>1, <3>1 DEF ReadTarget, store, TargetIsHeld, Job, At, LateFits
    <3>3. "target" \notin late' /\ late' \subseteq late
      BY <1>9, <3>1, <3>2, LateShrinks DEF Changed, Sends, At
    <3>4. late' \subseteq {"session"}
      BY <3>2, <3>3 DEF Basics
    <3> QED
      BY <3>2, <3>4 DEF LateFits, At
  <2> QED
    BY <1>5, <1>9, <2>1 DEF ReadTarget, Answered
<1>10. ASSUME Next, ReadSession PROVE LateFits'
  <2>1. CASE ToStep(Worker, "hash") /\ job'[Worker] # None
    <3>1. /\ job'[Worker] = [job[Worker] EXCEPT !.at = "hash"] /\ job[Worker] \in Job
          /\ job[Worker].at = "session"
      BY <1>10, <2>1 DEF ReadSession, ToStep, At
    <3>2. At(Worker, "hash")' /\ late' \subseteq late /\ late \subseteq {"session"}
      BY <1>10, <2>1, <3>1, LateShrinks DEF ReadSession, Job, At, LateFits, Sends
    <3> QED
      BY <3>2 DEF LateFits, At
  <2> QED
    BY <1>5, <1>10, <2>1 DEF ReadSession, Answered
<1>11. ASSUME Next, ReadHash PROVE LateFits'
  <2>1. job[Worker] \in Job /\ job[Worker].at = "hash" /\ job[Worker] # None
    BY <1>11 DEF ReadHash, At
  <2>2. CASE job' = [job EXCEPT ![Worker].at = "row", ![Worker].approved = TRUE]
    <3>1. job'[Worker].at = "row"
      BY <2>1, <2>2 DEF Job
    <3> QED
      BY <1>5, <1>11, <3>1 DEF LateFits, At
  <2>3. ASSUME NEW s \in {"load", "send"}, ToStep(Worker, s), SessionIsHeld(job[Worker])
        PROVE  LateFits'
    <3>1. job'[Worker] = [job[Worker] EXCEPT !.at = s]
      BY <2>3 DEF ToStep
    <3>2. SessionIsHeld(job[Worker])' /\ job'[Worker].at = s
      BY <1>11, <2>1, <2>3, <3>1 DEF ReadHash, store, SessionIsHeld, Job
    <3>3. late' \subseteq late /\ late \subseteq {"session"} /\ "session" \notin late'
      BY <1>11, <2>1, <3>2, LateShrinks DEF Changed, Sends, At, LateFits
    <3>4. late' = {}
      BY <3>3
    <3> QED
      BY <3>4 DEF LateFits
  <2> QED
    BY <1>5, <1>11, <2>1, <2>2, <2>3 DEF ReadHash, Answered
<1>12. ASSUME Next, LoadSession \/ Send PROVE LateFits'
  <2>1. job[Worker] \in Job /\ job[Worker] # None
    BY <1>12 DEF LoadSession, Send, At
  <2>2. CASE Answered(Worker)
    BY <1>5, <1>12, <2>2 DEF Answered
  <2>3. CASE ~Answered(Worker)
    <3>1. job'[Worker].at = "row"
      BY <1>12, <2>1, <2>3 DEF LoadSession, Send, Job
    <3> QED
      BY <1>5, <3>1, <1>12 DEF LateFits, At
  <2> QED
    BY <2>2, <2>3
<1>13. ASSUME Next, EndReview PROVE LateFits'
  BY <1>5, <1>13 DEF EndReview, Answered
<1> QED
  BY <1>1, <1>4, <1>7, <1>8, <1>9, <1>10, <1>11, <1>12, <1>13 DEF WorkerStep

-----------------------------------------------------------------------------
(***************************************************************************)
(* The theorems.                                                           *)
(***************************************************************************)

LEMMA BasicsGiveTypes == Basics => TypeOK
<1> SUFFICES ASSUME Basics PROVE TypeOK
  OBVIOUS
<1>1. TablesOK /\ job \in [Process -> Job \cup {None}] /\ Worker \in Process
      /\ \A c \in Client : job[c] # None => job[c].headers = None
  BY DEF Basics, JobsOK, Process, ClientFits
<1>2. job[Worker] # None /\ job[Worker].headers # None
        => job[Worker].at # "load" /\ job[Worker].approved
  BY DEF Basics, WorkerFits
<1> QED
  BY <1>1, <1>2 DEF TypeOK, TablesOK, Basics

\* The tables and the vault keep their shape; a request of a client never has a session
\* loaded; only an approved review does, and it loads none twice.
THEOREM PreparationType == Spec => []TypeOK
BY BasicsAlways, BasicsGiveTypes, PTL

\* The request of a review carries the session file that was approved, made for its
\* target and its origin, whatever the clients do to the vault meanwhile.
THEOREM ApprovedSessionOnly == Spec => []SentAsApproved
<1>1. Basics => SentAsApproved
  BY DEF Basics, WorkerFits, SentAsApproved, At
<1> QED
  BY <1>1, BasicsAlways, PTL

\* After the draft, its target or the session has changed, at most one more request.
THEOREM OneRequestAfterChange == Spec => OnceAfterChange
<1>1. Init => LateFits
  BY DEF Init, LateFits, At, Process
<1>2. Basics /\ LateFits /\ [Next]_vars => [Sends => late = {}]_vars
  BY DEF LateFits, Sends, At
<1> QED
  BY <1>1, <1>2, BasicsAlways, LateStep, PTL DEF Spec, OnceAfterChange
=============================================================================
