-------------------------- MODULE AgentRunnerProofs --------------------------
(***************************************************************************)
(* Theorems about AgentRunner, for every set of consoles and actions, every *)
(* recipe and coverage rule, and every value of the limits.                *)
(***************************************************************************)
EXTENDS AgentRunner, TLAPS

\* The assumptions on the constants are used throughout.
USE RunnerAssumption

-----------------------------------------------------------------------------
(***************************************************************************)
(* Type correctness.                                                       *)
(***************************************************************************)

\* What the loop writes into its row is again a row.
LEMMA RowType ==
  ASSUME NEW row \in Row
  PROVE  /\ \A st \in State : [row EXCEPT !.state = st] \in Row
         /\ \A a \in Action, res \in Result : [row EXCEPT !.result[a] = res] \in Row
         /\ \A a \in Action, res \in Result :
              [row EXCEPT !.result[a] = res, !.steps = @ + 1] \in Row
         /\ \A n \in Nat : [row EXCEPT !.tokens = @ + n] \in Row
         /\ \A n \in Nat : [row EXCEPT !.requests = @ + n] \in Row
         /\ [row EXCEPT !.calls = @ + 1] \in Row
         /\ Rejecting(row) \in Row
<1>1. \A st \in State : [row EXCEPT !.state = st] \in Row
  BY DEF Row
<1>2. \A a \in Action, res \in Result : [row.result EXCEPT ![a] = res] \in [Action -> Result]
  BY DEF Row
<1>3. \A a \in Action, res \in Result : [row EXCEPT !.result[a] = res] \in Row
  BY <1>2 DEF Row
<1> row.steps + 1 \in Nat /\ row.calls + 1 \in Nat
  BY DEF Row
<1>4. ASSUME NEW a \in Action, NEW res \in Result
      PROVE  [row EXCEPT !.result[a] = res, !.steps = @ + 1] \in Row
  <2>1. [row.result EXCEPT ![a] = res] \in [Action -> Result]
    BY <1>2
  <2> DEFINE f == [row.result EXCEPT ![a] = res]
             n == row.steps + 1
  <2>2. [row EXCEPT !.result = f, !.steps = n] \in Row
    <3> HIDE DEF f, n
    <3>1. f \in [Action -> Result] /\ n \in Nat
      BY <2>1 DEF f, n
    <3> QED
      BY <3>1 DEF Row
  <2> QED
    BY <2>2
<1>5. /\ \A n \in Nat : [row EXCEPT !.tokens = @ + n] \in Row
      /\ \A n \in Nat : [row EXCEPT !.requests = @ + n] \in Row
      /\ [row EXCEPT !.calls = @ + 1] \in Row
  <2>1. ASSUME NEW n \in Nat
        PROVE  [row EXCEPT !.tokens = @ + n] \in Row /\ [row EXCEPT !.requests = @ + n] \in Row
    <3> row.tokens + n \in Nat /\ row.requests + n \in Nat
      BY DEF Row
    <3> QED
      BY DEF Row
  <2>2. [row EXCEPT !.calls = @ + 1] \in Row
    BY DEF Row
  <2> QED
    BY <2>1, <2>2
<1>6. Rejecting(row) \in Row
  BY DEF Row, Rejecting
<1> QED
  BY <1>1, <1>3, <1>4, <1>5, <1>6

LEMMA NewRowType == NewRow \in Row
BY DEF NewRow, Row, State, Active, Result

\* A save, and a save that ends the loop, keep the types.
LEMMA SaveType ==
  ASSUME TypeOK, NEW c \in Console, NEW row \in Row, Save(c, row)
  PROVE  doc' \in Row /\ owner' \in Console \cup {Nobody} /\ mem' \in [Console -> Row]
BY DEF Save, TypeOK

LEMMA EndsInType ==
  ASSUME TypeOK, NEW c \in Console, NEW row \in Row, NEW states \in SUBSET State,
         EndsIn(c, row, states)
  PROVE  /\ doc' \in Row /\ owner' \in Console \cup {Nobody}
         /\ mem' \in [Console -> Row] /\ pc' \in [Console -> PC]
<1>1. PICK st \in states : Save(c, [row EXCEPT !.state = st])
  BY DEF EndsIn
<1>2. [row EXCEPT !.state = st] \in Row
  BY RowType
<1> QED
  BY <1>1, <1>2, SaveType DEF EndsIn, Go, TypeOK, PC

\* Beginning an action keeps them too.
LEMMA BeginType ==
  ASSUME TypeOK, NEW c \in Console, NEW a \in Action, NEW row \in Row, Begin(c, a, row)
  PROVE  /\ doc' \in Row /\ owner' \in Console \cup {Nobody}
         /\ mem' \in [Console -> Row] /\ pc' \in [Console -> PC]
<1>1. [row EXCEPT !.result[a] = "executing", !.steps = @ + 1] \in Row
  BY RowType DEF Result
<1> QED
  BY <1>1, SaveType DEF Begin, Go, TypeOK, PC

\* Every step keeps the types.
LEMMA TypeStep ==
  ASSUME TypeOK, [Next]_vars
  PROVE  TypeOK'
<1> USE DEF Go, At, history
<1>1. CASE UNCHANGED vars
  BY <1>1 DEF vars, memory, TypeOK
<1>2. ASSUME NEW c \in Console, WorkerStep(c) PROVE TypeOK'
  <2> mem[c] \in Row
    BY DEF TypeOK
  <2>1. CASE Load(c)
    BY <2>1 DEF Load, TypeOK, PC
  <2>2. CASE Acquire(c)
    <3>1. /\ [doc EXCEPT !.state = "running"] \in Row
          /\ [doc EXCEPT !.state = "running", !.result = mem[c].result,
               !.rejected = mem[c].rejected, !.requests = mem[c].requests] \in Row
      BY DEF TypeOK, Row, State, Active
    <3> QED
      BY <2>2, <3>1 DEF Acquire, TypeOK, PC
  <2>3. CASE AcquireRefused(c)
    BY <2>3 DEF AcquireRefused, TypeOK, PC
  <2>4. CASE TopGate(c)
    <3>1. CASE GateStops(c, mem[c])
      <4>1. (IF stop[c] THEN {"cancelled"} ELSE {"cancelled", "needs-human", "paused"})
              \in SUBSET State
        BY DEF State, Final, Resumable
      <4> QED
        BY <2>4, <3>1, <4>1, EndsInType DEF TopGate, GateStops, TypeOK
    <3>2. CASE ~GateStops(c, mem[c])
      BY <2>4, <3>2 DEF TopGate, TypeOK, PC
    <3> QED
      BY <3>1, <3>2
  <2>5. CASE RecipeTurn(c)
    <3>1. CASE EndsIn(c, mem[c], {"needs-human"})
      BY <2>5, <3>1, EndsInType DEF RecipeTurn, TypeOK, State, Final
    <3>2. CASE \E a \in Action : Begin(c, a, mem[c])
      BY <2>5, <3>2, BeginType DEF RecipeTurn, TypeOK
    <3> QED
      BY <2>5, <3>1, <3>2 DEF RecipeTurn
  <2>6. CASE ModelTurn(c)
    <3>1. CASE EndsIn(c, mem[c], {"needs-human"})
      BY <2>6, <3>1, EndsInType DEF ModelTurn, TypeOK, State, Final
    <3>2. CASE EndsIn(c, mem[c], {"paused"})
      BY <2>6, <3>2, EndsInType DEF ModelTurn, TypeOK, State, Resumable
    <3>3. CASE Save(c, [mem[c] EXCEPT !.calls = @ + 1]) /\ pc' = [pc EXCEPT ![c] = "asking"]
      BY <2>6, <3>3, RowType, SaveType DEF ModelTurn, TypeOK, PC
    <3> QED
      BY <2>6, <3>1, <3>2, <3>3 DEF ModelTurn
  <2>7. ASSUME NEW a \in Action, NEW n \in 0..MaxRequests, Perform(c, a, n)
        PROVE  TypeOK'
    <3> n \in Nat /\ did + 1 \in Nat /\ sent + n \in Nat
      BY DEF TypeOK
    <3> DEFINE row == [mem[c] EXCEPT !.requests = @ + n]
    <3>1. row \in Row
      BY RowType
    <3>2. mem' = [mem EXCEPT ![c] = row]
      BY <2>7 DEF Perform
    <3>3. mem' \in [Console -> Row]
      <4> HIDE DEF row
      <4> QED BY <3>1, <3>2 DEF TypeOK
    <3> HIDE DEF row
    <3>4. pc' \in [Console -> PC]
      BY <2>7 DEF Perform, TypeOK, PC
    <3> QED
      BY <2>7, <3>3, <3>4 DEF Perform, TypeOK
  <2>8. ASSUME NEW a \in Action, ToolFails(c, a) PROVE TypeOK'
    <3>1. [mem[c] EXCEPT !.result[a] = "failed"] \in Row
      BY RowType DEF Result
    <3>2. {"cancelled", "needs-human"} \in SUBSET State
      BY DEF State, Final
    <3> QED
      BY <2>8, <3>1, <3>2, EndsInType DEF ToolFails, TypeOK
  <2>9. ASSUME NEW a \in Action, ToolSucceeds(c, a) PROVE TypeOK'
    <3>1. PICK res \in {"ok", "partial"} :
            /\ Save(c, [mem[c] EXCEPT !.result[a] = res])
            /\ pc' = [pc EXCEPT ![c] = IF res = "partial" /\ a \in Required
                                       THEN "partial" ELSE "top"]
      BY <2>9 DEF ToolSucceeds
    <3>2. [mem[c] EXCEPT !.result[a] = res] \in Row
      BY RowType DEF Result
    <3> QED
      BY <2>9, <3>1, <3>2, SaveType DEF ToolSucceeds, TypeOK, PC
  <2>10. ASSUME NEW a \in Action, Propose(c, a) PROVE TypeOK'
    <3>1. CASE EndsIn(c, Rejecting(mem[c]), {"needs-human"})
      BY <2>10, <3>1, RowType, EndsInType DEF Propose, TypeOK, State, Final
    <3>2. CASE Begin(c, a, mem[c])
      BY <2>10, <3>2, BeginType DEF Propose, TypeOK
    <3> QED
      BY <2>10, <3>1, <3>2 DEF Propose
  <2>11. CASE RecipeIncomplete(c)
    BY <2>11, EndsInType DEF RecipeIncomplete, TypeOK, State, Final
  <2>12. ASSUME NEW u \in Usage, Ask(c, u) PROVE TypeOK'
    BY <2>12 DEF Ask, TypeOK, PC
  <2>13. CASE NoAnswer(c)
    <3> DEFINE row == [mem[c] EXCEPT !.tokens = @ + Reservation]
    <3>1. row \in Row
      BY RowType
    <3>2. EndsIn(c, row, {"paused"}) /\ {"paused"} \in SUBSET State
      BY <2>13 DEF NoAnswer, State, Resumable
    <3> HIDE DEF row
    <3> QED
      BY <2>13, <3>1, <3>2, EndsInType DEF NoAnswer, TypeOK
  <2>14. CASE AnswerGate(c)
    <3> DEFINE row == [mem[c] EXCEPT !.tokens = @ + bill[c]]
    <3>1. row \in Row
      BY RowType DEF TypeOK
    <3>2. ASSUME NEW states \in SUBSET State, EndsIn(c, row, states) PROVE TypeOK'
      BY <2>14, <3>1, <3>2, EndsInType DEF AnswerGate, TypeOK
    <3>3. CASE GateStops(c, row)
      <4>1. (IF stop[c] THEN {"cancelled"} ELSE {"cancelled", "needs-human", "paused"})
              \in SUBSET State
        BY DEF State, Final, Resumable
      <4> QED
        BY <3>2, <3>3, <4>1 DEF GateStops
    <3>4. CASE EndsIn(c, row, {"failed"}) \/ EndsIn(c, row, {"needs-human"})
      BY <3>2, <3>4 DEF State, Final
    <3>5. CASE /\ mem' = [mem EXCEPT ![c] = row] /\ pc' = [pc EXCEPT ![c] = "judging"]
               /\ UNCHANGED <<doc, owner>>
      BY <2>14, <3>1, <3>5 DEF AnswerGate, TypeOK, PC
    <3> QED
      BY <2>14, <3>3, <3>4, <3>5 DEF AnswerGate
  <2>15. CASE Malformed(c)
    <3>1. CASE mem[c].rejected
      BY <2>15, <3>1, EndsInType DEF Malformed, TypeOK, State, Final
    <3>2. CASE ~mem[c].rejected
      BY <2>15, <3>2, RowType, SaveType DEF Malformed, TypeOK, PC
    <3> QED
      BY <3>1, <3>2
  <2>16. ASSUME NEW cited \in SUBSET Observed(mem[c]), Finish(c, cited) PROVE TypeOK'
    BY <2>16, RowType, EndsInType DEF Finish, TypeOK, State, Final
  <2>17. ASSUME NEW cited \in SUBSET Observed(mem[c]), AskPerson(c, cited) PROVE TypeOK'
    BY <2>17, RowType, EndsInType DEF AskPerson, TypeOK, State, Final
  <2>18. CASE Fault(c)
    BY <2>18, EndsInType DEF Fault, TypeOK, State, Final
  <2>19. CASE FinalSave(c)
    BY <2>19, SaveType DEF FinalSave, TypeOK, PC
  <2>20. CASE ReportFails(c)
    BY <2>20 DEF ReportFails, TypeOK, PC
  <2>21. CASE CheckOwner(c)
    BY <2>21 DEF CheckOwner, TypeOK, PC
  <2>22. CASE FailWrite(c)
    BY <2>22, RowType DEF FailWrite, TypeOK, PC, State, Final
  <2>23. CASE Leave(c)
    BY <2>23, NewRowType DEF Leave, Forget, TypeOK, PC
  <2> QED
    BY <1>2, <2>1, <2>2, <2>3, <2>4, <2>5, <2>6, <2>7, <2>8, <2>9, <2>10, <2>11, <2>12,
       <2>13, <2>14, <2>15, <2>16, <2>17, <2>18, <2>19, <2>20, <2>21, <2>22, <2>23
       DEF WorkerStep
<1>3. ASSUME NEW c \in Console, Resume(c) PROVE TypeOK'
  BY <1>3 DEF Resume, TypeOK, PC
<1>4. ASSUME NEW c \in Console, Crash(c) PROVE TypeOK'
  BY <1>4, NewRowType DEF Crash, Forget, TypeOK, PC
<1>5. ASSUME NEW c \in Console, CancelRun(c) PROVE TypeOK'
  <2>1. [doc EXCEPT !.state = "cancelling"] \in Row
    BY RowType DEF TypeOK, State, Active
  <2> QED
    BY <1>5, <2>1 DEF CancelRun, TypeOK
<1>6. ASSUME NEW c \in Console, SwitchOff(c) PROVE TypeOK'
  BY <1>6 DEF SwitchOff, TypeOK
<1>7. CASE Recover
  BY <1>7, RowType DEF Recover, memory, TypeOK, State, Resumable
<1> QED
  BY <1>1, <1>2, <1>3, <1>4, <1>5, <1>6, <1>7 DEF Next

\* The variables keep their types: whatever the model answers, the tools do and
\* the consoles overwrite, the table holds a row the code can read.
THEOREM RunnerType == Spec => []TypeOK
<1>1. Init => TypeOK
  BY NewRowType DEF Init, TypeOK, PC
<1>2. TypeOK /\ [Next]_vars => TypeOK'
  BY TypeStep
<1> QED
  BY <1>1, <1>2, PTL DEF Spec

-----------------------------------------------------------------------------
(***************************************************************************)
(* A completed task is covered.  This needs no discipline of the consoles: *)
(* "completed" enters the table with the row of a worker that has just     *)
(* judged it, and is written again only by that worker.                    *)
(***************************************************************************)

\* The places between the claim and the end of the loop.
Loop == {"top", "clear", "intent", "executed", "partial", "asking", "answered",
         "judging"}

CoveredRow(row) ==
  row.state = "completed" =>
    /\ Observed(row) # {}
    /\ \A g \in Coverage : \E a \in g : row.result[a] = "ok"

CompletionInv ==
  /\ CoveredRow(doc)
  /\ \A c \in Console : /\ pc[c] \in Loop => mem[c].state = "running"
                        /\ pc[c] = "report" => CoveredRow(mem[c])

\* A loop that ends otherwise than completed leaves nothing to cover.
LEMMA EndsOtherwise ==
  ASSUME TypeOK, CompletionInv, NEW c \in Console, NEW row \in Row,
         NEW states \in SUBSET State, EndsIn(c, row, states), "completed" \notin states
  PROVE  CompletionInv'
<1>1. PICK st \in states : Save(c, [row EXCEPT !.state = st])
  BY DEF EndsIn
<1> DEFINE new == [row EXCEPT !.state = st]
<1>2. new.state = st /\ st # "completed"
  BY DEF Row
<1>3. CoveredRow(new)
  BY <1>2 DEF CoveredRow
<1>4. doc' = new /\ mem' = [mem EXCEPT ![c] = new] /\ pc' = [pc EXCEPT ![c] = "report"]
  BY <1>1 DEF Save, EndsIn, Go
<1> HIDE DEF new
<1> QED
  BY <1>3, <1>4 DEF CompletionInv, CoveredRow, TypeOK, Loop, Observed

\* A save from inside the loop, which goes on.
LEMMA SavesRunning ==
  ASSUME TypeOK, CompletionInv, NEW c \in Console, NEW row \in Row,
         Save(c, row), row.state = "running", NEW p \in Loop, Go(c, p)
  PROVE  CompletionInv'
BY DEF Save, Go, CompletionInv, CoveredRow, TypeOK, Loop, Observed

\* A step that leaves the table alone and does not enter the loop or the report.
LEMMA TableAlone ==
  ASSUME TypeOK, CompletionInv, NEW c \in Console, UNCHANGED doc,
         \A d \in Console \ {c} : mem'[d] = mem[d] /\ pc'[d] = pc[d],
         \/ pc'[c] \notin Loop \cup {"report"}
         \/ pc'[c] \in Loop /\ mem'[c].state = "running"
  PROVE  CompletionInv'
<1>1. CoveredRow(doc)'
  BY DEF CompletionInv, CoveredRow, Observed
<1>2. ASSUME NEW d \in Console
      PROVE  /\ pc'[d] \in Loop => mem'[d].state = "running"
             /\ pc'[d] = "report" => CoveredRow(mem'[d])
  <2>1. CASE d = c
    BY <2>1 DEF Loop
  <2>2. CASE d # c
    BY <2>2 DEF CompletionInv, CoveredRow, Observed
  <2> QED
    BY <2>1, <2>2
<1> QED
  BY <1>1, <1>2 DEF CompletionInv

\* No step completes a task whose observations do not cover its mode.
LEMMA CompletionStep ==
  ASSUME TypeOK, CompletionInv, [Next]_vars
  PROVE  CompletionInv'
<1> USE DEF Go, At, history
<1>1. CASE UNCHANGED vars
  BY <1>1 DEF vars, memory, CompletionInv, CoveredRow, Observed
<1>2. ASSUME NEW c \in Console, WorkerStep(c) PROVE CompletionInv'
  <2> mem[c] \in Row /\ (pc[c] \in Loop => mem[c].state = "running")
    BY DEF TypeOK, CompletionInv
  <2> /\ {"cancelled", "needs-human"} \in SUBSET State
      /\ {"cancelled", "needs-human", "paused"} \in SUBSET State
      /\ {"needs-human"} \in SUBSET State /\ {"paused"} \in SUBSET State
      /\ {"cancelled"} \in SUBSET State /\ {"failed"} \in SUBSET State
    BY DEF State, Final, Resumable
  <2>1. CASE Load(c)
    BY <1>2, <2>1, TableAlone DEF Load, Loop, TypeOK
  <2>2. CASE Acquire(c)
    <3>1. doc' = [doc EXCEPT !.state = "running"]
      BY <2>2 DEF Acquire
    <3>2. CoveredRow(doc)'
      BY <3>1 DEF CoveredRow, TypeOK, Row
    <3>3. mem'[c].state = "running"
      BY <2>2 DEF Acquire, TypeOK, Row
    <3> QED
      BY <2>2, <3>2, <3>3 DEF Acquire, CompletionInv, TypeOK
  <2>3. CASE AcquireRefused(c)
    BY <2>3, TableAlone DEF AcquireRefused, Loop, TypeOK
  <2>4. CASE TopGate(c)
    <3>1. CASE GateStops(c, mem[c])
      BY <3>1, EndsOtherwise DEF GateStops
    <3>2. CASE ~GateStops(c, mem[c])
      BY <2>4, <3>2, TableAlone DEF TopGate, Loop, TypeOK
    <3> QED
      BY <3>1, <3>2
  <2>5. ASSUME NEW a \in Action, Begin(c, a, mem[c]), pc[c] \in Loop PROVE CompletionInv'
    <3> DEFINE row == [mem[c] EXCEPT !.result[a] = "executing", !.steps = @ + 1]
    <3>1. row \in Row
      BY RowType DEF Result
    <3>2. row.state = "running"
      BY <2>5 DEF Row
    <3> HIDE DEF row
    <3> QED
      BY <2>5, <3>1, <3>2, SavesRunning DEF Begin, row, Loop
  <2>6. CASE RecipeTurn(c)
    BY <2>5, <2>6, EndsOtherwise DEF RecipeTurn, Loop
  <2>7. CASE ModelTurn(c)
    <3> DEFINE row == [mem[c] EXCEPT !.calls = @ + 1]
    <3>1. row \in Row
      BY RowType
    <3>2. row.state = "running"
      BY <2>7 DEF Row, ModelTurn, Loop
    <3>3. \/ EndsIn(c, mem[c], {"needs-human"}) \/ EndsIn(c, mem[c], {"paused"})
          \/ Save(c, row) /\ Go(c, "asking")
      BY <2>7 DEF ModelTurn
    <3> HIDE DEF row
    <3> QED
      BY <3>1, <3>2, <3>3, EndsOtherwise, SavesRunning DEF Loop
  <2>8. ASSUME NEW a \in Action, NEW n \in 0..MaxRequests, Perform(c, a, n)
        PROVE  CompletionInv'
    <3>1. mem'[c].state = "running"
      BY <2>8 DEF Perform, TypeOK, Row, Loop
    <3> QED
      BY <2>8, <3>1, TableAlone DEF Perform, TypeOK, Loop
  <2>9. ASSUME NEW a \in Action, ToolFails(c, a) PROVE CompletionInv'
    <3>1. [mem[c] EXCEPT !.result[a] = "failed"] \in Row
      BY RowType DEF Result
    <3> QED
      BY <2>9, <3>1, EndsOtherwise DEF ToolFails
  <2>10. ASSUME NEW a \in Action, ToolSucceeds(c, a) PROVE CompletionInv'
    <3>1. PICK res \in {"ok", "partial"} :
            /\ Save(c, [mem[c] EXCEPT !.result[a] = res])
            /\ Go(c, IF res = "partial" /\ a \in Required THEN "partial" ELSE "top")
      BY <2>10 DEF ToolSucceeds
    <3> DEFINE row == [mem[c] EXCEPT !.result[a] = res]
    <3>2. row \in Row
      BY RowType DEF Result
    <3>3. row.state = "running"
      BY <2>10 DEF Row, ToolSucceeds, Loop
    <3> HIDE DEF row
    <3>4. Save(c, row) /\ \E p \in Loop : Go(c, p)
      BY <3>1 DEF Loop, row
    <3> QED
      BY <3>2, <3>3, <3>4, SavesRunning
  <2>11. ASSUME NEW a \in Action, Propose(c, a) PROVE CompletionInv'
    BY <2>5, <2>11, RowType, EndsOtherwise DEF Propose, Loop
  <2>12. CASE RecipeIncomplete(c)
    BY <2>12, EndsOtherwise DEF RecipeIncomplete
  <2>13. ASSUME NEW u \in Usage, Ask(c, u) PROVE CompletionInv'
    BY <2>13, TableAlone DEF Ask, TypeOK, Loop
  <2>14. CASE NoAnswer(c)
    <3>1. [mem[c] EXCEPT !.tokens = @ + Reservation] \in Row
      BY RowType
    <3> QED
      BY <2>14, <3>1, EndsOtherwise DEF NoAnswer
  <2>15. CASE AnswerGate(c)
    <3> DEFINE row == [mem[c] EXCEPT !.tokens = @ + bill[c]]
    <3>1. row \in Row
      BY RowType DEF TypeOK
    <3>2. row.state = "running"
      BY <2>15 DEF Row, AnswerGate, Loop
    <3>3. \/ \E states \in SUBSET State : EndsIn(c, row, states) /\ "completed" \notin states
          \/ UNCHANGED doc /\ mem' = [mem EXCEPT ![c] = row] /\ pc' = [pc EXCEPT ![c] = "judging"]
      <4> HIDE DEF row
      <4>1. \/ GateStops(c, row) \/ EndsIn(c, row, {"failed"}) \/ EndsIn(c, row, {"needs-human"})
            \/ UNCHANGED doc /\ mem' = [mem EXCEPT ![c] = row]
               /\ pc' = [pc EXCEPT ![c] = "judging"]
        BY <2>15 DEF AnswerGate, row
      <4> QED
        BY <4>1 DEF GateStops
    <3> HIDE DEF row
    <3> QED
      BY <3>1, <3>2, <3>3, EndsOtherwise, TableAlone DEF TypeOK, Loop
  <2>16. CASE Malformed(c)
    <3>1. Rejecting(mem[c]) \in Row
      BY RowType
    <3>2. Rejecting(mem[c]).state = "running"
      BY <2>16 DEF Row, Rejecting, Malformed, Loop
    <3> QED
      BY <2>16, <3>1, <3>2, EndsOtherwise, SavesRunning DEF Malformed, Loop
  <2>17. ASSUME NEW cited \in SUBSET Observed(mem[c]), Finish(c, cited) PROVE CompletionInv'
    <3>1. CASE cited # {} /\ Covers(mem[c], cited)
      <4> DEFINE new == [mem[c] EXCEPT !.state = "completed"]
      <4>1. Save(c, new) /\ pc' = [pc EXCEPT ![c] = "report"]
        BY <2>17, <3>1 DEF Finish, EndsIn
      <4>2. new.result = mem[c].result
        BY DEF Row
      <4>3. CoveredRow(new)
        BY <3>1, <4>2, RunnerAssumption DEF CoveredRow, Covers, Observed
      <4> HIDE DEF new
      <4>5. doc' = new /\ mem' = [mem EXCEPT ![c] = new] /\ pc' = [pc EXCEPT ![c] = "report"]
        BY <4>1 DEF Save
      <4>6. CoveredRow(doc)'
        BY <4>3, <4>5 DEF CoveredRow, Observed
      <4>7. ASSUME NEW d \in Console
            PROVE  /\ pc'[d] \in Loop => mem'[d].state = "running"
                   /\ pc'[d] = "report" => CoveredRow(mem[d])'
        <5>1. CASE d = c
          <6>1. mem'[d] = new /\ pc'[d] = "report"
            BY <4>5, <5>1 DEF TypeOK
          <6> QED
            BY <6>1, <4>3 DEF CoveredRow, Observed, Loop
        <5>2. CASE d # c
          <6>1. mem'[d] = mem[d] /\ pc'[d] = pc[d]
            BY <4>5, <5>2 DEF TypeOK
          <6> QED
            BY <6>1 DEF CompletionInv, CoveredRow, Observed
        <5> QED
          BY <5>1, <5>2
      <4> QED
        BY <4>6, <4>7 DEF CompletionInv
    <3>2. CASE ~(cited # {} /\ Covers(mem[c], cited))
      BY <2>17, <3>2, RowType, EndsOtherwise DEF Finish
    <3> QED
      BY <3>1, <3>2
  <2>18. ASSUME NEW cited \in SUBSET Observed(mem[c]), AskPerson(c, cited)
         PROVE  CompletionInv'
    BY <2>18, RowType, EndsOtherwise DEF AskPerson
  <2>19. CASE Fault(c)
    BY <2>19, EndsOtherwise DEF Fault
  <2>20. CASE FinalSave(c)
    <3>1. doc' = mem[c] /\ mem' = [mem EXCEPT ![c] = mem[c]]
          /\ pc' = [pc EXCEPT ![c] = "leaving"] /\ CoveredRow(mem[c])
      BY <2>20 DEF FinalSave, Save, CompletionInv
    <3> QED
      BY <3>1 DEF CompletionInv, CoveredRow, TypeOK, Loop, Observed
  <2>21. CASE ReportFails(c)
    BY <2>21, TableAlone DEF ReportFails, TypeOK, Loop
  <2>22. CASE CheckOwner(c)
    BY <2>22, TableAlone DEF CheckOwner, TypeOK, Loop
  <2>23. CASE FailWrite(c)
    <3>1. CoveredRow(doc)'
      BY <2>23 DEF FailWrite, CoveredRow, TypeOK, Row
    <3> QED
      BY <2>23, <3>1 DEF FailWrite, CompletionInv, TypeOK, Loop
  <2>24. CASE Leave(c)
    BY <2>24, TableAlone DEF Leave, Forget, TypeOK, Loop
  <2> QED
    BY <1>2, <2>1, <2>2, <2>3, <2>4, <2>6, <2>7, <2>8, <2>9, <2>10, <2>11, <2>12, <2>13,
       <2>14, <2>15, <2>16, <2>17, <2>18, <2>19, <2>20, <2>21, <2>22, <2>23, <2>24
       DEF WorkerStep
<1>3. ASSUME NEW c \in Console, Resume(c) PROVE CompletionInv'
  BY <1>3, TableAlone DEF Resume, TypeOK, Loop
<1>4. ASSUME NEW c \in Console, Crash(c) PROVE CompletionInv'
  BY <1>4, TableAlone DEF Crash, Forget, TypeOK, Loop
<1>5. ASSUME NEW c \in Console, SwitchOff(c) PROVE CompletionInv'
  BY <1>5 DEF SwitchOff, CompletionInv, CoveredRow, Observed
<1>6. ASSUME UNCHANGED <<pc, mem>>, NEW st \in State \ {"completed"},
             doc' = [doc EXCEPT !.state = st]
      PROVE  CompletionInv'
  <2>1. CoveredRow(doc)'
    BY <1>6 DEF CoveredRow, TypeOK, Row
  <2> QED
    BY <1>6, <2>1 DEF CompletionInv
<1>7. ASSUME NEW c \in Console, CancelRun(c) PROVE CompletionInv'
  BY <1>6, <1>7 DEF CancelRun, State, Active
<1>8. CASE Recover
  BY <1>6, <1>8 DEF Recover, memory, State, Resumable
<1> QED
  BY <1>1, <1>2, <1>3, <1>4, <1>5, <1>7, <1>8 DEF Next

\* A task is completed only with a full observation of each thing its mode
\* demands, whatever the consoles overwrite.
THEOREM CompletionCovered == Spec => []CompletedIsCovered
<1>1. Init => CompletionInv
  BY DEF Init, NewRow, CompletionInv, CoveredRow, Loop
<1>2. TypeOK /\ CompletionInv /\ [Next]_vars => CompletionInv'
  BY CompletionStep
<1>3. CompletionInv => CompletedIsCovered
  BY DEF CompletionInv, CoveredRow, CompletedIsCovered
<1> QED
  BY <1>1, <1>2, <1>3, RunnerType, PTL DEF Spec

-----------------------------------------------------------------------------
(***************************************************************************)
(* With one console at a time holding the task, no action is performed     *)
(* twice and the limits of the row bound what is really done, over all     *)
(* holds of the task and the crashes between them.                         *)
(*                                                                         *)
(* The invariant.  A row has an account of what was done: no action of ok  *)
(* or unknown outcome is missing in it, and nothing was done that it does  *)
(* not count.  Requests are the exception: those of an action cut short    *)
(* are in no row, which is why a row with an action of unknown outcome     *)
(* must never begin another.                                               *)
(***************************************************************************)
Account(row, perf, d, a, s) ==
  /\ \A x \in perf : row.result[x] \in {"ok", "partial", "executing"}
  /\ d <= row.steps /\ row.steps <= MaxSteps
  /\ a <= row.calls /\ row.calls <= MaxCalls
  /\ row.requests <= MaxRequests /\ s <= MaxRequests
  /\ InFlight(row) \/ s <= row.requests
  /\ Cloud => row.tokens <= MaxTokens

\* Places where the worker's copy agrees with the table.
Agreeing == Loop \cup {"loaded", "report"}

\* The copy of console c agrees with the table but for what the step it is in
\* has not saved yet: the requests of an action just performed, the tokens of
\* an answer being judged.
InHand(c) ==
  pc[c] \in Agreeing =>
    /\ mem[c].result = doc.result
    /\ mem[c].steps = doc.steps /\ mem[c].calls = doc.calls
    /\ pc[c] # "judging" => mem[c].tokens = doc.tokens
    /\ pc[c] # "executed" => mem[c].requests = doc.requests

\* What the gates a step has passed have left room for.
HasRoom(c) ==
  /\ pc[c] = "intent" =>
       /\ did + 1 <= mem[c].steps
       /\ \A x \in Action : mem[c].result[x] = "executing" => x \notin performed
  /\ pc[c] \in {"intent", "executed"} => InFlight(mem[c]) /\ sent <= mem[c].requests
  /\ pc[c] = "executed" => mem[c].requests <= MaxRequests
  /\ pc[c] = "asking" => asked + 1 <= mem[c].calls
  /\ pc[c] \in {"asking", "answered"} => mem[c].tokens + Reservation <= MaxTokens
  /\ pc[c] = "judging" => (Cloud => mem[c].tokens <= MaxTokens)

LimitsInv ==
  /\ Alone
  /\ Account(doc, performed, did, asked, sent)
  /\ \A c \in Console : InHand(c) /\ HasRoom(c)

\* The copy in hand has an account of its own.
LEMMA HandAccount ==
  ASSUME TypeOK, LimitsInv, NEW c \in Console, pc[c] \in Agreeing
  PROVE  Account(mem[c], performed, did, asked, sent)
<1> /\ mem[c] \in Row /\ doc \in Row
    /\ Account(doc, performed, did, asked, sent) /\ InHand(c) /\ HasRoom(c)
  BY DEF TypeOK, LimitsInv
<1>1. /\ mem[c].result = doc.result
      /\ mem[c].steps = doc.steps /\ mem[c].calls = doc.calls
  BY DEF InHand
<1>2. InFlight(mem[c]) <=> InFlight(doc)
  BY <1>1 DEF InFlight
<1>3. Cloud => mem[c].tokens <= MaxTokens
  BY DEF InHand, HasRoom, Account
<1>4. mem[c].requests <= MaxRequests /\ (InFlight(mem[c]) \/ sent <= mem[c].requests)
  BY <1>2 DEF InHand, HasRoom, Account
<1> QED
  BY <1>1, <1>3, <1>4 DEF Account

\* With the other consoles idle, one console's conjuncts are all there is.
LEMMA OneConsole ==
  ASSUME Alone', NEW c \in Console, \A d \in Console \ {c} : pc'[d] = "idle",
         Account(doc', performed', did', asked', sent'), InHand(c)', HasRoom(c)'
  PROVE  LimitsInv'
<1>1. ASSUME NEW d \in Console, d # c PROVE InHand(d)' /\ HasRoom(d)'
  <2>1. pc'[d] = "idle"
    BY <1>1
  <2> QED
    BY <2>1 DEF InHand, HasRoom, Agreeing, Loop
<1>2. (\A d \in Console : InHand(d) /\ HasRoom(d))'
  BY <1>1
<1>3. Account(doc, performed, did, asked, sent)'
  BY DEF Account, InFlight
<1> QED
  BY <1>2, <1>3 DEF LimitsInv

\* A console that has the task in hand leaves the others idle.
LEMMA OthersIdle ==
  ASSUME TypeOK, Alone, NEW c \in Console, pc[c] # "idle",
         \/ UNCHANGED pc
         \/ \E p \in PC : pc' = [pc EXCEPT ![c] = p]
  PROVE  \A d \in Console \ {c} : pc'[d] = "idle"
BY DEF TypeOK, Alone, At

\* A save leaves the copy and the table alike.
LEMMA Saved ==
  ASSUME TypeOK, Alone, Alone', NEW c \in Console, pc[c] # "idle",
         NEW row \in Row, Save(c, row),
         NEW p \in {"top", "partial", "report", "leaving"}, Go(c, p),
         Account(row, performed', did', asked', sent')
  PROVE  LimitsInv'
<1>1. doc' = row /\ mem'[c] = row /\ pc'[c] = p
  BY DEF Save, Go, TypeOK
<1>2. InHand(c)' /\ HasRoom(c)'
  BY <1>1 DEF InHand, HasRoom
<1>3. \A d \in Console \ {c} : pc'[d] = "idle"
  BY OthersIdle DEF Go, PC
<1> QED
  BY <1>1, <1>2, <1>3, OneConsole

\* So does the save that ends the loop.
LEMMA Ended ==
  ASSUME TypeOK, Alone, Alone', NEW c \in Console, pc[c] # "idle",
         NEW row \in Row, NEW states \in SUBSET State, EndsIn(c, row, states),
         Account(row, performed', did', asked', sent')
  PROVE  LimitsInv'
<1>1. PICK st \in states : Save(c, [row EXCEPT !.state = st])
  BY DEF EndsIn
<1> DEFINE new == [row EXCEPT !.state = st]
<1>2. new \in Row
  BY RowType
<1>3. /\ new.result = row.result /\ new.steps = row.steps /\ new.calls = row.calls
      /\ new.tokens = row.tokens /\ new.requests = row.requests
  BY DEF Row
<1> HIDE DEF new
<1>4. Account(new, performed', did', asked', sent')
  BY <1>3 DEF Account, InFlight
<1>5. Save(c, new) /\ Go(c, "report")
  BY <1>1 DEF EndsIn, new
<1> QED
  BY <1>2, <1>4, <1>5, Saved

\* An action begins with its step counted, and never a second time.
LEMMA Begun ==
  ASSUME TypeOK, LimitsInv, Alone', NEW c \in Console, NEW a \in Action,
         pc[c] \in {"clear", "judging"}, UNCHANGED history,
         Begin(c, a, mem[c]), mem[c].steps < MaxSteps, ~InFlight(mem[c]),
         mem[c].result[a] \notin {"ok", "partial"}
  PROVE  LimitsInv'
<1> DEFINE old == mem[c]
           new == [old EXCEPT !.result[a] = "executing", !.steps = @ + 1]
<1>1. old \in Row /\ Account(old, performed, did, asked, sent)
  BY HandAccount DEF TypeOK, Agreeing, Loop
<1>2. new \in Row
  BY <1>1, RowType DEF Result
<1>3. /\ new.result = [old.result EXCEPT ![a] = "executing"] /\ new.steps = old.steps + 1
      /\ new.calls = old.calls /\ new.tokens = old.tokens /\ new.requests = old.requests
  BY <1>1 DEF Row
<1>4. /\ doc' = new /\ mem'[c] = new /\ pc'[c] = "intent"
      /\ pc' = [pc EXCEPT ![c] = "intent"] /\ UNCHANGED <<performed, did, asked, sent>>
  BY DEF Begin, Save, Go, TypeOK, history
<1> old.result \in [Action -> Result] /\ old.steps \in Nat /\ did \in Nat
  BY <1>1 DEF Row, TypeOK
<1>5. old.steps < MaxSteps /\ old.result[a] \notin {"ok", "partial"} /\ ~InFlight(old)
  OBVIOUS
<1> HIDE DEF old, new
<1>6. \A x \in Action : old.result[x] # "executing"
  BY <1>5 DEF InFlight
<1>7. a \notin performed
  BY <1>1, <1>5, <1>6 DEF Account
<1>8. \A x \in Action : new.result[x] = "executing" => x \notin performed
  BY <1>3, <1>6, <1>7
<1>9. InFlight(new)
  BY <1>3 DEF InFlight
<1>10. sent <= old.requests
  BY <1>1, <1>5 DEF Account
<1>11. Account(new, performed, did, asked, sent)
  <2>1. \A x \in performed : new.result[x] \in {"ok", "partial", "executing"}
    BY <1>1, <1>3 DEF Account, TypeOK
  <2>2. did <= new.steps /\ new.steps <= MaxSteps
    BY <1>1, <1>3, <1>5 DEF Account
  <2> QED
    BY <1>1, <1>3, <1>9, <2>1, <2>2 DEF Account
<1>12. did + 1 <= new.steps
  BY <1>1, <1>3 DEF Account
<1>13. InHand(c)' /\ HasRoom(c)'
  BY <1>3, <1>4, <1>8, <1>9, <1>10, <1>12 DEF InHand, HasRoom, InFlight
<1>14. \A d \in Console \ {c} : pc'[d] = "idle"
  BY <1>4, OthersIdle DEF PC, LimitsInv
<1> QED
  BY <1>4, <1>11, <1>13, <1>14, OneConsole

-----------------------------------------------------------------------------
\* A step of the worker that has the task in hand.
LEMMA WorkerKeeps ==
  ASSUME TypeOK, LimitsInv, Alone', NEW c \in Console, WorkerStep(c)
  PROVE  LimitsInv'
<1> USE DEF Go, At
<1> Alone /\ mem[c] \in Row /\ doc \in Row /\ InHand(c) /\ HasRoom(c)
  BY DEF LimitsInv, TypeOK
<1> Account(doc, performed, did, asked, sent)
  BY DEF LimitsInv
<1>hand. pc[c] \in Agreeing => Account(mem[c], performed, did, asked, sent)
  BY HandAccount
<1> /\ {"cancelled", "needs-human"} \in SUBSET State
    /\ {"cancelled", "needs-human", "paused"} \in SUBSET State
    /\ {"needs-human"} \in SUBSET State /\ {"paused"} \in SUBSET State
    /\ {"cancelled"} \in SUBSET State /\ {"failed"} \in SUBSET State
    /\ {"completed"} \in SUBSET State
  BY DEF State, Final, Resumable
\* A step that moves on without touching the row or the history.
<1>moves. ASSUME pc[c] # "idle", NEW p \in PC, Go(c, p), UNCHANGED <<doc, mem, history>>,
                 p \notin {"loaded", "intent", "executed", "asking", "answered", "judging"},
                 p \in Agreeing => pc[c] \in Agreeing \ {"executed", "judging"}
          PROVE  LimitsInv'
  <2>1. InHand(c)' /\ HasRoom(c)'
    BY <1>moves DEF InHand, HasRoom, Agreeing, Loop, TypeOK
  <2>2. \A d \in Console \ {c} : pc'[d] = "idle"
    BY <1>moves, OthersIdle
  <2>3. Account(doc', performed', did', asked', sent')
    BY <1>moves DEF history
  <2> QED
    BY <2>1, <2>2, <2>3, OneConsole
<1>1. CASE Load(c)
  <2>1. mem'[c] = doc /\ doc' = doc /\ pc'[c] \in {"rejected", "loaded"} /\ UNCHANGED history
    BY <1>1 DEF Load, TypeOK
  <2>2. InHand(c)' /\ HasRoom(c)'
    BY <2>1 DEF InHand, HasRoom, Agreeing, Loop
  <2>3. \A d \in Console \ {c} : pc'[d] = "idle"
    BY <1>1, OthersIdle DEF Load, PC
  <2> QED
    BY <2>1, <2>2, <2>3, OneConsole DEF history
<1>2. CASE Acquire(c)
  <2> DEFINE new == [doc EXCEPT !.state = "running", !.result = mem[c].result,
                       !.rejected = mem[c].rejected, !.requests = mem[c].requests]
  <2>1. doc' = [doc EXCEPT !.state = "running"] /\ mem'[c] = new /\ pc'[c] = "top"
        /\ UNCHANGED history /\ pc' = [pc EXCEPT ![c] = "top"]
    BY <1>2 DEF Acquire, TypeOK
  <2>2. mem[c].result = doc.result /\ mem[c].requests = doc.requests
    BY <1>2 DEF Acquire, InHand, Agreeing
  <2>3. /\ doc'.result = doc.result /\ doc'.steps = doc.steps /\ doc'.calls = doc.calls
        /\ doc'.tokens = doc.tokens /\ doc'.requests = doc.requests
    BY <2>1 DEF Row
  <2>4. /\ new.result = mem[c].result /\ new.steps = doc.steps /\ new.calls = doc.calls
        /\ new.tokens = doc.tokens /\ new.requests = mem[c].requests
    BY DEF Row
  <2> HIDE DEF new
  <2>5. InHand(c)' /\ HasRoom(c)'
    BY <2>1, <2>2, <2>3, <2>4 DEF InHand, HasRoom
  <2>6. Account(doc', performed', did', asked', sent')
    BY <2>1, <2>3 DEF Account, InFlight, history
  <2>7. \A d \in Console \ {c} : pc'[d] = "idle"
    BY <1>2, <2>1, OthersIdle DEF Acquire, PC
  <2> QED
    BY <2>5, <2>6, <2>7, OneConsole
<1>3. CASE AcquireRefused(c)
  BY <1>3, <1>moves DEF AcquireRefused, PC, Agreeing, Loop
\* A step that saves the copy as it is.
<1>ends. ASSUME pc[c] \in Agreeing, UNCHANGED history,
                NEW states \in SUBSET State, EndsIn(c, mem[c], states)
         PROVE  LimitsInv'
  BY <1>ends, <1>hand, Ended DEF Agreeing, Loop, history
<1>rejects. ASSUME pc[c] \in Agreeing
            PROVE  /\ Rejecting(mem[c]) \in Row
                   /\ Account(Rejecting(mem[c]), performed, did, asked, sent)
  <2>1. /\ Rejecting(mem[c]).result = mem[c].result
        /\ Rejecting(mem[c]).steps = mem[c].steps /\ Rejecting(mem[c]).calls = mem[c].calls
        /\ Rejecting(mem[c]).tokens = mem[c].tokens
        /\ Rejecting(mem[c]).requests = mem[c].requests
    BY DEF Rejecting, Row
  <2> QED
    BY <1>rejects, <1>hand, <2>1, RowType DEF Account, InFlight
<1>4. CASE TopGate(c)
  <2>1. pc[c] = "top" /\ UNCHANGED history
    BY <1>4 DEF TopGate
  <2>2. CASE GateStops(c, mem[c])
    BY <2>1, <2>2, <1>ends DEF GateStops, Agreeing, Loop
  <2>3. CASE ~GateStops(c, mem[c])
    BY <1>4, <2>1, <2>3, <1>moves DEF TopGate, PC, Agreeing, Loop
  <2> QED
    BY <2>2, <2>3
<1>5. CASE RecipeTurn(c)
  <2>1. pc[c] = "clear" /\ UNCHANGED history
    BY <1>5 DEF RecipeTurn
  <2>2. CASE EndsIn(c, mem[c], {"needs-human"})
    BY <2>1, <2>2, <1>ends DEF Agreeing, Loop
  <2>3. ASSUME NEW a \in Action, ~Incomplete(mem[c]), mem[c].steps < MaxSteps,
               ~InFlight(mem[c]), IsNext(mem[c], a), Begin(c, a, mem[c])
        PROVE  LimitsInv'
    <3>1. a \in Required /\ mem[c].result[a] # "ok"
      BY <2>3 DEF IsNext, Required
    <3>2. mem[c].result[a] # "partial"
      BY <2>3, <3>1 DEF Incomplete
    <3> QED
      BY <2>1, <2>3, <3>1, <3>2, Begun
  <2> QED
    BY <1>5, <2>2, <2>3 DEF RecipeTurn
<1>6. CASE ModelTurn(c)
  <2>1. pc[c] = "clear" /\ UNCHANGED history
    BY <1>6 DEF ModelTurn
  <2>2. CASE EndsIn(c, mem[c], {"needs-human"}) \/ EndsIn(c, mem[c], {"paused"})
    BY <2>1, <2>2, <1>ends DEF Agreeing, Loop
  <2>3. CASE Room(mem[c]) /\ Save(c, [mem[c] EXCEPT !.calls = @ + 1])
             /\ pc' = [pc EXCEPT ![c] = "asking"]
    <3> DEFINE old == mem[c]
               new == [old EXCEPT !.calls = @ + 1]
    <3>1. /\ new.result = old.result /\ new.steps = old.steps /\ new.calls = old.calls + 1
          /\ new.tokens = old.tokens /\ new.requests = old.requests
          /\ old.calls \in Nat /\ asked \in Nat
      BY DEF Row, TypeOK
    <3>2. doc' = new /\ mem'[c] = new /\ pc'[c] = "asking"
      BY <2>3 DEF Save, TypeOK
    <3>3. Account(old, performed, did, asked, sent) /\ Room(old)
      BY <2>1, <2>3, <1>hand DEF Agreeing, Loop
    <3> HIDE DEF old, new
    <3>4. Account(new, performed, did, asked, sent) /\ asked + 1 <= new.calls
          /\ new.tokens + Reservation <= MaxTokens
      BY <3>1, <3>3 DEF Account, InFlight, Room
    <3>5. InHand(c)' /\ HasRoom(c)'
      BY <2>1, <3>2, <3>4 DEF InHand, HasRoom, history
    <3>6. \A d \in Console \ {c} : pc'[d] = "idle"
      BY <2>1, <2>3, OthersIdle DEF PC
    <3> QED
      BY <2>1, <3>2, <3>4, <3>5, <3>6, OneConsole DEF history
  <2> QED
    BY <1>6, <2>2, <2>3 DEF ModelTurn
<1>7. ASSUME NEW a \in Action, NEW n \in 0..MaxRequests, Perform(c, a, n)
      PROVE  LimitsInv'
  <2> DEFINE old == mem[c]
             new == [old EXCEPT !.requests = @ + n]
  <2>1. /\ new.result = old.result /\ new.steps = old.steps /\ new.calls = old.calls
        /\ new.tokens = old.tokens /\ new.requests = old.requests + n
        /\ old.requests \in Nat /\ sent \in Nat /\ did \in Nat /\ n \in Nat
    BY DEF Row, TypeOK
  <2>2. /\ pc[c] = "intent" /\ pc'[c] = "executed" /\ mem'[c] = new /\ doc' = doc
        /\ pc' = [pc EXCEPT ![c] = "executed"]
        /\ old.result[a] = "executing" /\ old.requests + n <= MaxRequests
        /\ performed' = performed \cup {a} /\ did' = did + 1 /\ sent' = sent + n
        /\ asked' = asked
    BY <1>7 DEF Perform, TypeOK
  <2>3. /\ old.result = doc.result /\ old.steps = doc.steps /\ old.calls = doc.calls
        /\ old.tokens = doc.tokens
    BY <2>2 DEF InHand, Agreeing, Loop
  <2>4. did + 1 <= old.steps /\ sent <= old.requests
    BY <2>2 DEF HasRoom
  <2> HIDE DEF old, new
  <2>5. InFlight(doc) /\ InFlight(new)
    BY <2>1, <2>2, <2>3 DEF InFlight
  <2>6. sent + n <= new.requests /\ new.requests <= MaxRequests
    BY <2>1, <2>2, <2>4
  <2>7. Account(doc, performed', did', asked', sent')
    BY <2>1, <2>2, <2>3, <2>4, <2>5, <2>6 DEF Account
  <2>8. InHand(c)' /\ HasRoom(c)'
    BY <2>1, <2>2, <2>3, <2>5, <2>6 DEF InHand, HasRoom
  <2>9. \A d \in Console \ {c} : pc'[d] = "idle"
    BY <2>2, OthersIdle DEF PC
  <2> QED
    BY <2>2, <2>7, <2>8, <2>9, OneConsole
<1>8. ASSUME NEW a \in Action, NEW res \in {"failed", "ok", "partial"}, pc[c] = "executed",
             performed' = IF res = "failed" THEN performed \ {a} ELSE performed,
             UNCHANGED <<did, asked, sent>>
      PROVE  Account([mem[c] EXCEPT !.result[a] = res], performed', did', asked', sent')
  <2> DEFINE old == mem[c]
             new == [old EXCEPT !.result[a] = res]
  <2>1. /\ new.result = [old.result EXCEPT ![a] = res] /\ new.steps = old.steps
        /\ new.calls = old.calls /\ new.tokens = old.tokens /\ new.requests = old.requests
        /\ old.result \in [Action -> Result] /\ performed \subseteq Action
    BY DEF Row, TypeOK
  <2>2. Account(old, performed, did, asked, sent) /\ sent <= old.requests
    BY <1>8, <1>hand DEF Agreeing, Loop, HasRoom
  <2> HIDE DEF old, new
  <2>3. \A x \in performed' : new.result[x] \in {"ok", "partial", "executing"}
    <3> SUFFICES ASSUME NEW x \in performed' PROVE new.result[x] \in {"ok", "partial", "executing"}
      OBVIOUS
    <3>1. x \in performed /\ x \in Action /\ (res = "failed" => x # a)
      BY <1>8, <2>1
    <3>2. old.result[x] \in {"ok", "partial", "executing"}
      BY <2>2, <3>1 DEF Account
    <3> QED
      BY <1>8, <2>1, <3>1, <3>2
  <2>4. did' = did /\ asked' = asked /\ sent' = sent
    BY <1>8
  <2>5. /\ did <= new.steps /\ new.steps <= MaxSteps
        /\ asked <= new.calls /\ new.calls <= MaxCalls
        /\ new.requests <= MaxRequests /\ sent <= MaxRequests /\ sent <= new.requests
        /\ Cloud => new.tokens <= MaxTokens
    BY <2>1, <2>2 DEF Account
  <2>6. Account(new, performed', did', asked', sent')
    BY <2>3, <2>4, <2>5 DEF Account
  <2> QED
    BY <2>6 DEF new, old
<1>9. ASSUME NEW a \in Action, ToolFails(c, a) PROVE LimitsInv'
  <2>1. [mem[c] EXCEPT !.result[a] = "failed"] \in Row
    BY RowType DEF Result
  <2>2. Account([mem[c] EXCEPT !.result[a] = "failed"], performed', did', asked', sent')
    <3>1. PICK res \in {"failed", "ok", "partial"} : res = "failed"
      OBVIOUS
    <3>2. pc[c] = "executed" /\ performed' = performed \ {a} /\ UNCHANGED <<did, asked, sent>>
      BY <1>9 DEF ToolFails
    <3>3. Account([mem[c] EXCEPT !.result[a] = res], performed', did', asked', sent')
      BY <1>8, <3>1, <3>2
    <3> QED
      BY <3>1, <3>3
  <2>3. pc[c] # "idle" /\ EndsIn(c, [mem[c] EXCEPT !.result[a] = "failed"],
                                 {"cancelled", "needs-human"})
    BY <1>9 DEF ToolFails
  <2> QED
    BY <2>1, <2>2, <2>3, Ended
<1>10. ASSUME NEW a \in Action, ToolSucceeds(c, a) PROVE LimitsInv'
  <2>1. PICK res \in {"ok", "partial"} :
          /\ Save(c, [mem[c] EXCEPT !.result[a] = res])
          /\ Go(c, IF res = "partial" /\ a \in Required THEN "partial" ELSE "top")
    BY <1>10 DEF ToolSucceeds
  <2> DEFINE row == [mem[c] EXCEPT !.result[a] = res]
  <2>2. row \in Row
    BY RowType DEF Result
  <2>3. Account(row, performed', did', asked', sent') /\ pc[c] # "idle"
    BY <1>8, <1>10 DEF ToolSucceeds, history
  <2>4. PICK p \in {"top", "partial"} : Go(c, p)
    BY <2>1
  <2>5. Save(c, row)
    BY <2>1
  <2> HIDE DEF row
  <2> QED
    BY <2>2, <2>3, <2>4, <2>5, Saved
<1>11. ASSUME NEW a \in Action, Propose(c, a) PROVE LimitsInv'
  <2>1. pc[c] = "judging" /\ UNCHANGED history
    BY <1>11 DEF Propose
  <2>2. CASE MayBegin(mem[c], a)
    BY <1>11, <2>1, <2>2, Begun DEF Propose, MayBegin, Observed
  <2>3. CASE ~MayBegin(mem[c], a)
    BY <1>11, <2>1, <2>3, <1>rejects, Ended DEF Propose, Agreeing, Loop, history
  <2> QED
    BY <2>2, <2>3
<1>12. CASE RecipeIncomplete(c)
  BY <1>12, <1>ends DEF RecipeIncomplete, Agreeing, Loop
<1>13. ASSUME NEW u \in Usage, Ask(c, u) PROVE LimitsInv'
  <2>1. /\ pc[c] = "asking" /\ pc'[c] = "answered" /\ pc' = [pc EXCEPT ![c] = "answered"]
        /\ UNCHANGED <<doc, mem, performed, did, sent>> /\ asked' = asked + 1
        /\ asked \in Nat /\ mem[c].calls \in Nat
    BY <1>13 DEF Ask, TypeOK, Row
  <2>2. asked + 1 <= doc.calls
    BY <2>1 DEF HasRoom, InHand, Agreeing, Loop
  <2>3. Account(doc', performed', did', asked', sent')
    BY <2>1, <2>2 DEF Account
  <2>4. InHand(c)' /\ HasRoom(c)'
    BY <2>1 DEF InHand, HasRoom, Agreeing, Loop
  <2>5. \A d \in Console \ {c} : pc'[d] = "idle"
    BY <2>1, OthersIdle DEF PC
  <2> QED
    BY <2>3, <2>4, <2>5, OneConsole
\* What is charged for a call keeps the account, if it is within the reservation.
<1>14. ASSUME pc[c] = "answered", NEW n \in Nat, Cloud => n <= Reservation
       PROVE  /\ [mem[c] EXCEPT !.tokens = @ + n] \in Row
              /\ Account([mem[c] EXCEPT !.tokens = @ + n], performed, did, asked, sent)
  <2> DEFINE old == mem[c]
             new == [old EXCEPT !.tokens = @ + n]
  <2>1. /\ new.result = old.result /\ new.steps = old.steps /\ new.calls = old.calls
        /\ new.tokens = old.tokens + n /\ new.requests = old.requests /\ old.tokens \in Nat
    BY DEF Row
  <2>2. Account(old, performed, did, asked, sent) /\ old.tokens + Reservation <= MaxTokens
    BY <1>14, <1>hand DEF Agreeing, Loop, HasRoom
  <2>3. new \in Row
    BY RowType
  <2> HIDE DEF old, new
  <2>4. Account(new, performed, did, asked, sent)
    BY <1>14, <2>1, <2>2 DEF Account, InFlight
  <2> QED
    BY <2>3, <2>4 DEF old, new
<1>15. CASE NoAnswer(c)
  BY <1>14, <1>15, Ended DEF NoAnswer, history
<1>16. CASE AnswerGate(c)
  <2> DEFINE row == [mem[c] EXCEPT !.tokens = @ + bill[c]]
  <2>1. pc[c] = "answered" /\ UNCHANGED history /\ (Cloud => bill[c] <= Reservation)
    BY <1>16 DEF AnswerGate
  <2>2. row \in Row /\ Account(row, performed, did, asked, sent)
    BY <2>1, <1>14 DEF TypeOK
  <2>3. /\ row.result = mem[c].result /\ row.steps = mem[c].steps /\ row.calls = mem[c].calls
        /\ row.requests = mem[c].requests
    BY DEF Row
  <2>4. \/ \E states \in SUBSET State : EndsIn(c, row, states)
        \/ /\ mem' = [mem EXCEPT ![c] = row] /\ pc' = [pc EXCEPT ![c] = "judging"]
           /\ UNCHANGED doc
    <3> HIDE DEF row
    <3>1. \/ GateStops(c, row) \/ EndsIn(c, row, {"failed"}) \/ EndsIn(c, row, {"needs-human"})
          \/ /\ mem' = [mem EXCEPT ![c] = row] /\ pc' = [pc EXCEPT ![c] = "judging"]
             /\ UNCHANGED doc
      BY <1>16 DEF AnswerGate, row
    <3> QED
      BY <3>1 DEF GateStops
  <2> HIDE DEF row
  <2>5. CASE \E states \in SUBSET State : EndsIn(c, row, states)
    BY <2>1, <2>2, <2>5, Ended DEF history
  <2>6. CASE /\ mem' = [mem EXCEPT ![c] = row] /\ pc' = [pc EXCEPT ![c] = "judging"]
             /\ UNCHANGED doc
    <3>1. mem'[c] = row /\ pc'[c] = "judging"
      BY <2>6 DEF TypeOK
    <3>2. /\ mem[c].result = doc.result /\ mem[c].steps = doc.steps
          /\ mem[c].calls = doc.calls /\ mem[c].requests = doc.requests
      BY <2>1 DEF InHand, Agreeing, Loop
    <3>3. InHand(c)' /\ HasRoom(c)'
      BY <2>2, <2>3, <2>6, <3>1, <3>2 DEF InHand, HasRoom, Account
    <3>4. \A d \in Console \ {c} : pc'[d] = "idle"
      BY <2>1, <2>6, OthersIdle DEF PC
    <3> QED
      BY <2>1, <2>6, <3>3, <3>4, OneConsole DEF history
  <2> QED
    BY <2>4, <2>5, <2>6
<1>17. CASE Malformed(c)
  <2>1. pc[c] = "judging" /\ UNCHANGED history
    BY <1>17 DEF Malformed
  <2>2. CASE EndsIn(c, mem[c], {"needs-human"})
    BY <2>1, <2>2, <1>ends DEF Agreeing, Loop
  <2>3. CASE Save(c, Rejecting(mem[c])) /\ Go(c, "top")
    BY <2>1, <2>3, <1>rejects, Saved DEF Agreeing, Loop, history
  <2> QED
    BY <1>17, <2>2, <2>3 DEF Malformed
<1>18. ASSUME NEW cited \in SUBSET Observed(mem[c]), Finish(c, cited) PROVE LimitsInv'
  <2>1. pc[c] = "judging" /\ UNCHANGED history
    BY <1>18 DEF Finish
  <2>2. EndsIn(c, mem[c], {"completed"}) \/ EndsIn(c, Rejecting(mem[c]), {"needs-human"})
    BY <1>18 DEF Finish
  <2> QED
    BY <2>1, <2>2, <1>ends, <1>rejects, Ended DEF Agreeing, Loop, history
<1>19. ASSUME NEW cited \in SUBSET Observed(mem[c]), AskPerson(c, cited) PROVE LimitsInv'
  <2>1. pc[c] = "judging" /\ UNCHANGED history
    BY <1>19 DEF AskPerson
  <2>2. EndsIn(c, mem[c], {"needs-human"}) \/ EndsIn(c, Rejecting(mem[c]), {"needs-human"})
    BY <1>19 DEF AskPerson
  <2> QED
    BY <2>1, <2>2, <1>ends, <1>rejects, Ended DEF Agreeing, Loop, history
<1>20. CASE Fault(c)
  BY <1>20, <1>ends DEF Fault, Agreeing, Loop
<1>21. CASE FinalSave(c)
  BY <1>21, <1>hand, Saved DEF FinalSave, Agreeing, history
<1>22. CASE ReportFails(c)
  BY <1>22, <1>moves DEF ReportFails, PC, Agreeing, Loop
<1>23. CASE CheckOwner(c)
  <2>1. PICK p \in {"failing", "leaving"} : Go(c, p)
    BY <1>23 DEF CheckOwner
  <2> QED
    BY <1>23, <2>1, <1>moves DEF CheckOwner, PC, Agreeing, Loop
<1>24. CASE FailWrite(c)
  <2>1. /\ doc' = [doc EXCEPT !.state = "failed"] /\ pc[c] = "failing" /\ UNCHANGED history
        /\ pc' = [pc EXCEPT ![c] = "leaving"] /\ pc'[c] = "leaving"
    BY <1>24 DEF FailWrite, TypeOK
  <2>2. /\ doc'.result = doc.result /\ doc'.steps = doc.steps /\ doc'.calls = doc.calls
        /\ doc'.tokens = doc.tokens /\ doc'.requests = doc.requests
    BY <2>1 DEF Row
  <2>3. Account(doc', performed', did', asked', sent')
    BY <2>1, <2>2 DEF Account, InFlight, history
  <2>4. InHand(c)' /\ HasRoom(c)'
    BY <2>1 DEF InHand, HasRoom, Agreeing, Loop
  <2>5. \A d \in Console \ {c} : pc'[d] = "idle"
    BY <2>1, OthersIdle DEF PC
  <2> QED
    BY <2>3, <2>4, <2>5, OneConsole
<1>25. CASE Leave(c)
  <2>1. /\ pc[c] = "leaving" /\ pc' = [pc EXCEPT ![c] = "idle"] /\ pc'[c] = "idle"
        /\ UNCHANGED <<doc, history>>
    BY <1>25 DEF Leave, Forget, TypeOK
  <2>2. InHand(c)' /\ HasRoom(c)'
    BY <2>1 DEF InHand, HasRoom, Agreeing, Loop
  <2>3. \A d \in Console \ {c} : pc'[d] = "idle"
    BY <2>1, OthersIdle DEF PC
  <2> QED
    BY <2>1, <2>2, <2>3, OneConsole DEF history
<1> QED
  BY <1>1, <1>2, <1>3, <1>4, <1>5, <1>6, <1>7, <1>9, <1>10, <1>11, <1>12, <1>13, <1>15,
     <1>16, <1>17, <1>18, <1>19, <1>20, <1>21, <1>22, <1>23, <1>24, <1>25 DEF WorkerStep

-----------------------------------------------------------------------------
LEMMA LimitsStep ==
  ASSUME TypeOK, LimitsInv, [Next /\ Alone']_vars
  PROVE  LimitsInv'
<1> USE DEF Go, At
<1> Alone /\ Account(doc, performed, did, asked, sent)
  BY DEF LimitsInv
<1>1. CASE UNCHANGED vars
  BY <1>1 DEF vars, memory, history, LimitsInv, Alone, Account, InFlight, InHand, HasRoom,
              Agreeing, Loop
<1>2. ASSUME NEW c \in Console, WorkerStep(c), Alone' PROVE LimitsInv'
  BY <1>2, WorkerKeeps
\* A step after which the console holds nothing of the row.
<1>3. ASSUME Alone', NEW c \in Console, \A d \in Console \ {c} : pc'[d] = "idle",
             pc'[c] \notin Agreeing, UNCHANGED <<doc, history>>
      PROVE  LimitsInv'
  <2>1. InHand(c)' /\ HasRoom(c)'
    BY <1>3 DEF InHand, HasRoom, Agreeing, Loop
  <2> QED
    BY <1>3, <2>1, OneConsole DEF history
<1>4. ASSUME NEW c \in Console, Resume(c), Alone' PROVE LimitsInv'
  <2>1. pc'[c] = "resuming"
    BY <1>4 DEF Resume, TypeOK
  <2>2. \A d \in Console \ {c} : pc'[d] = "idle"
    BY <1>4, <2>1 DEF Alone
  <2> QED
    BY <1>3, <1>4, <2>1, <2>2 DEF Resume, Agreeing, Loop
<1>5. ASSUME NEW c \in Console, Crash(c), Alone' PROVE LimitsInv'
  <2>1. pc' = [pc EXCEPT ![c] = "idle"] /\ pc'[c] = "idle" /\ UNCHANGED <<doc, history>>
    BY <1>5 DEF Crash, Forget, TypeOK
  <2>2. CASE pc[c] # "idle"
    <3>1. \A d \in Console \ {c} : pc'[d] = "idle"
      BY <2>1, <2>2, OthersIdle DEF PC
    <3> QED
      BY <1>3, <1>5, <2>1, <3>1 DEF Agreeing, Loop
  <2>3. CASE pc[c] = "idle"
    <3>1. /\ UNCHANGED pc
          /\ \A d \in Console \ {c} : mem'[d] = mem[d]
      BY <2>1, <2>3, <1>5 DEF TypeOK, Crash, Forget
    <3>2. ASSUME NEW d \in Console PROVE InHand(d)' /\ HasRoom(d)'
      <4>1. InHand(d) /\ HasRoom(d)
        BY DEF LimitsInv
      <4>2. CASE d = c
        BY <2>3, <3>1, <4>2 DEF InHand, HasRoom, Agreeing, Loop
      <4>3. CASE d # c
        <5>1. /\ mem'[d] = mem[d] /\ pc'[d] = pc[d] /\ doc' = doc
              /\ UNCHANGED <<performed, did, asked, sent>>
          BY <2>1, <3>1, <4>3 DEF history
        <5> QED
          BY <4>1, <5>1 DEF InHand, HasRoom, Agreeing, Loop, InFlight
      <4> QED
        BY <4>2, <4>3
    <3>3. Account(doc, performed, did, asked, sent)'
      BY <2>1 DEF Account, InFlight, history
    <3> QED
      BY <1>5, <3>2, <3>3 DEF LimitsInv
  <2> QED
    BY <2>2, <2>3
\* A step that changes nothing but the state of the row, or an event.
<1>6. ASSUME Alone', UNCHANGED <<pc, mem, history>>,
             UNCHANGED doc \/ \E st \in State : doc' = [doc EXCEPT !.state = st]
      PROVE  LimitsInv'
  <2>1. /\ doc'.result = doc.result /\ doc'.steps = doc.steps /\ doc'.calls = doc.calls
        /\ doc'.tokens = doc.tokens /\ doc'.requests = doc.requests
    BY <1>6 DEF TypeOK, Row
  <2>2. Account(doc, performed, did, asked, sent)'
    BY <1>6, <2>1 DEF Account, InFlight, history
  <2>3. ASSUME NEW d \in Console PROVE InHand(d)' /\ HasRoom(d)'
    <3>1. InHand(d) /\ HasRoom(d)
      BY DEF LimitsInv
    <3>2. mem'[d] = mem[d] /\ pc'[d] = pc[d] /\ UNCHANGED <<performed, did, asked, sent>>
      BY <1>6 DEF history
    <3> QED
      BY <2>1, <3>1, <3>2 DEF InHand, HasRoom, Agreeing, Loop, InFlight
  <2> QED
    BY <1>6, <2>2, <2>3 DEF LimitsInv
<1>7. ASSUME NEW c \in Console, CancelRun(c) \/ SwitchOff(c), Alone' PROVE LimitsInv'
  BY <1>6, <1>7 DEF CancelRun, SwitchOff, State, Active
<1>8. CASE Recover /\ Alone'
  BY <1>6, <1>8 DEF Recover, memory, State, Resumable
<1> QED
  BY <1>1, <1>2, <1>4, <1>5, <1>7, <1>8 DEF Next

LEMMA LimitsInit == Init => LimitsInv
<1> SUFFICES ASSUME Init PROVE LimitsInv
  OBVIOUS
<1>1. Alone
  BY DEF Init, Alone, At
<1>2. Account(doc, performed, did, asked, sent)
  BY DEF Init, NewRow, Account
<1>3. ASSUME NEW c \in Console PROVE InHand(c) /\ HasRoom(c)
  <2>1. pc[c] \in {"queued", "idle"}
    BY DEF Init
  <2> QED
    BY <2>1 DEF InHand, HasRoom, Agreeing, Loop
<1> QED
  BY <1>1, <1>2, <1>3 DEF LimitsInv

\* Under the discipline the account is always right.
LEMMA LimitsKept == AloneSpec => []LimitsInv
<1>1. Init => TypeOK
  BY NewRowType DEF Init, TypeOK, PC
<1>2. TypeOK /\ LimitsInv /\ [Next /\ Alone']_vars => TypeOK' /\ LimitsInv'
  BY TypeStep, LimitsStep
<1> QED
  BY <1>1, <1>2, LimitsInit, PTL DEF AloneSpec

\* No action is performed again after one whose outcome was ok or is unknown:
\* the intent is in the table before the call, and every path to a call reads it.
THEOREM NoActionTwice == AloneSpec => []NoReplay
<1>1. LimitsInv => NoReplay
  BY DEF LimitsInv, HasRoom, NoReplay, At
<1> QED
  BY <1>1, LimitsKept, PTL

\* The calls, actions and requests really made stay within their limits over all
\* holds, and so do the tokens a cloud task is charged.  No row counts the requests of
\* an action cut short, but after one no action begins.
THEOREM WorkBounded == AloneSpec => []WorkWithinLimits
<1>1. TypeOK /\ LimitsInv => WorkWithinLimits
  BY DEF LimitsInv, Account, WorkWithinLimits, TypeOK, Row
<1>2. AloneSpec => []TypeOK
  <2>1. [Next /\ Alone']_vars => [Next]_vars
    OBVIOUS
  <2> QED
    BY <2>1, RunnerType, PTL DEF AloneSpec, Spec
<1> QED
  BY <1>1, <1>2, LimitsKept, PTL

-----------------------------------------------------------------------------
(***************************************************************************)
(* Every hold runs out, however consoles race: each step of a worker takes *)
(* it down by a phase or uses up a turn, and the rows that are read and    *)
(* written never have more turns than the limits.                          *)
(***************************************************************************)
Spent(row) == row.steps <= MaxSteps /\ row.calls <= MaxCalls
RowsSpent  == Spent(doc) /\ \A c \in Console : Spent(mem[c])

\* A row with the counters of another.
SameCounters(row, old) == row.steps = old.steps /\ row.calls = old.calls

\* Steps that only go down within a turn, or lead out of it.
Down == {<<"clear", "report">>, <<"top", "clear">>, <<"top", "report">>,
         <<"intent", "executed">>, <<"executed", "top">>, <<"executed", "partial">>,
         <<"executed", "report">>, <<"partial", "report">>, <<"asking", "answered">>,
         <<"answered", "judging">>, <<"answered", "report">>, <<"judging", "top">>,
         <<"judging", "report">>, <<"report", "leaving">>, <<"report", "rejected">>,
         <<"rejected", "failing">>, <<"rejected", "leaving">>, <<"failing", "leaving">>}

\* What a worker at phase "from" with row "old" may come to.
TurnGoesOn(from, to, old, row) ==
  \/ <<from, to>> \in Down /\ SameCounters(row, old)
  \/ /\ from \in {"clear", "judging"} /\ to = "intent"
     /\ old.steps < MaxSteps /\ row.steps = old.steps + 1 /\ row.calls = old.calls
  \/ /\ from = "clear" /\ to = "asking"
     /\ old.calls < MaxCalls /\ row.calls = old.calls + 1 /\ row.steps = old.steps

HoldGoesOn(from, to, old, row) ==
  \/ from \in {"queued", "resuming"} /\ to \in {"loaded", "rejected"}
  \/ from = "loaded" /\ to \in {"top", "rejected"}
  \/ from # "idle" /\ to = "idle"
  \/ TurnGoesOn(from, to, old, row)

\* Whatever it comes to, it has less left.
LEMMA LessIsLeft ==
  ASSUME NEW from \in PC, NEW to \in PC, NEW old \in Row, NEW row \in Row,
         Spent(old), Spent(row), HoldGoesOn(from, to, old, row)
  PROVE  10 * TurnsLeft(to, row) + PhasesLeft[to]
           \in 0..((10 * TurnsLeft(from, old) + PhasesLeft[from]) - 1)
<1>1. /\ old.steps \in Nat /\ old.calls \in Nat /\ row.steps \in Nat /\ row.calls \in Nat
      /\ old.steps <= MaxSteps /\ old.calls <= MaxCalls
      /\ row.steps <= MaxSteps /\ row.calls <= MaxCalls
      /\ MaxSteps \in Nat /\ MaxCalls \in Nat
  BY DEF Row, Spent
<1> DEFINE full == MaxSteps + MaxCalls
           before == (MaxSteps - old.steps) + (MaxCalls - old.calls)
           after == (MaxSteps - row.steps) + (MaxCalls - row.calls)
<1>2. full \in Nat /\ before \in 0..full /\ after \in 0..full
  BY ONLY <1>1
<1>3. ASSUME NEW p \in PC \ {"idle", "queued", "resuming", "loaded"}
      PROVE  TurnsLeft(p, old) = before /\ TurnsLeft(p, row) = after
  BY <1>3 DEF TurnsLeft
<1>4. ASSUME NEW p \in {"queued", "resuming", "loaded"}
      PROVE  TurnsLeft(p, old) = full /\ TurnsLeft(p, row) = full
  BY <1>4 DEF TurnsLeft
<1>5. TurnsLeft("idle", row) = 0
  BY DEF TurnsLeft
<1> HIDE DEF full, before, after
<1>6. CASE from \in {"queued", "resuming"} /\ to = "loaded"
  BY <1>2, <1>4, <1>6 DEF PhasesLeft
<1>7. CASE from \in {"queued", "resuming", "loaded"} /\ to \in {"top", "rejected"}
  <2>1. TurnsLeft(to, row) = after
    BY <1>3, <1>7
  <2>2. TurnsLeft(from, old) = full
    BY <1>4, <1>7
  <2>3. PhasesLeft[to] \in Nat /\ PhasesLeft[from] \in Nat /\ PhasesLeft[to] < PhasesLeft[from]
    BY <1>7 DEF PhasesLeft
  <2> QED
    BY <1>2, <2>1, <2>2, <2>3
<1>8. CASE from # "idle" /\ to = "idle"
  <2>1. TurnsLeft(from, old) \in Nat
    BY <1>2, <1>3, <1>4, <1>8
  <2>2. PhasesLeft[from] \in Nat \ {0} /\ PhasesLeft[to] = 0
    BY <1>8 DEF PhasesLeft, PC
  <2> QED
    BY <1>5, <1>8, <2>1, <2>2
<1>9. CASE <<from, to>> \in Down /\ SameCounters(row, old)
  <2>1. after = before
    BY <1>9 DEF SameCounters, after, before
  <2>2. /\ from \in PC \ {"idle", "queued", "resuming", "loaded"}
        /\ to \in PC \ {"idle", "queued", "resuming", "loaded"}
    BY <1>9 DEF Down
  <2>3. PhasesLeft[to] \in Nat /\ PhasesLeft[from] \in Nat /\ PhasesLeft[to] < PhasesLeft[from]
    BY <1>9 DEF PhasesLeft, Down
  <2>4. TurnsLeft(from, old) = before /\ TurnsLeft(to, row) = before
    BY <1>3, <2>1, <2>2
  <2> QED
    BY ONLY <1>2, <2>3, <2>4
<1>10. CASE TurnGoesOn(from, to, old, row) /\ ~(<<from, to>> \in Down /\ SameCounters(row, old))
  <2>1. /\ from \in {"clear", "judging"} /\ to \in {"intent", "asking"}
        /\ \/ row.steps = old.steps + 1 /\ row.calls = old.calls
           \/ row.calls = old.calls + 1 /\ row.steps = old.steps
    BY <1>10 DEF TurnGoesOn
  <2>2. after = before - 1
    BY ONLY <1>1, <2>1 DEF before, after
  <2>3. TurnsLeft(from, old) = before /\ TurnsLeft(to, row) = after
    BY <1>3, <2>1 DEF PC
  <2>4. PhasesLeft[to] \in 8..9 /\ PhasesLeft[from] \in 5..7
    BY <2>1 DEF PhasesLeft
  <2> QED
    BY ONLY <1>2, <2>2, <2>3, <2>4
<1> QED
  BY <1>6, <1>7, <1>8, <1>9, <1>10 DEF HoldGoesOn

\* The console of a step goes on like this, and the rows stay within the limits.
GoesOn(c) == HoldGoesOn(pc[c], pc[c]', mem[c], mem[c]') /\ RowsSpent'

LEMMA SaveSpent ==
  ASSUME TypeOK, RowsSpent, NEW c \in Console, NEW row \in Row, Spent(row), Save(c, row)
  PROVE  RowsSpent' /\ mem'[c] = row
BY DEF Save, TypeOK, RowsSpent

LEMMA AloneSpent ==
  ASSUME TypeOK, RowsSpent, NEW c \in Console, NEW row \in Row, Spent(row),
         mem' = [mem EXCEPT ![c] = row], doc' = doc
  PROVE  RowsSpent' /\ mem'[c] = row
BY DEF TypeOK, RowsSpent

LEMMA EndsGoOn ==
  ASSUME TypeOK, RowsSpent, NEW c \in Console, NEW row \in Row, NEW states,
         SameCounters(row, mem[c]), EndsIn(c, row, states), <<pc[c], "report">> \in Down
  PROVE  GoesOn(c)
<1>1. PICK st \in states : Save(c, [row EXCEPT !.state = st])
  BY DEF EndsIn
<1> DEFINE new == [row EXCEPT !.state = st]
<1>2. new.steps = row.steps /\ new.calls = row.calls
  BY DEF Row
<1>3. Save(c, new)
  BY <1>1
<1> HIDE DEF new
<1>4. SameCounters(new, mem[c]) /\ Spent(new)
  BY <1>2 DEF SameCounters, Spent, RowsSpent
<1>5. RowsSpent' /\ mem'[c] = new
  BY <1>3, <1>4 DEF Save, TypeOK, RowsSpent
<1>6. pc'[c] = "report"
  BY DEF EndsIn, Go, TypeOK
<1> QED
  BY <1>4, <1>5, <1>6 DEF GoesOn, HoldGoesOn, TurnGoesOn

LEMMA BeginGoesOn ==
  ASSUME TypeOK, RowsSpent, NEW c \in Console, NEW a \in Action, Begin(c, a, mem[c]),
         pc[c] \in {"clear", "judging"}, mem[c].steps < MaxSteps
  PROVE  GoesOn(c)
<1> DEFINE new == [mem[c] EXCEPT !.result[a] = "executing", !.steps = @ + 1]
<1>1. mem[c] \in Row /\ Spent(mem[c])
  BY DEF TypeOK, RowsSpent
<1>2. new.steps = mem[c].steps + 1 /\ new.calls = mem[c].calls
  BY <1>1 DEF Row
<1>3. Save(c, new) /\ pc' = [pc EXCEPT ![c] = "intent"]
  BY DEF Begin, Go
<1> HIDE DEF new
<1>4. Spent(new)
  <2>1. mem[c].steps \in Nat /\ MaxSteps \in Nat
    BY <1>1 DEF Row
  <2> QED
    BY <1>1, <1>2, <2>1 DEF Spent
<1>5. RowsSpent' /\ mem'[c] = new
  BY <1>3, <1>4 DEF Save, TypeOK, RowsSpent
<1>6. pc'[c] = "intent"
  BY <1>3 DEF TypeOK
<1> QED
  BY <1>2, <1>5, <1>6 DEF GoesOn, HoldGoesOn, TurnGoesOn

LEMMA WorkerGoesOn ==
  ASSUME TypeOK, RowsSpent, NEW c \in Console, WorkerStep(c)
  PROVE  GoesOn(c)
<1> USE DEF At, Go
<1>a. mem[c] \in Row /\ Spent(mem[c]) /\ doc \in Row /\ Spent(doc) /\ SameCounters(mem[c], mem[c])
  BY DEF TypeOK, RowsSpent, SameCounters
\* A row written, or kept in memory only, with the counters as they were.
<1>b. ASSUME NEW row \in Row, SameCounters(row, mem[c]),
             Save(c, row) \/ (mem' = [mem EXCEPT ![c] = row] /\ doc' = doc)
      PROVE  RowsSpent' /\ mem'[c] = row
  <2>1. Spent(row)
    BY <1>a, <1>b DEF SameCounters, Spent
  <2> QED
    BY <1>b, <2>1, SaveSpent, AloneSpent
<1>c. ASSUME UNCHANGED <<doc, mem>> PROVE RowsSpent' /\ mem'[c] = mem[c]
  BY <1>c DEF RowsSpent
<1>d. Rejecting(mem[c]) \in Row /\ SameCounters(Rejecting(mem[c]), mem[c])
  BY <1>a, RowType DEF Row, SameCounters, Rejecting
<1>1. CASE Load(c)
  <2>1. mem' = [mem EXCEPT ![c] = doc] /\ doc' = doc
    BY <1>1 DEF Load
  <2>2. RowsSpent'
    BY <1>a, <2>1, AloneSpent
  <2>3. pc[c] \in {"queued", "resuming"} /\ pc'[c] \in {"loaded", "rejected"}
    BY <1>1 DEF Load, TypeOK
  <2> QED
    BY <2>2, <2>3 DEF GoesOn, HoldGoesOn
<1>2. CASE Acquire(c)
  <2> DEFINE new == [doc EXCEPT !.state = "running"]
             row == [doc EXCEPT !.state = "running", !.result = mem[c].result,
                                !.rejected = mem[c].rejected, !.requests = mem[c].requests]
  <2>1. Spent(new) /\ Spent(row)
    BY <1>a DEF Row, Spent
  <2>2. doc' = new /\ mem' = [mem EXCEPT ![c] = row] /\ pc[c] = "loaded" /\ pc'[c] = "top"
    BY <1>2 DEF Acquire, TypeOK
  <2> HIDE DEF new, row
  <2>3. RowsSpent'
    BY <2>1, <2>2 DEF RowsSpent, TypeOK
  <2> QED
    BY <2>2, <2>3 DEF GoesOn, HoldGoesOn
<1>3. CASE AcquireRefused(c)
  BY <1>c, <1>3 DEF AcquireRefused, GoesOn, HoldGoesOn, TypeOK
<1>4. CASE TopGate(c)
  <2>1. CASE GateStops(c, mem[c])
    BY <1>a, <1>4, <2>1, EndsGoOn DEF TopGate, GateStops, Down
  <2>2. CASE ~GateStops(c, mem[c])
    <3>1. pc[c] = "top" /\ pc'[c] = "clear" /\ UNCHANGED <<doc, mem>>
      BY <1>4, <2>2 DEF TopGate, TypeOK
    <3> QED
      BY <1>a, <1>c, <3>1 DEF GoesOn, HoldGoesOn, TurnGoesOn, Down
  <2> QED
    BY <2>1, <2>2
<1>5. CASE RecipeTurn(c)
  <2>1. CASE EndsIn(c, mem[c], {"needs-human"})
    BY <1>a, <1>5, <2>1, EndsGoOn DEF RecipeTurn, Down
  <2>2. CASE mem[c].steps < MaxSteps /\ \E a \in Action : Begin(c, a, mem[c])
    BY <1>5, <2>2, BeginGoesOn DEF RecipeTurn
  <2> QED
    BY <1>5, <2>1, <2>2 DEF RecipeTurn
<1>6. CASE ModelTurn(c)
  <2>1. CASE EndsIn(c, mem[c], {"needs-human"}) \/ EndsIn(c, mem[c], {"paused"})
    BY <1>a, <1>6, <2>1, EndsGoOn DEF ModelTurn, Down
  <2>2. CASE Room(mem[c]) /\ Save(c, [mem[c] EXCEPT !.calls = @ + 1])
             /\ pc' = [pc EXCEPT ![c] = "asking"]
    <3> DEFINE new == [mem[c] EXCEPT !.calls = @ + 1]
    <3>1. new.calls = mem[c].calls + 1 /\ new.steps = mem[c].steps
      BY <1>a DEF Row
    <3>2. Save(c, new) /\ mem[c].calls < MaxCalls
      BY <2>2 DEF Room
    <3>3. new \in Row
      BY <1>a, RowType
    <3> HIDE DEF new
    <3>4. Spent(new)
      <4>1. mem[c].calls \in Nat /\ MaxCalls \in Nat
        BY <1>a DEF Row
      <4> QED
        BY <1>a, <3>1, <3>2, <4>1 DEF Spent
    <3>5. RowsSpent' /\ mem'[c] = new
      BY <3>2, <3>3, <3>4, SaveSpent
    <3>6. pc[c] = "clear" /\ pc'[c] = "asking"
      BY <1>6, <2>2 DEF ModelTurn, TypeOK
    <3> QED
      BY <3>1, <3>2, <3>5, <3>6 DEF GoesOn, HoldGoesOn, TurnGoesOn
  <2> QED
    BY <1>6, <2>1, <2>2 DEF ModelTurn
<1>7. ASSUME NEW a \in Action, NEW n \in 0..MaxRequests, Perform(c, a, n) PROVE GoesOn(c)
  <2> DEFINE row == [mem[c] EXCEPT !.requests = @ + n]
  <2>1. n \in Nat
    OBVIOUS
  <2>2. row \in Row /\ SameCounters(row, mem[c])
    BY <1>a, <2>1, RowType DEF Row, SameCounters
  <2>3. mem' = [mem EXCEPT ![c] = row] /\ doc' = doc /\ pc[c] = "intent" /\ pc'[c] = "executed"
    BY <1>7 DEF Perform, TypeOK
  <2> HIDE DEF row
  <2> QED
    BY <1>b, <2>2, <2>3 DEF GoesOn, HoldGoesOn, TurnGoesOn, Down
<1>8. ASSUME NEW a \in Action, ToolFails(c, a) PROVE GoesOn(c)
  <2> DEFINE row == [mem[c] EXCEPT !.result[a] = "failed"]
  <2>1. row \in Row /\ SameCounters(row, mem[c])
    BY <1>a, RowType DEF Row, SameCounters, Result
  <2>2. EndsIn(c, row, {"cancelled", "needs-human"}) /\ pc[c] = "executed"
    BY <1>8 DEF ToolFails
  <2> HIDE DEF row
  <2> QED
    BY <2>1, <2>2, EndsGoOn DEF Down
<1>9. ASSUME NEW a \in Action, ToolSucceeds(c, a) PROVE GoesOn(c)
  <2>1. PICK res \in {"ok", "partial"} :
          /\ Save(c, [mem[c] EXCEPT !.result[a] = res])
          /\ pc' = [pc EXCEPT ![c] = IF res = "partial" /\ a \in Required
                                     THEN "partial" ELSE "top"]
    BY <1>9 DEF ToolSucceeds
  <2> DEFINE row == [mem[c] EXCEPT !.result[a] = res]
  <2>2. row \in Row /\ SameCounters(row, mem[c])
    BY <1>a, RowType DEF Row, SameCounters, Result
  <2>3. Save(c, row) /\ pc[c] = "executed" /\ pc'[c] \in {"partial", "top"}
    BY <1>9, <2>1 DEF ToolSucceeds, TypeOK
  <2> HIDE DEF row
  <2> QED
    BY <1>b, <2>2, <2>3 DEF GoesOn, HoldGoesOn, TurnGoesOn, Down
<1>10. ASSUME NEW a \in Action, Propose(c, a) PROVE GoesOn(c)
  <2>1. CASE MayBegin(mem[c], a)
    BY <1>10, <2>1, BeginGoesOn DEF Propose, MayBegin
  <2>2. CASE ~MayBegin(mem[c], a)
    BY <1>d, <1>10, <2>2, EndsGoOn DEF Propose, Down
  <2> QED
    BY <2>1, <2>2
<1>11. CASE RecipeIncomplete(c)
  BY <1>a, <1>11, EndsGoOn DEF RecipeIncomplete, Down
<1>12. ASSUME NEW u \in Usage, Ask(c, u) PROVE GoesOn(c)
  <2>1. pc[c] = "asking" /\ pc'[c] = "answered" /\ UNCHANGED <<doc, mem>>
    BY <1>12 DEF Ask, TypeOK
  <2> QED
    BY <1>a, <1>c, <2>1 DEF GoesOn, HoldGoesOn, TurnGoesOn, Down
<1>13. CASE NoAnswer(c)
  <2> DEFINE row == [mem[c] EXCEPT !.tokens = @ + Reservation]
  <2>1. row \in Row /\ SameCounters(row, mem[c])
    BY <1>a, RowType DEF Row, SameCounters
  <2>2. EndsIn(c, row, {"paused"}) /\ pc[c] = "answered"
    BY <1>13 DEF NoAnswer
  <2> HIDE DEF row
  <2> QED
    BY <2>1, <2>2, EndsGoOn DEF Down
<1>14. CASE AnswerGate(c)
  <2> DEFINE row == [mem[c] EXCEPT !.tokens = @ + bill[c]]
  <2>1. row \in Row /\ SameCounters(row, mem[c])
    BY <1>a, RowType DEF Row, SameCounters, TypeOK
  <2>2. /\ pc[c] = "answered"
        /\ \/ \E states : EndsIn(c, row, states)
           \/ mem' = [mem EXCEPT ![c] = row] /\ doc' = doc /\ pc'[c] = "judging"
    BY <1>14 DEF AnswerGate, GateStops, TypeOK
  <2> HIDE DEF row
  <2>3. CASE \E states : EndsIn(c, row, states)
    BY <2>1, <2>2, <2>3, EndsGoOn DEF Down
  <2>4. CASE mem' = [mem EXCEPT ![c] = row] /\ doc' = doc /\ pc'[c] = "judging"
    BY <1>b, <2>1, <2>2, <2>4 DEF GoesOn, HoldGoesOn, TurnGoesOn, Down
  <2> QED
    BY <2>2, <2>3, <2>4
<1>15. CASE Malformed(c)
  <2>1. CASE mem[c].rejected
    BY <1>a, <1>15, <2>1, EndsGoOn DEF Malformed, Down
  <2>2. CASE ~mem[c].rejected
    <3>1. Save(c, Rejecting(mem[c])) /\ pc[c] = "judging" /\ pc'[c] = "top"
      BY <1>15, <2>2 DEF Malformed, TypeOK
    <3> QED
      BY <1>b, <1>d, <3>1 DEF GoesOn, HoldGoesOn, TurnGoesOn, Down
  <2> QED
    BY <2>1, <2>2
<1>16. ASSUME NEW cited, Finish(c, cited) \/ AskPerson(c, cited) PROVE GoesOn(c)
  <2>1. /\ pc[c] = "judging"
        /\ \E states : EndsIn(c, mem[c], states) \/ EndsIn(c, Rejecting(mem[c]), states)
    BY <1>16 DEF Finish, AskPerson
  <2> QED
    BY <1>a, <1>d, <2>1, EndsGoOn DEF Down
<1>17. CASE Fault(c)
  BY <1>a, <1>17, EndsGoOn DEF Fault, Down
<1>18. CASE FinalSave(c)
  <2>1. Save(c, mem[c]) /\ pc[c] = "report" /\ pc'[c] = "leaving"
    BY <1>18 DEF FinalSave, TypeOK
  <2> QED
    BY <1>a, <1>b, <2>1 DEF GoesOn, HoldGoesOn, TurnGoesOn, Down
<1>19. CASE ReportFails(c) \/ CheckOwner(c)
  <2>1. UNCHANGED <<doc, mem>> /\ <<pc[c], pc'[c]>> \in Down
    BY <1>19 DEF ReportFails, CheckOwner, TypeOK, Down
  <2> QED
    BY <1>a, <1>c, <2>1 DEF GoesOn, HoldGoesOn, TurnGoesOn
<1>20. CASE FailWrite(c)
  <2>1. doc'.steps = doc.steps /\ doc'.calls = doc.calls /\ mem' = mem
    BY <1>a, <1>20 DEF FailWrite, Row
  <2>2. RowsSpent'
    BY <2>1 DEF RowsSpent, Spent
  <2>3. <<pc[c], pc'[c]>> \in Down
    BY <1>20 DEF FailWrite, TypeOK, Down
  <2> QED
    BY <1>a, <2>1, <2>2, <2>3 DEF GoesOn, HoldGoesOn, TurnGoesOn
<1>21. CASE Leave(c)
  <2>1. mem' = [mem EXCEPT ![c] = NewRow] /\ doc' = doc /\ pc[c] = "leaving" /\ pc'[c] = "idle"
    BY <1>21 DEF Leave, Forget, TypeOK
  <2>2. Spent(NewRow)
    BY DEF Spent, NewRow
  <2>3. RowsSpent'
    BY <2>1, <2>2, NewRowType, AloneSpent
  <2> QED
    BY <2>1, <2>3 DEF GoesOn, HoldGoesOn
<1> QED
  BY <1>1, <1>2, <1>3, <1>4, <1>5, <1>6, <1>7, <1>8, <1>9, <1>10, <1>11, <1>12, <1>13,
     <1>14, <1>15, <1>16, <1>17, <1>18, <1>19, <1>20, <1>21 DEF WorkerStep

\* A step of one worker leaves what the others have in hand alone.
LEMMA OthersInHand ==
  ASSUME TypeOK, NEW c \in Console, NEW d \in Console, c # d,
         WorkerStep(c) \/ Resume(c) \/ Crash(c)
  PROVE  UNCHANGED <<pc[d], mem[d], bill[d]>>
<1> USE DEF TypeOK, At, Go, Save, EndsIn, Begin, GateStops, Forget, history
<1>1. CASE Resume(c) \/ Crash(c) \/ Load(c) \/ Acquire(c) \/ AcquireRefused(c)
  BY <1>1 DEF Resume, Crash, Load, Acquire, AcquireRefused
<1>2. CASE TopGate(c) \/ RecipeTurn(c) \/ ModelTurn(c)
  <2>1. CASE TopGate(c)
    BY <1>2, <2>1 DEF TopGate
  <2>2. CASE RecipeTurn(c)
    BY <1>2, <2>2 DEF RecipeTurn
  <2>3. CASE ModelTurn(c)
    BY <1>2, <2>3 DEF ModelTurn
  <2> QED
    BY <1>2, <2>1, <2>2, <2>3
<1>3. ASSUME NEW a \in Action, NEW n \in 0..MaxRequests, Perform(c, a, n)
      PROVE  UNCHANGED <<pc[d], mem[d], bill[d]>>
  BY <1>3 DEF Perform
<1>4. ASSUME NEW a \in Action, ToolFails(c, a) \/ ToolSucceeds(c, a) \/ Propose(c, a)
      PROVE  UNCHANGED <<pc[d], mem[d], bill[d]>>
  BY <1>4 DEF ToolFails, ToolSucceeds, Propose
<1>5. ASSUME NEW u \in Usage, Ask(c, u) PROVE UNCHANGED <<pc[d], mem[d], bill[d]>>
  BY <1>5 DEF Ask
<1>6. CASE NoAnswer(c) \/ AnswerGate(c) \/ Malformed(c) \/ RecipeIncomplete(c)
  BY <1>6 DEF NoAnswer, AnswerGate, Malformed, RecipeIncomplete
<1>7. ASSUME NEW cited, Finish(c, cited) \/ AskPerson(c, cited)
      PROVE  UNCHANGED <<pc[d], mem[d], bill[d]>>
  BY <1>7 DEF Finish, AskPerson
<1>8. CASE Fault(c) \/ FinalSave(c) \/ ReportFails(c) \/ CheckOwner(c) \/ FailWrite(c) \/ Leave(c)
  BY <1>8 DEF Fault, FinalSave, ReportFails, CheckOwner, FailWrite, Leave
<1> QED
  BY <1>1, <1>2, <1>3, <1>4, <1>5, <1>6, <1>7, <1>8 DEF WorkerStep

\* What a step leaves a console with: what it had, or less of a hold it had begun.
Spends(c) ==
  \/ UNCHANGED <<pc[c], mem[c], bill[c]>>
  \/ At(c, "idle")
  \/ HoldGoesOn(pc[c], pc[c]', mem[c], mem[c]')

LEMMA SpentStep ==
  ASSUME TypeOK, RowsSpent, [Next]_vars
  PROVE  RowsSpent' /\ \A c \in Console : Spends(c)
<1>1. CASE UNCHANGED vars
  BY <1>1 DEF vars, memory, RowsSpent, Spends
<1>2. ASSUME NEW c \in Console, WorkerStep(c) PROVE RowsSpent' /\ \A d \in Console : Spends(d)
  BY <1>2, WorkerGoesOn, OthersInHand DEF GoesOn, Spends
<1>3. ASSUME NEW c \in Console, Resume(c) PROVE RowsSpent' /\ \A d \in Console : Spends(d)
  <2>1. At(c, "idle") /\ doc' = doc /\ mem' = mem
    BY <1>3 DEF Resume
  <2> QED
    BY <1>3, <2>1, OthersInHand DEF RowsSpent, Spends
<1>4. ASSUME NEW c \in Console, Crash(c) PROVE RowsSpent' /\ \A d \in Console : Spends(d)
  <2>1. doc' = doc /\ mem' = [mem EXCEPT ![c] = NewRow] /\ pc'[c] = "idle"
    BY <1>4 DEF Crash, Forget, Go, TypeOK
  <2>2. Spent(NewRow)
    BY DEF Spent, NewRow
  <2>3. RowsSpent'
    BY <2>1, <2>2, NewRowType, AloneSpent
  <2>4. Spends(c)
    BY <2>1 DEF Spends, At, HoldGoesOn
  <2> QED
    BY <1>4, <2>3, <2>4, OthersInHand DEF Spends
<1>5. ASSUME NEW c \in Console, CancelRun(c) \/ SwitchOff(c)
      PROVE  RowsSpent' /\ \A d \in Console : Spends(d)
  <2>1. /\ mem' = mem /\ pc' = pc /\ bill' = bill
        /\ doc'.steps = doc.steps /\ doc'.calls = doc.calls
    BY <1>5 DEF CancelRun, SwitchOff, TypeOK, Row
  <2> QED
    BY <2>1 DEF RowsSpent, Spent, Spends
<1>6. CASE Recover
  <2>1. /\ mem' = mem /\ pc' = pc /\ bill' = bill
        /\ doc'.steps = doc.steps /\ doc'.calls = doc.calls
    BY <1>6 DEF Recover, memory, TypeOK, Row
  <2> QED
    BY <2>1 DEF RowsSpent, Spent, Spends
<1> QED
  BY <1>1, <1>2, <1>3, <1>4, <1>5, <1>6 DEF Next

LEMMA SpentKept == Spec => []RowsSpent
<1>1. Init => RowsSpent
  BY DEF Init, NewRow, RowsSpent, Spent
<1>2. TypeOK /\ RowsSpent /\ [Next]_vars => RowsSpent'
  BY SpentStep
<1> QED
  BY <1>1, <1>2, RunnerType, PTL DEF Spec

\* Whatever a worker does uses up some of its hold, also where consoles race for the
\* task and overwrite each other's rows: no answer, no failure, no rejection and no
\* other console gives a worker turns back, so no hold of the task goes on for ever.
THEOREM HoldsRunOut == Spec => HoldRunsOut
<1> DEFINE Step == \A c \in Console : \/ At(c, "idle")
                                      \/ UNCHANGED <<pc[c], mem[c], bill[c]>> /\ ~WorkerStep(c)
                                      \/ HoldLeft(c)' \in 0..(HoldLeft(c) - 1)
<1>1. TypeOK /\ TypeOK' /\ RowsSpent /\ RowsSpent' /\ [Next]_vars => [Step]_vars
  <2> SUFFICES ASSUME TypeOK, TypeOK', RowsSpent, RowsSpent', [Next]_vars, NEW c \in Console,
                      HoldGoesOn(pc[c], pc[c]', mem[c], mem[c]')
               PROVE  HoldLeft(c)' \in 0..(HoldLeft(c) - 1)
    BY SpentStep, WorkerGoesOn DEF Spends, GoesOn
  <2>1. /\ pc[c] \in PC /\ pc'[c] \in PC /\ mem[c] \in Row /\ mem'[c] \in Row
        /\ Spent(mem[c]) /\ Spent(mem'[c])
    BY DEF TypeOK, RowsSpent
  <2> DEFINE before == 10 * TurnsLeft(pc[c], mem[c]) + PhasesLeft[pc[c]]
             after == 10 * TurnsLeft(pc'[c], mem'[c]) + PhasesLeft[pc'[c]]
  <2>2. after \in 0..(before - 1)
    BY <2>1, LessIsLeft
  <2>3. TurnsLeft(pc[c], mem[c])' = TurnsLeft(pc'[c], mem'[c])
    BY DEF TurnsLeft
  <2>4. (PhasesLeft[pc[c]])' = PhasesLeft[pc'[c]]
    BY DEF PhasesLeft
  <2>5. HoldLeft(c)' = after
    BY <2>3, <2>4 DEF HoldLeft
  <2>6. HoldLeft(c) = before
    BY DEF HoldLeft
  <2> HIDE DEF before, after
  <2> QED
    BY ONLY <2>2, <2>5, <2>6
<1> QED
  BY <1>1, RunnerType, SpentKept, PTL DEF Spec, HoldRunsOut
=============================================================================
