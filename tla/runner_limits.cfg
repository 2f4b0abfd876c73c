\* A local-assessment task with one recipe and one proposed action, held by two
\* consoles in turn, with a cloud budget.
SPECIFICATION AloneFairSpec
CONSTANTS
  a1 = a1
  a2 = a2
  Console = {c1, c2}
  Nobody = Nobody
  Action = {a1, a2}
  Recipe <- OneRecipe
  Coverage <- EachAction
  MaxSteps = 3
  MaxCalls = 2
  MaxTokens = 3
  MaxRequests = 2
  Reservation = 2
  Usage <- BeyondReservation
  Cloud = TRUE
CHECK_DEADLOCK FALSE
INVARIANTS NoReplay CompletedIsCovered WorkWithinLimits
PROPERTIES HoldRunsOut LoopEnds
