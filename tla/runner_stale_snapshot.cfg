\* Two consoles resume one task, and only one of them works at a time.
SPECIFICATION DisciplinedSpec
CONSTANTS
  a1 = a1
  a2 = a2
  Console = {c1, c2}
  Nobody = Nobody
  Action = {a1, a2}
  Recipe <- OneRecipe
  Coverage <- AnyAction
  MaxSteps = 2
  MaxCalls = 2
  MaxTokens = 4
  MaxRequests = 1
  Reservation = 2
  Usage <- WithinReservation
  Cloud = FALSE
CHECK_DEADLOCK FALSE
INVARIANTS NoReplay
