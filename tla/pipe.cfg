SPECIFICATION Spec
CONSTANTS
  u = u
  v = v
  narrow = narrow
  wide = wide
  Process = {p1, p2}
  Run = {r1, r2}
  Scope = {narrow, wide}
  Contact = {wide}
  Url = {u, v}
  InScope <- MCInScope
  FixtureOf <- MCFixtureOf
  Tools = 2
  TriageCost = 1
  CallCost = 1
  Budget = 1
  MaxCommands = 3
  None = None
SYMMETRY MCSymmetry
CHECK_DEADLOCK FALSE
INVARIANTS ReportIsBacked ContactIsApproved CallsAreReserved
PROPERTIES StopHolds
