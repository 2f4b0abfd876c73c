\* One row of a coordinator and one that can be resumed.
SPECIFICATION Spec
CONSTANTS
  Service = {p1, p2}
  Run = {1, 2, 3}
  Coordinated = {2}
  NoRun = NoRun
  Nobody = Nobody
  ListLimit = 1
  StartFaults = TRUE
ACTION_CONSTRAINT DisciplineIsKept
SYMMETRY ProcessSymmetry
CHECK_DEADLOCK FALSE
INVARIANTS
  WorkedRowIsTaken
PROPERTIES
  ImplementsLock
