SPECIFICATION Spec
CONSTANTS
  Service = {p1, p2}
  Run = {1, 2}
  Coordinated = {}
  NoRun = NoRun
  Nobody = Nobody
  ListLimit = 1
  StartFaults = FALSE
CHECK_DEADLOCK FALSE
INVARIANTS
  OneWorker
