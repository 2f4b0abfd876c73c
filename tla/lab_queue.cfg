\* One lab, and a worker to spare.
CONSTANTS
  Lab = {l1}
  Slots = 3
  Workers = 2
  Requests = 2
SPECIFICATION Spec
INVARIANTS
  WaitersLeaveRoom
  ShownIsReal
  ProbesWhatRuns
  QuietShutdown
PROPERTIES
  CutOffIsShown
  ImplementsGuard
  AcceptedEnds
