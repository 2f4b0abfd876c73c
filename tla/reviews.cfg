SPECIFICATION FairSpec
CONSTANTS
  local = local
  business = business
  source = source
  file = file
  origin = origin
  c1 = c1
  c2 = c2
  Console = {c1, c2}
  Shell = {s}
  Task = {t1, t2}
  Approval = {local, business, source, file}
  KindOf <- Kinds
  SiteOf <- Sites
  DeskOf <- Desks
  Target = {origin}
  NoTask = NoTask
  Nobody = Nobody
CHECK_DEADLOCK FALSE
INVARIANTS WorkedOnce RunningIsClaimed
PROPERTIES ImplementsLock OriginIsLetGo
