SPECIFICATION Spec
CONSTANTS
  x = x
  y = y
  here = here
  there = there
  Client = {c1, c2}
  Worker = Worker
  Target = {t}
  Body = {x, y}
  OriginOf <- MCOriginOf
  Origin = {here, there}
  Name = {n}
  Draft = {d, e}
  Limit = 1
  MaxStamp = 2
  None = None
SYMMETRY MCSymmetry
CHECK_DEADLOCK FALSE
INVARIANTS SentAsApproved
PROPERTIES OnceAfterChange
