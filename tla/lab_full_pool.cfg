\* As many workers as labs.
CONSTANTS
  Lab = {l1}
  Slots = 3
  Workers = 1
  Requests = 2
SPECIFICATION Spec
PROPERTY
  AcceptedEnds
