SPECIFICATION Spec
CONSTANTS
  Console = Console
  Shell = Shell
  Inventory <- SomeLabs
  MaxBorn = 2
  Policy <- LocalPolicy
  Cases <- SomeCases
  Word = {"surface", "login"}
  Nowhere = Nowhere
  Objects = 1
  MaxRequests = 6
  Choice <- SomeTools
  MaxHops = 2
  MaxScripts = 1
  Rounds = 1
  Location <- Somewhere
CHECK_DEADLOCK FALSE
INVARIANTS
  RequestsWithinLimit
  ResultIsBacked
  RunIsSettled
  ResetIsFresh
  CandidateIsFiled
  NeverStuck
PROPERTIES
  WorkRunsOut
  DataIsLeftAlone
