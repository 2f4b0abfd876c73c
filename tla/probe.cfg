SPECIFICATION Spec
CONSTANTS
  Kind = {"shell", "local", "passive", "business"}
  Policy <- MCPolicy
  Plan <- MCPlan
  RecipeOf <- MCRecipeOf
  Location <- MCLocation
  Reason = {"cancel", "stop", "window", "identity", "scanner", "context", "disk"}
CHECK_DEADLOCK FALSE
INVARIANTS SentInScope CompletedIsCovered ContainerIsReported
PROPERTIES WorkRunsOut OnceAfterWithdrawal
