SPECIFICATION Spec
CONSTANTS
  Workers = {w1, w2}
  c1 = c1
  c2 = c2
  Turns <- MixedTurns
  MaxAttempts = 2
  MaxArtifacts = 1
  Contents = {x, y}
  NoContent = none
SYMMETRY WorkerSymmetry
CHECK_DEADLOCK FALSE
INVARIANTS ToolsRunOnce SuccessIsStored BudgetKept ArtifactsDelivered
