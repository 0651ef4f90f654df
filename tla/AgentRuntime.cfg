SPECIFICATION FairSpec
CONSTANTS
  Workers = {w1, w2}
  NoOwner = NoOwner
  MaxAttempts = 2
  Steps = 2
  MaxCrashes = 1
CHECK_DEADLOCK FALSE
INVARIANTS PermitsDistinct AnswerIsRuntimeResult
PROPERTIES OnlyHolderWrites TurnEnds
