SPECIFICATION FairSpec
CONSTANTS
  Workers = {w1}
  NoWorker = NoWorker
  Cleaners = {k1, k2}
  NoCleaner = NoCleaner
  MaxTurns = 1
  MaxAttempts = 2
  MaxStarts = 3
  MaxSandboxes = 1
  MaxClaims = 3
CHECK_DEADLOCK FALSE
INVARIANT SandboxesMatchRows
PROPERTY CleanupConverges
