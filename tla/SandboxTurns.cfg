SPECIFICATION Spec
CONSTANTS
  Workers = {w1, w2}
  NoWorker = NoWorker
  Cleaners = {}
  NoCleaner = NoCleaner
  MaxTurns = 2
  MaxAttempts = 2
  MaxStarts = 3
  MaxSandboxes = 2
  MaxClaims = 0
CHECK_DEADLOCK FALSE
SYMMETRY WorkerSymmetry
INVARIANTS OnlyCommittedFiles StableVersions
