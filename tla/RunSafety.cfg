SPECIFICATION Spec
CONSTANTS
  Workers = {w1, w2}
  Dispatchers = {d1}
  MaxRunAttempts = 2
  MaxOutboxAttempts = 2
  MarksOwnFailure = TRUE
  MayPause = TRUE
  MaxPauses = 1
  MaxProgress = 0
  MaxFaults = 1
SYMMETRY WorkerSymmetry
CHECK_DEADLOCK FALSE
INVARIANTS TypeOK LogContiguous LogDeterminesStatus AttemptsMatchLog RetryWillBeDelivered
PROPERTY ImplementsDomain ImplementsMoves
