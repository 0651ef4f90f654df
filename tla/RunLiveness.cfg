SPECIFICATION FairSpec
CONSTANTS
  Workers = {w1}
  Dispatchers = {d1}
  MaxRunAttempts = 2
  MaxOutboxAttempts = 2
  MarksOwnFailure = FALSE
  MayPause = TRUE
  MaxPauses = 1
  MaxProgress = 1
  MaxFaults = 1
PROPERTIES AttemptsClose CancelConverges
CHECK_DEADLOCK FALSE
