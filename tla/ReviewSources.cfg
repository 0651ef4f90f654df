SPECIFICATION Spec
CONSTANTS
  Workers = {1, 2}
  Candidates = {1, 2}
  Duplicates = {1}
  ProjectPapers = {3}
  SourceLimit = 2
  MinimumReady = 1
  Versions = {"review.v1", "review.v2"}
  MaxAttempts = 2
CHECK_DEADLOCK FALSE
INVARIANT OnlySelectedImported
PROPERTIES SettledIsFinal WaitsEnd
