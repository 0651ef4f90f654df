SPECIFICATION Spec
CONSTANTS
  Workers = {1, 2}
  Requests = {1, 2}
  Lengths = {0, 2}
  MaxAttempts = 2
CHECK_DEADLOCK FALSE
INVARIANTS OneVersion IngestedOnce ReadyIsComplete
PROPERTY PipelineEnds
