SPECIFICATION Spec
CONSTANTS
  Requests = {1, 2, 3}
  Uploads = {1, 2}
  Viewers = {v1, v2}
  NoViewer = none
  MaxTurns = 2
  MaxControls = 2
  Bounds <- MCBounds
CHECK_DEADLOCK FALSE
INVARIANTS ControlExcludesTurns HistoryInOrder AttachmentsReadable OneViewer
PROPERTY ControlEnds
