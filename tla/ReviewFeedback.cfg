SPECIFICATION Spec
CONSTANTS
  Workers = {1}
  Papers = {1}
  Sections = {1}
  Versions = {"review.v2"}
  MaxOutlines = 2
  MaxAttempts = 3
INVARIANT FeedbackIsServed
CHECK_DEADLOCK FALSE
