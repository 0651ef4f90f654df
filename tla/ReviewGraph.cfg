SPECIFICATION Spec
CONSTANTS
  Workers = {1, 2}
  Papers = {1}
  Sections = {1}
  Versions = {"review.v1", "review.v2"}
  MaxOutlines = 2
  MaxAttempts = 2
CHECK_DEADLOCK FALSE
INVARIANTS SectionsFromApproved OneQuestion EventsMatchFacts
PROPERTY ReviewProceeds
