SPECIFICATION Spec
CONSTANTS
  Workers = {1, 2}
  Requests = {1, 2}
  Papers = {1}
  MaxVersion = 2
  MaxAttempts = 2
  MaxChanges = 1
CHECK_DEADLOCK FALSE
INVARIANTS AnswersFollow CitationsInScope OneQuestionPerKey
