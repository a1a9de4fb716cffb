CONSTANTS
  W = 4
SPECIFICATION Spec
INVARIANT AnswersAsExpected
