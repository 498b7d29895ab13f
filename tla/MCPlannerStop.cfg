SPECIFICATION Spec
CONSTANTS
  Questions <- StopQuestions
  MaxSteps = 8
CHECK_DEADLOCK FALSE
INVARIANT StatedStopIsPassed
