SPECIFICATION FairSpec
CONSTANTS
  MaxSteps = 3
  CallIds = {c1, c2}
INVARIANTS
  CallsMatchObservations
PROPERTIES
  AnswerSpec
  AnswerEnds
