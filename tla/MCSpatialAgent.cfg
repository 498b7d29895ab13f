SPECIFICATION FairSpec
CONSTANT MaxGraphSteps = 3
INVARIANTS
  RunsWhatWasAccepted
  RefusalRunsNothing
PROPERTIES
  AnswerSpec
  AnswerEnds
