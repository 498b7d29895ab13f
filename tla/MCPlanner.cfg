SPECIFICATION Spec
CONSTANTS
  Questions <- MCQuestions
  MaxSteps = 8
CHECK_DEADLOCK FALSE
INVARIANTS
  CompletionSuffices
  DependenciesSurvive
  EndsAreNotStops
  TourMatchesMatrix
  ReferencesHold
  IndicesKeepTheirPlaces
  StaysCountedOnce
  NothingIsOutranked
