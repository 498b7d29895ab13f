SPECIFICATION ChatFairSpec
CONSTANTS
  MaxRetries = 4
  Backoff = 1
  MaxDelay = 4
  Budget = 12
  RequestTimeout = 5
INVARIANTS
  NoRequestPastBudget
  ChatTimeBounded
PROPERTY
  ChatEnds
