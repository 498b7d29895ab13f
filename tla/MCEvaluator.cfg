SPECIFICATION FairSpec
CONSTANTS
  NQ = 3
  Retries = 1
  NoRow = NoRow
  Workers = {w1, w2}
  Answers <- MCAnswers
  Exceptions <- MCExceptions
  Calls = {1}
INVARIANTS
  RetriesReported
  ExclusiveClaim
  EarnedResultKept
  SessionsCloseOrFail
PROPERTIES
  RunSpec
  RunEnds
