SPECIFICATION FairSpec
CONSTANTS
  w1 = w1
  w2 = w2
  MaxJobs = 2
  Workers = {w1, w2}
  MaxAttempts = 3
  Scopes <- MCScopes
INVARIANT Truthful
PROPERTIES AnswersImplemented ClosesWhenReported
CHECK_DEADLOCK FALSE
