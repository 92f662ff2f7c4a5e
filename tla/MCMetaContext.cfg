SPECIFICATION FairSpec
CONSTANTS
  e1 = e1
  e2 = e2
  j1 = j1
  j2 = j2
  t1 = t1
  t2 = t2
  Events = {e1, e2}
  Jobs = {j1, j2}
  Tasks = {t1, t2}
  Null = Null
  Scopes <- MCScopes
INVARIANTS ContextOK
PROPERTIES MatchIsMutualBest VerdictFinal EveryJobReleased
CHECK_DEADLOCK FALSE
