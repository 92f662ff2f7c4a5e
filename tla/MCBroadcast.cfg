SPECIFICATION FairSpec
CONSTANTS
  c1 = c1
  c2 = c2
  t1 = t1
  t2 = t2
  Null = Null
  Customers = {c1, c2}
  Tasks = {t1, t2}
  MaxFaults = 1
  MaxResets = 2
  SlowTasks = FALSE
INVARIANTS TemplateOnce AudienceFixed LedgerTruthful
PROPERTY ClaimsResolve
