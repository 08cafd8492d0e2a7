\* two requests at once, one cache that all share, traffic in tenths
SPECIFICATION FairSpec
CONSTANTS
  q1 = q1
  q2 = q2
  r1 = r1
  r2 = r2
  redis = redis
  None = None
  Versions = {1, 2, 3}
  Stored = {1, 2}
  Percents = {3, 5, 7, 10}
  Whole = 10
  Requests = {q1, q2}
  Resolvers = {r1}
  Sites = {redis}
  MaxChanges = 3
  MaxFailures = 1
INVARIANTS
  StaleOnlyByRace
  RollbackUndoes
  CanaryIsSticky
PROPERTIES
  CachesConverge
CHECK_DEADLOCK FALSE
