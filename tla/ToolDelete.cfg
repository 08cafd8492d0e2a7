\* database_delete, nothing fails: two calls of one key, each
\* submitted any number of times, two callers, two workers
SPECIFICATION Spec
CONSTANTS
  Calls = {c1, c2}
  NoCall = NoCall
  Workers = {w1, w2}
  Threads = {t1, t2}
  Reapers = {}
  NoReaper = NoReaper
  CrashSafe = FALSE
  HighRisk = TRUE
  MaxAttempts = 1
  MaxMessages = 4
  LongTool = FALSE
  Resubmit = TRUE
  MaxOps = 5
  MaxCrashes = 0
  MaxStalls = 0
SYMMETRY Symmetry
INVARIANTS
  NoBlindRerun
  ApprovedOnly
  NoOrphanClaim
CHECK_DEADLOCK FALSE
