\* run_test with one process death
SPECIFICATION FairSpec
CONSTANTS
  Calls = {c1}
  NoCall = NoCall
  Workers = {w1, w2}
  Threads = {t1}
  Reapers = {r1}
  NoReaper = NoReaper
  CrashSafe = TRUE
  HighRisk = FALSE
  MaxAttempts = 2
  MaxMessages = 6
  LongTool = FALSE
  Resubmit = FALSE
  MaxOps = 1
  MaxCrashes = 1
  MaxStalls = 0
PROPERTIES
  JobSettles
CHECK_DEADLOCK FALSE
