\* database_delete with one process death and one stall, two reapers
SPECIFICATION Spec
CONSTANTS
  Calls = {c1}
  NoCall = NoCall
  Workers = {w1, w2}
  Threads = {t1}
  Reapers = {r1, r2}
  NoReaper = NoReaper
  CrashSafe = FALSE
  HighRisk = TRUE
  MaxAttempts = 1
  MaxMessages = 3
  LongTool = FALSE
  Resubmit = FALSE
  MaxOps = 2
  MaxCrashes = 1
  MaxStalls = 1
SYMMETRY Symmetry
INVARIANTS
  SuccessHasResult
  OneReaperActs
PROPERTIES
  ReleaseOnlyOwn
CHECK_DEADLOCK FALSE
