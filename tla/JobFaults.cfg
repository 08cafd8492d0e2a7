\* one job, every kind of fault: a crash, a stall, a cancel request, a requeue
SPECIFICATION Spec
CONSTANTS
  Jobs = {j1}
  NoJob = NoJob
  Workers = {w1, w2}
  NoWorker = NoWorker
  Timers = {t1, t2}
  Clients = {c1}
  Steps = 2
  ToolSteps = {2}
  MaxRetries = 2
  MaxCancels = 1
  MaxRequeues = 1
  MaxFaults = 1
  MaxCrashes = 1
  MaxStalls = 1
SYMMETRY Symmetry
INVARIANTS
  SingleDispatch
  NoLostMessage
  RunnerOwnsJob
PROPERTIES
  ToolNotRepeated
CHECK_DEADLOCK FALSE
