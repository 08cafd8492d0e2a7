\* two jobs, failing agents, no cancel request, no crash of the process, fair
SPECIFICATION FairSpec
CONSTANTS
  Jobs = {j1, j2}
  NoJob = NoJob
  Workers = {w1, w2}
  NoWorker = NoWorker
  Timers = {t1, t2}
  Clients = {c1}
  Steps = 1
  ToolSteps = {}
  MaxRetries = 2
  MaxCancels = 0
  MaxRequeues = 1
  MaxFaults = 1
  MaxCrashes = 0
  MaxStalls = 0
PROPERTIES
  FollowsLifecycle
  JobEnds
CHECK_DEADLOCK FALSE
