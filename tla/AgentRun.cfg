\* Three tools: one that must not run twice, one that may, a high-risk one.
SPECIFICATION Spec
CONSTANTS
    PlanLength = 3
    CrashSafe = {2}
    HighRisk = {3}
    MaxAttempts = 2
    CycleStop = 4
    MaxSteps = 6
    MaxCalls = 5
    MaxDeaths = 1
    MaxRecoveries = 1
    MaxReviews = 2
INVARIANTS OneJobPerKey DoneStepsSucceeded
PROPERTIES OnlyReleasedCallsRun RunEnds
CHECK_DEADLOCK FALSE
