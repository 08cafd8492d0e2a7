SPECIFICATION IncidentSpec
CONSTANTS
    MaxToolCalls = 4
    MaxNodes = 4
    MaxSteps = 2
    MaxTries = 3
    PermissionSets <- MCPermissionSets
    Symptoms <- MCSymptoms
    MaxIncidents = 2
    MaxMisses = 1
INVARIANTS ConclusionIsWarranted RecoveryIsEarned BudgetHolds
PROPERTIES ExperienceIsVerified IncidentEnds
CHECK_DEADLOCK FALSE
