SPECIFICATION Spec
CONSTANTS
    t1 = t1
    t2 = t2
    k1 = k1
    k2 = k2
    s1 = s1
    None = None
    Keys = {k1, k2}
    Semantics = {s1}
    Tenants = {t1, t2}
    Configs <- MCConfigs
    Profiles <- MCProfiles
    Services = {1, 2}
    Ttls = {2}
    MaxFailures = 2
INVARIANTS OnePlace RetriesAreBudgeted AnswersAreFresh
PROPERTIES SimEnds
CHECK_DEADLOCK FALSE
