SPECIFICATION HelpersSpec
CONSTANTS
    c1 = c1
    c2 = c2
    c3 = c3
    Calls = {c1, c2, c3}
    FailureThreshold = 3
    HalfOpenMaxCalls = 1
    Agents = {"a1", "a2"}
    Parents = {"p1", "p2"}
    MaxPerParent = 1
    MaxSteering = 2
    f1 = f1
    f2 = f2
    Askers = {f1, f2}
    Candidates <- MCCandidates
    MaxRetries = 2
    k1 = k1
    m1 = m1
    m2 = m2
CHECK_DEADLOCK FALSE
INVARIANTS HelpersTypeOK
PROPERTIES BreakerSafe SubAgentsSafe FailoverSafe HelpersEnd
