SPECIFICATION Spec
CONSTANTS
    p1 = p1
    sys = sys
    s1 = s1
    s2 = s2
    Projects <- OneProject
    Settings <- OneSetting
    First <- s1
    Internal <- sys
    MaxPassword = 1
    MaxRuns = 3
    MaxCrashes = 1
INVARIANT RetryRepairs
CHECK_DEADLOCK FALSE
