SPECIFICATION CalmSpec
CONSTANTS
    p1 = p1
    sys = sys
    s1 = s1
    s2 = s2
    Projects <- OneProject
    Settings <- TwoSettings
    First <- s1
    Internal <- sys
    MaxPassword = 1
    MaxRuns = 3
    MaxCrashes = 0
INVARIANT SettingsInstalled
CHECK_DEADLOCK FALSE
