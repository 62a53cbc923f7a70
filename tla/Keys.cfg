SPECIFICATION FairSpec
CONSTANTS
    p1 = p1
    sys = sys
    s1 = s1
    s2 = s2
    Projects <- OneProject
    Settings <- TwoSettings
    First <- s1
    Internal <- sys
    MaxPassword = 2
    MaxRuns = 3
    MaxCrashes = 1
INVARIANTS TypeOK DeployedIsLoaded FullyReconfigured
PROPERTY CommandEnds
CHECK_DEADLOCK FALSE
