SPECIFICATION Spec
CONSTANTS
    Mishaps = {"gc-lag"}
    MaxRuns = 4
    MaxCrashes = 0
    MaxBuilds = 1
INVARIANT RestoreIsFaithful
CHECK_DEADLOCK FALSE
