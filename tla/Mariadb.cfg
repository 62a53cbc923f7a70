SPECIFICATION Spec
CONSTANTS
    Commands = {c1, c2}
    Volumes = {data}
    Sizes = {2}
    FirstAlone = TRUE
    MaxRuns = 2
    MaxRotations = 1
    MaxLate = 1
    MaxFaults = 1
INVARIANTS TypeOK AgreeAtRest RootCanLogIn
PROPERTIES SuccessCanLogIn SuccessHasSpace CommandsEnd
CHECK_DEADLOCK FALSE
