SPECIFICATION Spec
CONSTANTS
    Mishaps = {}
    MaxRuns = 7
    MaxCrashes = 2
    MaxBuilds = 2
INVARIANTS TypeOK ArchiveReadable RestoreIsFaithful KeysReadable
PROPERTY RestoreLosesNothing
CHECK_DEADLOCK FALSE
