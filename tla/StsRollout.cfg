SPECIFICATION FairSpec
CONSTANTS
    MaxReplicas = 2
    MaxRevision = 3
    MaxFaults = 1
    Overlap = FALSE
INVARIANTS TypeOK ReadyMeansUpdated
PROPERTY RolloutReported
