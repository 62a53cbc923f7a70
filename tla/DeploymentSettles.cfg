SPECIFICATION FairSpec
CONSTANTS
    MaxRevision = 3
    MaxFaults = 2
INVARIANT TypeOK
PROPERTY RolloutSettles
