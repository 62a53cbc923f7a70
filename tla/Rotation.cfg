SPECIFICATION FairSpec
CONSTANTS
    UserDeletes <- NotServer
    NewProjects = FALSE
    MaxRuns = 4
    MaxCrashes = 1
INVARIANTS RotationInv KeystoreKept RotatesAll SuccessIsConsistent
PROPERTY CommandEnds
CHECK_DEADLOCK FALSE
