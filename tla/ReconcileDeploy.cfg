SPECIFICATION Spec
CONSTANTS
    CRs <- AllCRs
    Slow <- SlowBase
    Fragile <- AnyFragile
    Upgrades <- AllUpgrades
    DryRuns <- RealRuns
    MaxAttempt = 3
    MaxFaults = 1
INVARIANTS TypeOK StepInv SuccessMatchesCR
PROPERTIES BackendsFirst ImplementsCommand
