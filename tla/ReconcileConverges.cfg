SPECIFICATION RetrySpec
CONSTANTS
    CRs <- OneCR
    Slow <- SlowZuul
    Fragile <- FewFragile
    Upgrades <- NoUpgrades
    DryRuns <- AnyRuns
    MaxAttempt = 3
    MaxFaults = 1
PROPERTIES CommandEnds Converges DryRunKeepsObjects
